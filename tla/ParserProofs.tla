----------------------------- MODULE ParserProofs -----------------------------
(***************************************************************************)
(* What a parse makes of any transcript: a reply's latency is that of the  *)
(* prompt it answers and its text that of its turn, and the context trace  *)
(* has one point per turn.                                                 *)
(* For the three formats, lines of any number in any order, stamps that    *)
(* are missing or run backwards, and any bound of the models.  And what    *)
(* the parses of a codex thread make together: each request is billed, and *)
(* each line changed is counted once.                                      *)
(*                                                                         *)
(* The first two compare the outcome of a whole parse with a reading of    *)
(* the log, which says nothing of a parse that is under way.  Follows does *)
(* so of the state after n lines: its anchor is the prompt that is armed,  *)
(* its text what was said since the turn began, its records the lines that *)
(* billed (Recorded, Timed), and its turns, closed or open, stand for the  *)
(* lines that end a turn so far (Grouped).  Moves says what a line of each *)
(* kind does to the state, and FollowsStep that Follows is kept by it.     *)
(*                                                                         *)
(* The Kimi parse is the state of the model, a line an action.  The codex  *)
(* parse is a fold over a journal: the fold is unrolled line by line, and  *)
(* Follows holds of its first n lines for every n.  Whether a reading is a *)
(* request depends on the journal before it: it bills unless it repeats,   *)
(* because what codex counts never steps back (LinesOk, JournalOk).        *)
(*                                                                         *)
(* The trace is a fold over the turns, each of which adds its last record, *)
(* so that the lines of the trace are those that end a turn (TracedTo) and *)
(* its deltas add up (FromBefore).                                         *)
(*                                                                         *)
(* That requests are billed is a matter of the parser, whose books after n *)
(* lines have each reading's own usage, session and model (Booked), and of *)
(* codex, whose readings repeat the last one or add to it what a request   *)
(* used (HistoryOk), also where a fork cuts its parent's history; a        *)
(* request's line is the first with its reading (AskedAt, BillInv).        *)
(*                                                                         *)
(* Lines changed are counted by rows: after n lines of a journal each call *)
(* and each patch that no call applied has a row of its own, and a call's  *)
(* has what its patches added so far (Churned, RowsOk).  The parser gives  *)
(* a patch to the last call that patches, if their turns agree: that is a  *)
(* call of the patch's turn, if there is one, because codex has one turn   *)
(* at work and makes no call of another in between (WorkOk, ChurnInv).     *)
(***************************************************************************)
EXTENDS ParseFile, FiniteSetTheorems, SequenceTheorems, WellFoundedInduction,
        TLAPS

-----------------------------------------------------------------------------
(* Reading a log line by line.                                             *)

Boundary == {"prompt", "step", "end"}
LineKinds == {"prompt", "step", "end", "text", "usage", "other"}

(* The prompt whose reply a line i would be; the texts since its turn      *)
(* began; is it in a turn; and the lines that stand for a turn among the   *)
(* first n.                                                                *)
Armed(l, i) ==
    {j \in 1 .. i - 1 : /\ l[j].kind = "prompt"
                        /\ NoneBetween(l, j, i, {"prompt", "usage", "end"})}

Said(l, i) ==
    {j \in 1 .. i - 1 : l[j].kind = "text" /\ NoneBetween(l, j, i, {"prompt", "step"})}

InTurn(l, i) == \E j \in 1 .. i - 1 : Starts(l, j) /\ NoneBetween(l, j, i, Boundary)

EndsAmong(l, n) ==
    {i \in 1 .. n : /\ l[i].kind = "usage" /\ InTurn(l, i)
                    /\ ~\E k \in i + 1 .. n : /\ l[k].kind = "usage"
                                              /\ NoneBetween(l, i, k, Boundary)}

Chosen(S) == CHOOSE x \in S : TRUE

Anchor(l, i) == IF Armed(l, i) = {} THEN None ELSE l[Chosen(Armed(l, i))].ts

(* One line more is between, unless it is the one looked from.             *)
LEMMA BetweenStep ==
  ASSUME NEW l, NEW n \in Nat, NEW K
  PROVE  /\ \A j \in 1 .. n : NoneBetween(l, j, n + 2, K)
                                <=> NoneBetween(l, j, n + 1, K) /\ l[n + 1].kind \notin K
         /\ NoneBetween(l, n + 1, n + 2, K)
<1>1. ASSUME NEW j \in 1 .. n
      PROVE  j + 1 .. (n + 2) - 1 = (j + 1 .. (n + 1) - 1) \cup {n + 1}
  OBVIOUS
<1>2. (n + 1) + 1 .. (n + 2) - 1 = {}
  OBVIOUS
<1>3. QED
  BY <1>1, <1>2 DEF NoneBetween

(* At most one prompt is armed.                                            *)
LEMMA ArmedOne ==
  ASSUME NEW l, NEW i \in Nat, NEW j \in Armed(l, i), NEW k \in Armed(l, i)
  PROVE  j = k
<1>1. j \in Nat /\ k \in Nat /\ j < i /\ k < i
  BY DEF Armed
<1>2. ASSUME NEW a \in Armed(l, i), NEW b \in Armed(l, i), a < b PROVE FALSE
  <2>1. b \in a + 1 .. i - 1 /\ l[b].kind = "prompt"
    BY <1>2 DEF Armed
  <2>2. QED
    BY <2>1, <1>2 DEF Armed, NoneBetween
<1>3. QED
  BY <1>1, <1>2

LEMMA LatencyOfAnchor ==
  ASSUME NEW l, NEW i \in Nat
  PROVE  LatencyByLog(l, i) =
           IF Anchor(l, i) # None /\ l[i].ts # None /\ l[i].ts >= Anchor(l, i)
           THEN l[i].ts - Anchor(l, i) ELSE None
<1> DEFINE j == Chosen(Armed(l, i))
<1>1. LatencyByLog(l, i) =
        IF \E x \in Armed(l, i) : l[x].ts # None /\ l[i].ts # None /\ l[i].ts >= l[x].ts
        THEN l[i].ts - l[j].ts ELSE None
  BY DEF LatencyByLog, Armed, Chosen
<1>2. CASE Armed(l, i) = {}
  BY <1>1, <1>2 DEF Anchor
<1>3. CASE Armed(l, i) # {}
  <2>1. j \in Armed(l, i) /\ \A x \in Armed(l, i) : x = j
    BY <1>3, ArmedOne DEF Chosen
  <2>2. Anchor(l, i) = l[j].ts
    BY <1>3 DEF Anchor
  <2> HIDE DEF j
  <2>3. QED
    BY <1>1, <2>1, <2>2
<1>4. QED
  BY <1>2, <1>3

LEMMA ArmedStep ==
  ASSUME NEW l, NEW n \in Nat
  PROVE  Armed(l, n + 2) = IF l[n + 1].kind = "prompt" THEN {n + 1}
                           ELSE IF l[n + 1].kind \in {"usage", "end"} THEN {}
                           ELSE Armed(l, n + 1)
<1> DEFINE K == {"prompt", "usage", "end"}
<1>1. \A j : j \in 1 .. (n + 2) - 1 <=> j \in 1 .. n \/ j = n + 1
  OBVIOUS
<1>2. \A j : j \in 1 .. (n + 1) - 1 <=> j \in 1 .. n
  OBVIOUS
<1> HIDE DEF K
<1>3. \A j : j \in Armed(l, n + 2) <=>
               \/ j = n + 1 /\ l[n + 1].kind = "prompt"
               \/ j \in Armed(l, n + 1) /\ l[n + 1].kind \notin K
  <2>1. \A j : j \in Armed(l, n + 2) <=>
               /\ j \in 1 .. (n + 2) - 1 /\ l[j].kind = "prompt"
               /\ NoneBetween(l, j, n + 2, K)
    BY DEF Armed, K
  <2>2. \A j : j \in Armed(l, n + 1) <=>
               /\ j \in 1 .. (n + 1) - 1 /\ l[j].kind = "prompt"
               /\ NoneBetween(l, j, n + 1, K)
    BY DEF Armed, K
  <2>3. n + 1 \notin 1 .. n
    OBVIOUS
  <2>4. QED
    BY <1>1, <1>2, <2>1, <2>2, <2>3, BetweenStep
<1>4. QED
  BY <1>3 DEF K

LEMMA SaidStep ==
  ASSUME NEW l, NEW n \in Nat
  PROVE  /\ Said(l, n + 2) = IF l[n + 1].kind \in {"prompt", "step"} THEN {}
                             ELSE IF l[n + 1].kind = "text" THEN Said(l, n + 1) \cup {n + 1}
                             ELSE Said(l, n + 1)
         /\ n + 1 \notin Said(l, n + 1)
<1> DEFINE K == {"prompt", "step"}
<1>1. \A j : j \in 1 .. (n + 2) - 1 <=> j \in 1 .. n \/ j = n + 1
  OBVIOUS
<1>2. \A j : j \in 1 .. (n + 1) - 1 <=> j \in 1 .. n
  OBVIOUS
<1> HIDE DEF K
<1>3. \A j : j \in Said(l, n + 1) <=>
               /\ j \in 1 .. n /\ l[j].kind = "text"
               /\ NoneBetween(l, j, n + 1, K)
  BY <1>2 DEF Said, K
<1>4. \A j : j \in Said(l, n + 2) <=>
               \/ j = n + 1 /\ l[n + 1].kind = "text"
               \/ j \in Said(l, n + 1) /\ l[n + 1].kind \notin K
  <2>1. \A j : j \in Said(l, n + 2) <=>
               /\ j \in 1 .. (n + 2) - 1 /\ l[j].kind = "text"
               /\ NoneBetween(l, j, n + 2, K)
    BY DEF Said, K
  <2>3. n + 1 \notin 1 .. n
    OBVIOUS
  <2>4. QED
    BY <1>1, <1>3, <2>1, <2>3, BetweenStep
<1>5. n + 1 \notin Said(l, n + 1)
  BY <1>3
<1>6. QED
  BY <1>4, <1>5 DEF K

LEMMA InTurnStep ==
  ASSUME NEW l, NEW n \in Nat
  PROVE  InTurn(l, n + 2) <=> \/ l[n + 1].kind \in {"prompt", "step"}
                              \/ l[n + 1].kind # "end" /\ InTurn(l, n + 1)
<1>1. \A j : j \in 1 .. (n + 2) - 1 <=> j \in 1 .. n \/ j = n + 1
  OBVIOUS
<1>2. \A j : j \in 1 .. (n + 1) - 1 <=> j \in 1 .. n
  OBVIOUS
<1>3. InTurn(l, n + 2) <=> \E j : /\ j \in 1 .. n \/ j = n + 1
                                  /\ Starts(l, j) /\ NoneBetween(l, j, n + 2, Boundary)
  BY <1>1 DEF InTurn
<1>4. InTurn(l, n + 1) <=> \E j \in 1 .. n : Starts(l, j) /\ NoneBetween(l, j, n + 1, Boundary)
  BY <1>2 DEF InTurn
<1>5. InTurn(l, n + 2) <=> \/ Starts(l, n + 1)
                           \/ InTurn(l, n + 1) /\ l[n + 1].kind \notin Boundary
  BY <1>3, <1>4, BetweenStep
<1>6. QED
  BY <1>5 DEF Starts, Boundary

LEMMA EndsStep ==
  ASSUME NEW l, NEW n \in Nat
  PROVE  EndsAmong(l, n + 1) =
           IF l[n + 1].kind = "usage"
           THEN {i \in EndsAmong(l, n) : ~NoneBetween(l, i, n + 1, Boundary)}
                  \cup (IF InTurn(l, n + 1) THEN {n + 1} ELSE {})
           ELSE EndsAmong(l, n)
<1> DEFINE Later(i, m) == \E k \in i + 1 .. m : /\ l[k].kind = "usage"
                                                /\ NoneBetween(l, i, k, Boundary)
<1>1. \A i \in 1 .. n : Later(i, n + 1) <=> \/ Later(i, n)
                                            \/ /\ l[n + 1].kind = "usage"
                                               /\ NoneBetween(l, i, n + 1, Boundary)
  <2>1. \A i \in 1 .. n : \A k : k \in i + 1 .. n + 1 <=> k \in i + 1 .. n \/ k = n + 1
    OBVIOUS
  <2>2. QED
    BY <2>1
<1>2. ~Later(n + 1, n + 1)
  OBVIOUS
<1> HIDE DEF Later
<1>3. \A m : EndsAmong(l, m) = {i \in 1 .. m : /\ l[i].kind = "usage" /\ InTurn(l, i)
                                               /\ ~Later(i, m)}
  BY DEF EndsAmong, Later
<1>4. \A i : i \in 1 .. n + 1 <=> i \in 1 .. n \/ i = n + 1
  OBVIOUS
<1>5. \A i : i \in EndsAmong(l, n + 1) <=>
               \/ /\ i \in EndsAmong(l, n)
                  /\ ~(l[n + 1].kind = "usage" /\ NoneBetween(l, i, n + 1, Boundary))
               \/ i = n + 1 /\ l[n + 1].kind = "usage" /\ InTurn(l, n + 1)
  <2>1. n + 1 \notin 1 .. n
    OBVIOUS
  <2>2. QED
    BY <1>1, <1>2, <1>3, <1>4, <2>1
<1>6. QED
  BY <1>5

(* What is read of the first lines of a log does not depend on the rest.   *)
LEMMA LogPrefix ==
  ASSUME NEW l, NEW m, NEW n \in Nat, \A k \in 1 .. n : m[k] = l[k]
  PROVE  /\ \A i \in 1 .. n + 1 : /\ Armed(m, i) = Armed(l, i) /\ Said(m, i) = Said(l, i)
                                  /\ InTurn(m, i) <=> InTurn(l, i)
                                  /\ Anchor(m, i) = Anchor(l, i)
         /\ \A i \in 1 .. n : LatencyByLog(m, i) = LatencyByLog(l, i)
         /\ EndsAmong(m, n) = EndsAmong(l, n)
         /\ \A i \in 1 .. n : NoneBetween(m, i, n + 1, Boundary)
                                <=> NoneBetween(l, i, n + 1, Boundary)
<1>1. \A i \in 1 .. n + 1 : \A j \in 1 .. i - 1 : \A K :
        /\ NoneBetween(m, j, i, K) <=> NoneBetween(l, j, i, K)
        /\ m[j].kind = l[j].kind
  BY DEF NoneBetween
<1>2. \A i \in 1 .. n + 1 : Armed(m, i) = Armed(l, i) /\ Said(m, i) = Said(l, i)
  <2> SUFFICES ASSUME NEW i \in 1 .. n + 1
               PROVE  Armed(m, i) = Armed(l, i) /\ Said(m, i) = Said(l, i)
    OBVIOUS
  <2>1. \A j \in 1 .. i - 1 : \A K : /\ NoneBetween(m, j, i, K) <=> NoneBetween(l, j, i, K)
                                     /\ m[j].kind = l[j].kind
    BY <1>1
  <2>2. QED
    BY <2>1 DEF Armed, Said
<1>3. \A i \in 1 .. n + 1 : InTurn(m, i) <=> InTurn(l, i)
  BY <1>1 DEF InTurn, Starts
<1>4. \A i \in 1 .. n + 1 : Anchor(m, i) = Anchor(l, i)
  <2> SUFFICES ASSUME NEW i \in 1 .. n + 1, Armed(l, i) # {}
               PROVE  Anchor(m, i) = Anchor(l, i)
    BY <1>2 DEF Anchor
  <2> DEFINE j == Chosen(Armed(l, i))
  <2>1. j \in 1 .. i - 1
    BY DEF Armed, Chosen
  <2>2. m[j] = l[j]
    BY <2>1
  <2>3. Anchor(l, i) = l[j].ts
    BY DEF Anchor
  <2>4. Armed(m, i) = Armed(l, i)
    BY <1>2
  <2>5. Anchor(m, i) = m[j].ts
    BY <2>4 DEF Anchor
  <2>6. QED
    BY <2>2, <2>3, <2>5
<1>5. \A i \in 1 .. n : LatencyByLog(m, i) = LatencyByLog(l, i)
  BY <1>4, LatencyOfAnchor
<1>6. \A i \in 1 .. n : \A k \in i + 1 .. n :
        /\ NoneBetween(m, i, k, Boundary) <=> NoneBetween(l, i, k, Boundary)
        /\ m[k].kind = l[k].kind
  BY DEF NoneBetween
<1>7. EndsAmong(m, n) = EndsAmong(l, n)
  BY <1>3, <1>6 DEF EndsAmong
<1>8. QED
  BY <1>1, <1>2, <1>3, <1>4, <1>5, <1>7
-----------------------------------------------------------------------------
(* What a line does to the state of a parse.                               *)

IsSeq(s) == \E S : s \in Seq(S)

Fields == {"records", "turns", "turn", "anchor", "text"}

(* Nothing a reply or a turn is made of is touched.                        *)
Kept(st, new) ==
    /\ Fields \subseteq DOMAIN new
    /\ new.records = st.records /\ new.turns = st.turns /\ new.turn = st.turn
    /\ new.anchor = st.anchor /\ new.text = st.text

(* A record of line n, with what the state says of a reply now.            *)
IsReply(r, st, n, ts) ==
    /\ r.line = n /\ r.text = st.text /\ r.latency = ReplyLatency(st, ts)
    /\ Context(r) \in Int

(* The effect of line n, by its kind.                                      *)
Moves(st, new, kind, ts, n) ==
    /\ Fields \subseteq DOMAIN new
    /\ kind \in Boundary => new.turns = CloseTurn(st, n).turns /\ new.records = st.records
    /\ kind \in {"prompt", "step"} =>
          new.text = 0 /\ new.turn \in TurnRecord /\ new.turn.lines = <<>>
    /\ kind = "prompt" => new.anchor = ts
    /\ kind = "step" => new.anchor = st.anchor
    /\ kind = "end" => /\ new.turn = None /\ new.text = st.text
                       /\ new.anchor = IF st.turn = None THEN st.anchor ELSE None
    /\ kind = "usage" =>
          /\ new.text = st.text /\ new.anchor = None /\ new.turns = st.turns
          /\ \E r : new.records = Append(st.records, r) /\ IsReply(r, st, n, ts)
          /\ new.turn = IF st.turn = None THEN None
                        ELSE [st.turn EXCEPT !.lines = Append(@, n)]
    /\ kind \in {"text", "other"} =>
          /\ new.anchor = st.anchor /\ new.turn = st.turn /\ new.turns = st.turns
          /\ new.records = st.records
          /\ new.text = IF kind = "text" THEN st.text + 1 ELSE st.text

LEMMA CloseTurnFields ==
  ASSUME NEW st, Fields \subseteq DOMAIN st, NEW n
  PROVE  LET new == CloseTurn(st, n)
         IN /\ Fields \subseteq DOMAIN new
            /\ new.records = st.records /\ new.anchor = st.anchor /\ new.text = st.text
            /\ new.turn = None
            /\ new.turns = IF st.turn = None THEN st.turns
                           ELSE Append(st.turns, [st.turn EXCEPT !.end = n])
<1>1. CASE st.turn = None
  BY <1>1 DEF CloseTurn
<1>2. CASE st.turn # None
  BY <1>2 DEF CloseTurn, Fields
<1>3. QED
  BY <1>1, <1>2

LEMMA StartTurnFields ==
  ASSUME NEW st, Fields \subseteq DOMAIN st, NEW n \in Nat, NEW ts \in Int \cup {None}
  PROVE  LET new == StartTurn(st, n, ts)
         IN /\ Fields \subseteq DOMAIN new
            /\ new.records = st.records /\ new.anchor = st.anchor /\ new.turns = st.turns
            /\ new.text = 0 /\ new.turn \in TurnRecord /\ new.turn.lines = <<>>
<1> DEFINE t == [begin |-> n, ts |-> ts, end |-> None, lines |-> <<>>]
<1>1. t \in TurnRecord /\ t.lines = <<>>
  BY DEF TurnRecord
<1> HIDE DEF t
<1>2. StartTurn(st, n, ts) = [st EXCEPT !.turn = t, !.text = 0]
  BY DEF StartTurn, t
<1>3. QED
  BY <1>1, <1>2 DEF Fields

LEMMA TurnBoundaryMoves ==
  ASSUME NEW st, Fields \subseteq DOMAIN st, NEW n \in Nat, NEW ts \in Int \cup {None}
  PROVE  Moves(st, TurnBoundary(st, n, ts), "prompt", ts, n)
<1> DEFINE closed == CloseTurn(st, n)
           started == StartTurn(closed, n, ts)
           new == TurnBoundary(st, n, ts)
<1>1. Fields \subseteq DOMAIN closed /\ closed.records = st.records
  BY CloseTurnFields
<1>2. /\ Fields \subseteq DOMAIN started
      /\ started.records = closed.records /\ started.turns = closed.turns
      /\ started.text = 0 /\ started.turn \in TurnRecord /\ started.turn.lines = <<>>
  <2> HIDE DEF closed
  <2>1. QED
    BY <1>1, StartTurnFields
<1>3. new = [started EXCEPT !.anchor = ts]
  BY DEF TurnBoundary
<1> HIDE DEF started, new
<1>4. /\ Fields \subseteq DOMAIN new /\ new.anchor = ts
      /\ new.records = started.records /\ new.turns = started.turns
      /\ new.text = started.text /\ new.turn = started.turn
  BY <1>2, <1>3 DEF Fields
<1>5. QED
  BY <1>1, <1>2, <1>4 DEF Moves, Boundary, new

LEMMA StepMoves ==
  ASSUME NEW st, Fields \subseteq DOMAIN st, NEW n \in Nat, NEW ts \in Int \cup {None}, NEW id
  PROVE  Moves(st, StartTurn([CloseTurn(st, n) EXCEPT !.turnId = id], n, ts), "step", ts, n)
<1> DEFINE closed == CloseTurn(st, n)
           named == [closed EXCEPT !.turnId = id]
           new == StartTurn(named, n, ts)
<1>1. /\ Fields \subseteq DOMAIN closed /\ closed.records = st.records
      /\ closed.anchor = st.anchor
  BY CloseTurnFields
<1> HIDE DEF closed
<1>2. /\ Fields \subseteq DOMAIN named /\ named.records = closed.records
      /\ named.anchor = closed.anchor /\ named.turns = closed.turns
  BY <1>1 DEF Fields
<1> HIDE DEF named
<1>3. /\ Fields \subseteq DOMAIN new
      /\ new.records = named.records /\ new.turns = named.turns /\ new.anchor = named.anchor
      /\ new.text = 0 /\ new.turn \in TurnRecord /\ new.turn.lines = <<>>
  BY <1>2, StartTurnFields
<1> HIDE DEF new
<1>4. Moves(st, new, "step", ts, n)
  BY <1>1, <1>2, <1>3 DEF Moves, Boundary, closed
<1>5. QED
  BY <1>4 DEF new, named, closed

LEMMA EndTurnMoves ==
  ASSUME NEW st, Fields \subseteq DOMAIN st, NEW n, NEW ts
  PROVE  Moves(st, EndTurn(st, n), "end", ts, n)
<1> DEFINE closed == CloseTurn(st, n)
           new == EndTurn(st, n)
<1>1. /\ Fields \subseteq DOMAIN closed /\ closed.records = st.records
      /\ closed.anchor = st.anchor /\ closed.text = st.text /\ closed.turn = None
  BY CloseTurnFields
<1>2. CASE st.turn = None
  <2>1. new = st /\ closed = st
    BY <1>2 DEF EndTurn, CloseTurn
  <2> HIDE DEF new, closed
  <2>2. Moves(st, new, "end", ts, n)
    BY <1>1, <1>2, <2>1 DEF Moves, Boundary, closed
  <2>3. QED
    BY <2>2 DEF new
<1>3. CASE st.turn # None
  <2>1. new = [closed EXCEPT !.anchor = None]
    BY <1>3 DEF EndTurn
  <2> HIDE DEF new, closed
  <2>2. /\ Fields \subseteq DOMAIN new /\ new.anchor = None
        /\ new.records = closed.records /\ new.text = closed.text
        /\ new.turn = closed.turn /\ new.turns = closed.turns
    BY <1>1, <2>1 DEF Fields
  <2>3. Moves(st, new, "end", ts, n)
    BY <1>1, <1>3, <2>2 DEF Moves, Boundary, closed
  <2>4. QED
    BY <2>3 DEF new
<1>4. QED
  BY <1>2, <1>3

LEMMA TextMoves ==
  ASSUME NEW st, Fields \subseteq DOMAIN st, NEW n, NEW ts
  PROVE  Moves(st, [st EXCEPT !.text = @ + 1], "text", ts, n)
<1> DEFINE new == [st EXCEPT !.text = st.text + 1]
<1>1. /\ Fields \subseteq DOMAIN new /\ new.text = st.text + 1
      /\ new.records = st.records /\ new.turns = st.turns /\ new.turn = st.turn
      /\ new.anchor = st.anchor
  BY DEF Fields
<1> HIDE DEF new
<1>2. Moves(st, new, "text", ts, n)
  BY <1>1 DEF Moves, Boundary
<1>3. QED
  BY <1>2 DEF new

LEMMA UsageMoves ==
  ASSUME NEW st, Fields \subseteq DOMAIN st, NEW n, NEW ts, NEW uuid, NEW model, NEW toks,
         toks.fresh + toks.create + toks.read \in Int
  PROVE  Moves(st, AppendUsage(st, n, ts, uuid, model, toks), "usage", ts, n)
<1> DEFINE r == [line |-> n, uuid |-> uuid, ts |-> ts, model |-> model, toks |-> toks,
                 text |-> st.text, latency |-> ReplyLatency(st, ts)]
           new == AppendUsage(st, n, ts, uuid, model, toks)
<1>1. IsReply(r, st, n, ts)
  BY DEF IsReply, Context
<1> HIDE DEF r
<1> DEFINE records == Append(st.records, r)
           turn == IF st.turn = None THEN st.turn
                   ELSE [st.turn EXCEPT !.lines = Append(@, n)]
<1>2. new = [st EXCEPT !.records = records, !.anchor = None, !.turn = turn]
  BY DEF AppendUsage, r
<1> HIDE DEF new, records, turn
<1>3. /\ Fields \subseteq DOMAIN new /\ new.anchor = None
      /\ new.records = records /\ new.turns = st.turns /\ new.text = st.text
      /\ new.turn = turn
  BY <1>2 DEF Fields
<1>4. Moves(st, new, "usage", ts, n)
  BY <1>1, <1>3 DEF Moves, Boundary, records, turn
<1>5. QED
  BY <1>4 DEF new

LEMMA KeptMoves ==
  ASSUME NEW st, NEW new, Kept(st, new), NEW n, NEW ts
  PROVE  Moves(st, new, "other", ts, n)
BY DEF Kept, Moves, Boundary

(* What precedes a line's effect without touching what it is about.        *)
LEMMA KeptThenMoves ==
  ASSUME NEW st, NEW mid, Fields \subseteq DOMAIN st, Kept(st, mid),
         NEW new, NEW kind, NEW n, NEW ts,
         Moves(mid, new, kind, ts, n)
  PROVE  Moves(st, new, kind, ts, n)
<1>1. CloseTurn(mid, n).turns = CloseTurn(st, n).turns
  <2>1. CloseTurn(st, n).turns = IF st.turn = None THEN st.turns
                                 ELSE Append(st.turns, [st.turn EXCEPT !.end = n])
    BY CloseTurnFields
  <2>2. Fields \subseteq DOMAIN mid
    BY DEF Kept
  <2>3. CloseTurn(mid, n).turns = IF mid.turn = None THEN mid.turns
                                  ELSE Append(mid.turns, [mid.turn EXCEPT !.end = n])
    BY <2>2, CloseTurnFields
  <2>4. QED
    BY <2>1, <2>3 DEF Kept
<1>2. ReplyLatency(mid, ts) = ReplyLatency(st, ts)
  BY DEF Kept, ReplyLatency
<1>3. \A r : IsReply(r, mid, n, ts) => IsReply(r, st, n, ts)
  BY <1>2 DEF IsReply, Kept
<1>4. QED
  BY <1>1, <1>3 DEF Moves, Kept

-----------------------------------------------------------------------------
(* The state of a parse after n lines of a log.                            *)

Recorded(st, l, n) ==
    /\ IsSeq(st.records)
    /\ \A i \in DOMAIN st.records :
          /\ st.records[i].line \in 1 .. n /\ l[st.records[i].line].kind = "usage"
          /\ Context(st.records[i]) \in Int
    /\ \A i, j \in DOMAIN st.records : i < j => st.records[i].line < st.records[j].line
    /\ \A k \in 1 .. n : l[k].kind = "usage" => \E i \in DOMAIN st.records : st.records[i].line = k

Timed(st, l, n) ==
    /\ st.anchor = Anchor(l, n + 1)
    /\ st.text = Cardinality(Said(l, n + 1))
    /\ st.turn = None => st.anchor = None
    /\ \A i \in DOMAIN st.records :
          /\ st.records[i].latency = LatencyByLog(l, st.records[i].line)
          /\ st.records[i].text = TextByLog(l, st.records[i].line)

Billed(turns) == {j \in DOMAIN turns : turns[j].lines # <<>>}
Lasts(turns) == {Last(turns[j].lines) : j \in Billed(turns)}
OpenLast(turn) == IF turn = None THEN {} ELSE IF turn.lines = <<>> THEN {} ELSE {Last(turn.lines)}

TurnsInOrder(turns) ==
    /\ IsSeq(turns) /\ \A j \in DOMAIN turns : turns[j].lines \in Seq(Nat)
    /\ \A j, k \in Billed(turns) : j < k => Last(turns[j].lines) < Last(turns[k].lines)

(* Turns that are closed, and the open one, stand for the lines that the   *)
(* log says end a turn so far; and only the open one can grow.             *)
Grouped(st, l, n) ==
    /\ TurnsInOrder(st.turns)
    /\ st.turn \in TurnRecord \cup {None}
    /\ st.turn # None <=> InTurn(l, n + 1)
    /\ Lasts(st.turns) \cup OpenLast(st.turn) = EndsAmong(l, n)
    /\ \A e \in OpenLast(st.turn) : NoneBetween(l, e, n + 1, Boundary)
    /\ \A e \in Lasts(st.turns) : ~NoneBetween(l, e, n + 1, Boundary)
    /\ \A e \in Lasts(st.turns), o \in OpenLast(st.turn) : e < o

Follows(st, l, n) ==
    Fields \subseteq DOMAIN st /\ Recorded(st, l, n) /\ Timed(st, l, n) /\ Grouped(st, l, n)

LEMMA AppendSeq ==
  ASSUME NEW s, IsSeq(s), NEW e
  PROVE  /\ Len(s) \in Nat /\ DOMAIN s = 1 .. Len(s)
         /\ IsSeq(Append(s, e)) /\ DOMAIN Append(s, e) = 1 .. Len(s) + 1
         /\ \A i \in 1 .. Len(s) : Append(s, e)[i] = s[i]
         /\ Append(s, e)[Len(s) + 1] = e
<1>1. PICK S : s \in Seq(S)
  BY DEF IsSeq
<1>2. s \in Seq(S \cup {e})
  BY <1>1, SeqMonotonic
<1> DEFINE T == S \cup {e}
<1>3. s \in Seq(T) /\ e \in T
  BY <1>2
<1> HIDE DEF T
<1>4. Append(s, e) \in Seq(T)
  BY <1>3
<1>5. QED
  BY <1>3, <1>4 DEF IsSeq

LEMMA RecordedStep ==
  ASSUME NEW l, NEW n \in Nat, NEW st, NEW new, NEW ts, Recorded(st, l, n),
         l[n + 1].kind \in LineKinds, Moves(st, new, l[n + 1].kind, ts, n + 1)
  PROVE  Recorded(new, l, n + 1)
<1>1. CASE l[n + 1].kind # "usage"
  <2>1. new.records = st.records
    BY <1>1 DEF Moves, LineKinds, Boundary
  <2>2. \A k \in 1 .. n + 1 : k \in 1 .. n \/ k = n + 1
    OBVIOUS
  <2>3. \A k \in 1 .. n : k \in 1 .. n + 1
    OBVIOUS
  <2>4. QED
    BY <1>1, <2>1, <2>2, <2>3 DEF Recorded
<1>2. CASE l[n + 1].kind = "usage"
  <2>1. PICK r : new.records = Append(st.records, r) /\ r.line = n + 1 /\ Context(r) \in Int
    BY <1>2 DEF Moves, IsReply
  <2> DEFINE s == st.records
             a == new.records
  <2>2. /\ IsSeq(a) /\ Len(s) \in Nat
        /\ DOMAIN s = 1 .. Len(s) /\ DOMAIN a = 1 .. Len(s) + 1
        /\ \A i \in 1 .. Len(s) : a[i] = s[i]
        /\ a[Len(s) + 1] = r
    BY <2>1, AppendSeq DEF Recorded
  <2>3. /\ \A i \in DOMAIN s : s[i].line \in 1 .. n /\ l[s[i].line].kind = "usage"
                               /\ Context(s[i]) \in Int
        /\ \A i, j \in DOMAIN s : i < j => s[i].line < s[j].line
        /\ \A k \in 1 .. n : l[k].kind = "usage" => \E i \in DOMAIN s : s[i].line = k
    BY DEF Recorded
  <2> HIDE DEF s, a
  <2>4. \A i \in DOMAIN a : i \in DOMAIN s \/ i = Len(s) + 1
    BY <2>2
  <2>5. \A i \in DOMAIN a : a[i].line \in 1 .. n + 1 /\ l[a[i].line].kind = "usage"
                            /\ Context(a[i]) \in Int
    BY <1>2, <2>1, <2>2, <2>3, <2>4
  <2>6. \A i, j \in DOMAIN a : i < j => a[i].line < a[j].line
    BY <2>1, <2>2, <2>3, <2>4
  <2>7. \A k \in 1 .. n + 1 : l[k].kind = "usage" => \E i \in DOMAIN a : a[i].line = k
    <3>1. \A i \in DOMAIN s : i \in DOMAIN a /\ a[i] = s[i]
      BY <2>2
    <3>2. \A k \in 1 .. n : l[k].kind = "usage" => \E i \in DOMAIN a : a[i].line = k
      BY <2>3, <3>1
    <3>3. Len(s) + 1 \in DOMAIN a /\ a[Len(s) + 1].line = n + 1
      BY <2>1, <2>2
    <3>4. \A k \in 1 .. n + 1 : k \in 1 .. n \/ k = n + 1
      OBVIOUS
    <3>5. QED
      BY <3>2, <3>3, <3>4
  <2>8. QED
    BY <2>2, <2>5, <2>6, <2>7 DEF Recorded, a
<1>3. QED
  BY <1>1, <1>2

LEMMA SaidFinite ==
  ASSUME NEW l, NEW i \in Nat
  PROVE  IsFiniteSet(Said(l, i)) /\ Cardinality(Said(l, i)) \in Nat
<1>1. Said(l, i) \in SUBSET (1 .. i - 1) /\ IsFiniteSet(1 .. i - 1)
  BY FS_Interval DEF Said
<1>2. QED
  BY <1>1, FS_Subset, FS_CardinalityType

LEMMA TimedStep ==
  ASSUME NEW l, NEW n \in Nat, NEW st, NEW new, NEW ts, IsSeq(st.records), Timed(st, l, n),
         l[n + 1].kind \in LineKinds, Moves(st, new, l[n + 1].kind, ts, n + 1),
         l[n + 1].kind \in {"prompt", "usage"} => l[n + 1].ts = ts
  PROVE  Timed(new, l, n + 1)
<1> DEFINE kind == l[n + 1].kind
<1>0. (n + 1) + 1 = n + 2
  OBVIOUS
<1>1. new.anchor = Anchor(l, n + 2)
  <2>1. CASE kind = "prompt"
    <3>1. Armed(l, n + 2) = {n + 1}
      BY <2>1, ArmedStep
    <3>2. Anchor(l, n + 2) = l[n + 1].ts
      <4>1. Chosen({n + 1}) = n + 1
        BY DEF Chosen
      <4>2. QED
        BY <3>1, <4>1 DEF Anchor
    <3>3. QED
      BY <2>1, <3>2 DEF Moves
  <2>2. CASE kind \in {"usage", "end"}
    <3>1. Armed(l, n + 2) = {}
      BY <2>2, ArmedStep
    <3>2. new.anchor = None
      BY <2>2 DEF Moves, Timed
    <3>3. QED
      BY <3>1, <3>2 DEF Anchor
  <2>3. CASE kind \in {"step", "text", "other"}
    <3>1. Armed(l, n + 2) = Armed(l, n + 1)
      BY <2>3, ArmedStep
    <3>2. Anchor(l, n + 2) = Anchor(l, n + 1)
      BY <3>1 DEF Anchor
    <3>3. new.anchor = st.anchor
      BY <2>3 DEF Moves
    <3>4. QED
      BY <3>2, <3>3 DEF Timed
  <2>4. QED
    BY <2>1, <2>2, <2>3 DEF LineKinds
<1>2. new.text = Cardinality(Said(l, n + 2))
  <2>1. CASE kind \in {"prompt", "step"}
    <3>1. Said(l, n + 2) = {}
      BY <2>1, SaidStep
    <3>2. QED
      BY <2>1, <3>1, FS_EmptySet DEF Moves
  <2>2. CASE kind = "text"
    <3>1. Said(l, n + 2) = Said(l, n + 1) \cup {n + 1} /\ n + 1 \notin Said(l, n + 1)
      BY <2>2, SaidStep
    <3>2. Cardinality(Said(l, n + 2)) = Cardinality(Said(l, n + 1)) + 1
      BY <3>1, SaidFinite, FS_AddElement
    <3>3. QED
      BY <2>2, <3>2 DEF Moves, Timed
  <2>3. CASE kind \in {"usage", "end", "other"}
    <3>1. Said(l, n + 2) = Said(l, n + 1)
      BY <2>3, SaidStep
    <3>2. QED
      BY <2>3, <3>1 DEF Moves, Timed
  <2>4. QED
    BY <2>1, <2>2, <2>3 DEF LineKinds
<1>3. new.turn = None => new.anchor = None
  <2>1. None \notin TurnRecord
    BY NoneAssumption
  <2>2. CASE kind \in {"prompt", "step"}
    BY <2>1, <2>2 DEF Moves
  <2>3. CASE kind \in {"end", "usage", "text", "other"}
    BY <2>3 DEF Moves, Timed
  <2>4. QED
    BY <2>2, <2>3 DEF LineKinds
<1>4. ASSUME NEW i \in DOMAIN new.records
      PROVE  /\ new.records[i].latency = LatencyByLog(l, new.records[i].line)
             /\ new.records[i].text = TextByLog(l, new.records[i].line)
  <2>1. CASE kind # "usage"
    <3>1. new.records = st.records
      BY <2>1 DEF Moves, LineKinds, Boundary
    <3>2. QED
      BY <3>1 DEF Timed
  <2>2. CASE kind = "usage"
    <3>1. PICK r : new.records = Append(st.records, r) /\ IsReply(r, st, n + 1, ts)
      BY <2>2 DEF Moves
    <3>2. CASE i = Len(st.records) + 1
      <4>1. new.records[i] = r
        BY <3>1, <3>2, AppendSeq
      <4>2. LatencyByLog(l, n + 1) = ReplyLatency(st, ts)
        <5>1. st.anchor = Anchor(l, n + 1) /\ l[n + 1].ts = ts
          BY <2>2 DEF Timed
        <5>2. QED
          BY <5>1, LatencyOfAnchor DEF ReplyLatency
      <4>3. TextByLog(l, n + 1) = st.text
        BY DEF TextByLog, Timed, Said
      <4>4. QED
        BY <3>1, <4>1, <4>2, <4>3 DEF IsReply
    <3>3. CASE i # Len(st.records) + 1
      <4>1. i \in DOMAIN st.records /\ new.records[i] = st.records[i]
        BY <3>1, <3>3, AppendSeq
      <4>2. QED
        BY <4>1 DEF Timed
    <3>4. QED
      BY <3>2, <3>3
  <2>3. QED
    BY <2>1, <2>2
<1>5. QED
  BY <1>0, <1>1, <1>2, <1>3, <1>4 DEF Timed

(* A closed turn stands for what the open one did.                         *)
LEMMA LastsClose ==
  ASSUME NEW turns, TurnsInOrder(turns), NEW turn \in TurnRecord, NEW x,
         \A e \in Lasts(turns), o \in OpenLast(turn) : e < o
  PROVE  LET closed == Append(turns, [turn EXCEPT !.end = x])
         IN /\ Lasts(closed) = Lasts(turns) \cup OpenLast(turn)
            /\ TurnsInOrder(closed)
<1> DEFINE t == [turn EXCEPT !.end = x]
           closed == Append(turns, t)
           N == Len(turns)
<1>1. t.lines = turn.lines /\ t.lines \in Seq(Nat)
  BY DEF TurnRecord
<1> HIDE DEF t
<1>2. /\ IsSeq(closed) /\ N \in Nat /\ DOMAIN turns = 1 .. N /\ DOMAIN closed = 1 .. N + 1
      /\ \A j \in 1 .. N : closed[j] = turns[j]
      /\ closed[N + 1] = t
  BY AppendSeq DEF TurnsInOrder
<1> HIDE DEF closed, N
<1>3. \A j \in 1 .. N + 1 : j \in 1 .. N \/ j = N + 1
  BY <1>2
<1>4. N + 1 \notin 1 .. N /\ \A j \in 1 .. N : j \in 1 .. N + 1
  BY <1>2
<1>5. Billed(closed) = Billed(turns) \cup (IF turn.lines = <<>> THEN {} ELSE {N + 1})
  BY <1>1, <1>2, <1>3, <1>4 DEF Billed
<1>6. OpenLast(turn) = IF turn.lines = <<>> THEN {} ELSE {Last(turn.lines)}
  BY NoneAssumption DEF OpenLast
<1>7. \A j \in Billed(turns) : j \in 1 .. N /\ closed[j] = turns[j]
  BY <1>2 DEF Billed
<1>8. Lasts(closed) = Lasts(turns) \cup OpenLast(turn)
  <2>1. CASE turn.lines = <<>>
    BY <1>5, <1>6, <1>7, <2>1 DEF Lasts
  <2>2. CASE turn.lines # <<>>
    <3>1. \A e : e \in Lasts(closed) <=> \/ \E j \in Billed(turns) : e = Last(turns[j].lines)
                                         \/ e = Last(t.lines)
      BY <1>2, <1>5, <1>7, <2>2 DEF Lasts
    <3>2. QED
      BY <1>1, <1>6, <2>2, <3>1 DEF Lasts
  <2>3. QED
    BY <2>1, <2>2
<1>9. \A j \in DOMAIN closed : closed[j].lines \in Seq(Nat)
  BY <1>1, <1>2, <1>3 DEF TurnsInOrder
<1>10. ASSUME NEW j \in Billed(closed), NEW k \in Billed(closed), j < k
       PROVE  Last(closed[j].lines) < Last(closed[k].lines)
  <2>1. j \in Billed(turns)
    BY <1>2, <1>3, <1>5, <1>7, <1>10 DEF Billed
  <2>2. Last(closed[j].lines) = Last(turns[j].lines) /\ Last(turns[j].lines) \in Lasts(turns)
    BY <2>1, <1>7 DEF Lasts
  <2>3. CASE k \in Billed(turns)
    BY <1>7, <1>10, <2>1, <2>2, <2>3 DEF TurnsInOrder
  <2>4. CASE k \notin Billed(turns)
    <3>1. k = N + 1 /\ turn.lines # <<>>
      BY <1>5, <2>4
    <3>2. Last(closed[k].lines) \in OpenLast(turn)
      BY <1>1, <1>2, <1>6, <3>1
    <3>3. QED
      BY <2>2, <3>2
  <2>5. QED
    BY <2>3, <2>4
<1>11. Lasts(closed) = Lasts(turns) \cup OpenLast(turn) /\ TurnsInOrder(closed)
  BY <1>2, <1>8, <1>9, <1>10 DEF TurnsInOrder
<1>12. QED
  BY <1>11 DEF closed, t

LEMMA GroupedBoundary ==
  ASSUME NEW l, NEW n \in Nat, NEW st, NEW new, NEW ts, Fields \subseteq DOMAIN st,
         Grouped(st, l, n), l[n + 1].kind \in Boundary,
         Moves(st, new, l[n + 1].kind, ts, n + 1)
  PROVE  Grouped(new, l, n + 1)
<1> DEFINE kind == l[n + 1].kind
<1>1. new.turns = IF st.turn = None THEN st.turns
                  ELSE Append(st.turns, [st.turn EXCEPT !.end = n + 1])
  BY CloseTurnFields DEF Moves
<1>2. \/ kind \in {"prompt", "step"} /\ new.turn \in TurnRecord /\ new.turn.lines = <<>>
      \/ kind = "end" /\ new.turn = None
  <2>1. CASE kind \in {"prompt", "step"}
    BY <2>1 DEF Moves
  <2>2. CASE kind = "end"
    BY <2>2 DEF Moves
  <2>3. QED
    BY <2>1, <2>2 DEF Boundary
<1>3. OpenLast(new.turn) = {} /\ new.turn \in TurnRecord \cup {None}
  BY <1>2 DEF OpenLast
<1>4. Lasts(new.turns) = Lasts(st.turns) \cup OpenLast(st.turn) /\ TurnsInOrder(new.turns)
  <2>1. CASE st.turn = None
    BY <1>1, <2>1 DEF Grouped, OpenLast
  <2>2. CASE st.turn # None
    <3>1. /\ TurnsInOrder(st.turns) /\ st.turn \in TurnRecord
          /\ \A e \in Lasts(st.turns), o \in OpenLast(st.turn) : e < o
      BY <2>2 DEF Grouped
    <3> DEFINE closed == Append(st.turns, [st.turn EXCEPT !.end = n + 1])
    <3>2. /\ Lasts(closed) = Lasts(st.turns) \cup OpenLast(st.turn)
          /\ TurnsInOrder(closed)
      BY <3>1, LastsClose
    <3>3. new.turns = closed
      BY <1>1, <2>2
    <3> HIDE DEF closed
    <3>4. QED
      BY <3>2, <3>3
  <2>3. QED
    BY <2>1, <2>2
<1>5. EndsAmong(l, n + 1) = EndsAmong(l, n)
  BY EndsStep DEF Boundary
<1>6. Lasts(new.turns) = EndsAmong(l, n)
  BY <1>4 DEF Grouped
<1>7. \A e \in Lasts(new.turns) : ~NoneBetween(l, e, (n + 1) + 1, Boundary)
  <2>1. \A e \in Lasts(new.turns) : e \in 1 .. n
    BY <1>6 DEF EndsAmong
  <2>2. (n + 1) + 1 = n + 2
    OBVIOUS
  <2>3. QED
    BY <2>1, <2>2, BetweenStep
<1>8. new.turn # None <=> InTurn(l, (n + 1) + 1)
  <2>1. (n + 1) + 1 = n + 2
    OBVIOUS
  <2>2. InTurn(l, n + 2) <=> kind \in {"prompt", "step"}
    BY <1>2, InTurnStep
  <2>3. new.turn # None <=> kind \in {"prompt", "step"}
    BY <1>2, NoneAssumption
  <2>4. QED
    BY <2>1, <2>2, <2>3
<1>9. QED
  BY <1>3, <1>4, <1>5, <1>6, <1>7, <1>8 DEF Grouped

LEMMA GroupedUsage ==
  ASSUME NEW l, NEW n \in Nat, NEW st, NEW new, NEW ts, Grouped(st, l, n),
         l[n + 1].kind = "usage", Moves(st, new, "usage", ts, n + 1)
  PROVE  Grouped(new, l, n + 1)
<1>1. new.turns = st.turns
  BY DEF Moves
<1>2. (n + 1) + 1 = n + 2
  OBVIOUS
<1>3. EndsAmong(l, n + 1) = Lasts(st.turns) \cup (IF InTurn(l, n + 1) THEN {n + 1} ELSE {})
  <2>1. {i \in EndsAmong(l, n) : ~NoneBetween(l, i, n + 1, Boundary)} = Lasts(st.turns)
    BY DEF Grouped
  <2>2. QED
    BY <2>1, EndsStep
<1>4. InTurn(l, n + 2) <=> InTurn(l, n + 1)
  BY InTurnStep
<1>5. \A e \in Lasts(st.turns) : e \in 1 .. n
  BY DEF Grouped, EndsAmong
<1>6. \A e \in Lasts(st.turns) : ~NoneBetween(l, e, n + 2, Boundary)
  BY <1>5, BetweenStep DEF Grouped
<1>7. CASE st.turn = None
  <2>1. new.turn = None
    BY <1>7 DEF Moves
  <2>2. QED
    BY <1>1, <1>2, <1>3, <1>4, <1>6, <1>7, <2>1 DEF Grouped, OpenLast
<1>8. CASE st.turn # None
  <2>1. st.turn \in TurnRecord /\ new.turn = [st.turn EXCEPT !.lines = Append(@, n + 1)]
    BY <1>8 DEF Moves, Grouped
  <2>2. st.turn.lines \in Seq(Nat) /\ n + 1 \in Nat
    BY <2>1 DEF TurnRecord
  <2>3. new.turn \in TurnRecord /\ new.turn.lines = Append(st.turn.lines, n + 1)
    <3> DEFINE lines == Append(st.turn.lines, n + 1)
    <3>1. lines \in Seq(Nat)
      BY <2>2
    <3>2. new.turn = [st.turn EXCEPT !.lines = lines]
      BY <2>1
    <3> HIDE DEF lines
    <3>3. new.turn \in TurnRecord /\ new.turn.lines = lines
      BY <2>1, <3>1, <3>2 DEF TurnRecord
    <3>4. QED
      BY <3>3 DEF lines
  <2>4. new.turn.lines # <<>> /\ Last(new.turn.lines) = n + 1
    BY <2>2, <2>3 DEF Last
  <2>5. OpenLast(new.turn) = {n + 1} /\ new.turn # None
    BY <2>3, <2>4, NoneAssumption DEF OpenLast
  <2>6. NoneBetween(l, n + 1, n + 2, Boundary)
    BY BetweenStep
  <2>7. QED
    BY <1>1, <1>2, <1>3, <1>4, <1>5, <1>6, <1>8, <2>3, <2>5, <2>6 DEF Grouped
<1>9. QED
  BY <1>7, <1>8

LEMMA GroupedOther ==
  ASSUME NEW l, NEW n \in Nat, NEW st, NEW new, NEW ts, Grouped(st, l, n),
         l[n + 1].kind \in {"text", "other"}, Moves(st, new, l[n + 1].kind, ts, n + 1)
  PROVE  Grouped(new, l, n + 1)
<1>1. new.turns = st.turns /\ new.turn = st.turn
  BY DEF Moves
<1>2. (n + 1) + 1 = n + 2
  OBVIOUS
<1>3. EndsAmong(l, n + 1) = EndsAmong(l, n) /\ l[n + 1].kind \notin Boundary
  BY EndsStep DEF Boundary
<1>4. InTurn(l, n + 2) <=> InTurn(l, n + 1)
  BY InTurnStep
<1>5. \A e \in EndsAmong(l, n) : /\ e \in 1 .. n
                                 /\ NoneBetween(l, e, n + 2, Boundary)
                                      <=> NoneBetween(l, e, n + 1, Boundary)
  <2>1. \A e \in EndsAmong(l, n) : e \in 1 .. n
    BY DEF EndsAmong
  <2>2. QED
    BY <1>3, <2>1, BetweenStep
<1>6. QED
  BY <1>1, <1>2, <1>3, <1>4, <1>5 DEF Grouped

LEMMA FollowsStep ==
  ASSUME NEW l, NEW n \in Nat, NEW st, NEW new, NEW ts, Follows(st, l, n),
         l[n + 1].kind \in LineKinds, Moves(st, new, l[n + 1].kind, ts, n + 1),
         l[n + 1].kind \in {"prompt", "usage"} => l[n + 1].ts = ts
  PROVE  Follows(new, l, n + 1)
<1>1. Recorded(new, l, n + 1)
  BY RecordedStep DEF Follows
<1>2. Timed(new, l, n + 1)
  BY TimedStep DEF Follows, Recorded
<1>3. Grouped(new, l, n + 1)
  <2>1. CASE l[n + 1].kind \in Boundary
    BY <2>1, GroupedBoundary DEF Follows
  <2>2. CASE l[n + 1].kind = "usage"
    BY <2>2, GroupedUsage DEF Follows
  <2>3. CASE l[n + 1].kind \in {"text", "other"}
    BY <2>3, GroupedOther DEF Follows
  <2>4. QED
    BY <2>1, <2>2, <2>3 DEF LineKinds, Boundary
<1>4. QED
  BY <1>1, <1>2, <1>3 DEF Follows, Moves

(* The state before the first line.                                        *)
LEMMA FollowsNothing ==
  ASSUME NEW l, NEW st, Fields \subseteq DOMAIN st, st.records = <<>>, st.turns = <<>>,
         st.turn = None, st.anchor = None, st.text = 0
  PROVE  Follows(st, l, 0)
<1>1. Armed(l, 1) = {} /\ Said(l, 1) = {} /\ ~InTurn(l, 1) /\ EndsAmong(l, 0) = {}
  BY DEF Armed, Said, InTurn, EndsAmong
<1>2. <<>> \in Seq({}) /\ DOMAIN <<>> = {}
  OBVIOUS
<1>3. IsSeq(<<>>)
  BY <1>2 DEF IsSeq
<1>4. Recorded(st, l, 0)
  BY <1>2, <1>3 DEF Recorded
<1>5. Timed(st, l, 0)
  <2>1. Anchor(l, 0 + 1) = None /\ Cardinality(Said(l, 0 + 1)) = 0
    BY <1>1, FS_EmptySet DEF Anchor
  <2>2. QED
    BY <1>2, <2>1 DEF Timed
<1>6. Grouped(st, l, 0)
  <2>1. Billed(<<>>) = {}
    BY <1>2 DEF Billed
  <2>2. Lasts(<<>>) = {} /\ OpenLast(None) = {} /\ TurnsInOrder(<<>>)
    BY <1>2, <1>3, <2>1 DEF Lasts, OpenLast, TurnsInOrder
  <2>3. ~InTurn(l, 0 + 1)
    BY <1>1
  <2>4. QED
    BY <1>1, <2>2, <2>3 DEF Grouped
<1>7. QED
  BY <1>4, <1>5, <1>6 DEF Follows

(* A state that follows a log follows whatever begins with that log.       *)
LEMMA FollowsPrefix ==
  ASSUME NEW l, NEW m, NEW n \in Nat, \A k \in 1 .. n : m[k] = l[k],
         NEW st, Follows(st, l, n)
  PROVE  Follows(st, m, n)
<1>1. /\ \A i \in 1 .. n + 1 : /\ Armed(m, i) = Armed(l, i) /\ Said(m, i) = Said(l, i)
                               /\ InTurn(m, i) <=> InTurn(l, i)
                               /\ Anchor(m, i) = Anchor(l, i)
      /\ \A i \in 1 .. n : LatencyByLog(m, i) = LatencyByLog(l, i)
      /\ EndsAmong(m, n) = EndsAmong(l, n)
      /\ \A i \in 1 .. n : NoneBetween(m, i, n + 1, Boundary)
                             <=> NoneBetween(l, i, n + 1, Boundary)
  BY LogPrefix
<1>2. \A i \in 1 .. n : TextByLog(m, i) = TextByLog(l, i)
  <2>1. \A x, i : TextByLog(x, i) = Cardinality(Said(x, i))
    BY DEF TextByLog, Said
  <2>2. QED
    BY <1>1, <2>1
<1>3. Recorded(st, m, n)
  BY DEF Recorded, Follows
<1>4. Timed(st, m, n)
  <2>1. n + 1 \in 1 .. n + 1
    OBVIOUS
  <2>2. \A i \in DOMAIN st.records : st.records[i].line \in 1 .. n
    BY DEF Recorded, Follows
  <2>3. QED
    BY <1>1, <1>2, <2>1, <2>2 DEF Timed, Follows
<1>5. Grouped(st, m, n)
  <2>1. n + 1 \in 1 .. n + 1
    OBVIOUS
  <2>2. \A e \in EndsAmong(l, n) : e \in 1 .. n
    BY DEF EndsAmong
  <2>3. QED
    BY <1>1, <2>1, <2>2 DEF Grouped, Follows
<1>6. QED
  BY <1>3, <1>4, <1>5 DEF Follows

LEMMA FinishFields ==
  ASSUME NEW st, Fields \subseteq DOMAIN st, NEW n
  PROVE  /\ FinishParse(st, n).records = st.records
         /\ FinishParse(st, n).trace = CtxTurns(CloseTurn(st, n).turns, st.records)
<1> DEFINE closed == CloseTurn(st, n)
<1>1. closed.records = st.records
  BY CloseTurnFields
<1> HIDE DEF closed
<1>2. /\ FinishParse(st, n).records = closed.records
      /\ FinishParse(st, n).trace = CtxTurns(closed.turns, closed.records)
  BY DEF FinishParse, closed
<1>3. QED
  BY <1>1, <1>2 DEF closed

(* What a state that follows a log says of its replies.                    *)
LEMMA FollowsTimed ==
  ASSUME NEW l, NEW n, NEW st, Follows(st, l, n), NEW m
  PROVE  TimedByLog(FinishParse(st, m), l)
<1>1. FinishParse(st, m).records = st.records
  BY FinishFields DEF Follows
<1>2. QED
  BY <1>1 DEF TimedByLog, ToSet, Follows, Timed

-----------------------------------------------------------------------------
(* The Kimi formats.                                                       *)

LogLine == [kind : LineKinds, ts : Int \cup {None}]

KimiInv == log \in Seq(LogLine) /\ Follows(wire, log, Len(log))

LEMMA ReadStep ==
  ASSUME KimiInv, NEW kind \in LineKinds, NEW ts \in Times, NEW handled,
         Read(kind, ts, handled), Moves(wire, handled, kind, ts, ThisLine)
  PROVE  KimiInv'
<1> DEFINE n == Len(log)
           line == [kind |-> kind, ts |-> IF kind \in {"prompt", "usage"} THEN ts ELSE None]
<1>1. line \in LogLine
  BY KimiAssumption DEF LogLine, Times
<1>2. n \in Nat /\ log \in Seq(LogLine)
  BY DEF KimiInv
<1>3. log' = Append(log, line) /\ wire' = handled
  BY DEF Read
<1>4. line.kind = kind /\ (kind \in {"prompt", "usage"} => line.ts = ts)
  OBVIOUS
<1> HIDE DEF line
<1>5. /\ log' \in Seq(LogLine) /\ Len(log') = n + 1 /\ log'[n + 1] = line
      /\ \A k \in 1 .. n : log'[k] = log[k]
  BY <1>1, <1>2, <1>3
<1> HIDE DEF n
<1>6. Follows(wire, log', n)
  BY <1>2, <1>5, FollowsPrefix DEF KimiInv, n
<1>7. Follows(wire', log', n + 1)
  <2>1. Moves(wire, wire', log'[n + 1].kind, ts, n + 1)
    BY <1>3, <1>4, <1>5 DEF ThisLine, n
  <2>2. /\ log'[n + 1].kind \in LineKinds
        /\ log'[n + 1].kind \in {"prompt", "usage"} => log'[n + 1].ts = ts
    BY <1>4, <1>5
  <2>3. QED
    BY <1>2, <1>6, <2>1, <2>2, FollowsStep
<1>8. QED
  BY <1>5, <1>7 DEF KimiInv

LEMMA StampedKept ==
  ASSUME NEW st, Fields \subseteq DOMAIN st, NEW ts
  PROVE  Kept(st, Stamped(st, ts))
BY DEF Kept, Stamped, Fields

LEMMA KeptTwice ==
  ASSUME NEW a, NEW b, NEW c, Kept(a, b), Kept(b, c)
  PROVE  Kept(a, c)
BY DEF Kept

LEMMA KimiStep ==
  ASSUME KimiInv, KimiNext
  PROVE  KimiInv'
<1> DEFINE n == ThisLine
<1>1. Fields \subseteq DOMAIN wire /\ n \in Nat
  BY DEF KimiInv, Follows, ThisLine
<1>2. ASSUME NEW ts \in Times
      PROVE  /\ Kept(wire, Stamped(wire, ts)) /\ Fields \subseteq DOMAIN Stamped(wire, ts)
             /\ ts \in Int \cup {None}
  BY <1>1, StampedKept, KimiAssumption DEF Kept, Times
<1>3. {"prompt", "step", "end", "text", "usage", "other"} \subseteq LineKinds
  BY DEF LineKinds
<1>4. ASSUME NEW ts \in Times, NEW st, Kept(wire, st), Read("other", ts, st)
      PROVE  KimiInv'
  BY <1>3, <1>4, KeptMoves, ReadStep
<1>5. ASSUME NEW ts \in Times, NEW kind \in LineKinds, NEW new,
             Moves(Stamped(wire, ts), new, kind, ts, n), Read(kind, ts, new)
      PROVE  KimiInv'
  BY <1>1, <1>2, <1>5, KeptThenMoves, ReadStep
<1> HIDE DEF n
<1>6. CASE Prompt
  <2>1. PICK ts \in Times : Read("prompt", ts, TurnBoundary(Stamped(wire, ts), n, ts))
    BY <1>6 DEF Prompt, n
  <2>2. Moves(Stamped(wire, ts), TurnBoundary(Stamped(wire, ts), n, ts), "prompt", ts, n)
    BY <1>1, <1>2, TurnBoundaryMoves
  <2>3. QED
    BY <1>3, <1>5, <2>1, <2>2
<1>7. CASE LegacyTurnEnd
  <2>1. PICK ts \in Times : Read("end", ts, EndTurn(Stamped(wire, ts), n))
    BY <1>7 DEF LegacyTurnEnd, n
  <2>2. Moves(Stamped(wire, ts), EndTurn(Stamped(wire, ts), n), "end", ts, n)
    BY <1>2, EndTurnMoves
  <2>3. QED
    BY <1>3, <1>5, <2>1, <2>2
<1>8. CASE KcStepBegin
  <2>1. PICK ts \in Times, id \in TurnIds :
          IF id = wire.turnId
          THEN Read("other", ts, Stamped(wire, ts))
          ELSE Read("step", ts,
                    StartTurn([CloseTurn(Stamped(wire, ts), n) EXCEPT !.turnId = id], n, ts))
    BY <1>8 DEF KcStepBegin, n
  <2>2. CASE id = wire.turnId
    BY <1>2, <1>4, <2>1, <2>2
  <2>3. CASE id # wire.turnId
    <3>1. Moves(Stamped(wire, ts),
                StartTurn([CloseTurn(Stamped(wire, ts), n) EXCEPT !.turnId = id], n, ts),
                "step", ts, n)
      BY <1>1, <1>2, StepMoves
    <3>2. QED
      BY <1>3, <1>5, <2>1, <2>3, <3>1
  <2>4. QED
    BY <2>2, <2>3
<1>9. CASE Text
  <2>1. PICK ts \in Times : Read("text", ts, [Stamped(wire, ts) EXCEPT !.text = @ + 1])
    BY <1>9 DEF Text
  <2>2. Moves(Stamped(wire, ts), [Stamped(wire, ts) EXCEPT !.text = @ + 1], "text", ts, n)
    BY <1>2, TextMoves
  <2>3. QED
    BY <1>3, <1>5, <2>1, <2>2
<1>10. CASE ToolCall
  <2> DEFINE call == CHOOSE c \in Calls \ {t.call : t \in ToSet(wire.tools)} : TRUE
  <2>1. PICK ts \in Times : Read("other", ts, AppendTool(Stamped(wire, ts), call, None, 2))
    BY <1>10 DEF ToolCall
  <2> HIDE DEF call
  <2>2. Kept(Stamped(wire, ts), AppendTool(Stamped(wire, ts), call, None, 2))
    BY <1>2 DEF Kept, AppendTool, Fields
  <2>3. QED
    BY <1>2, <1>4, <2>1, <2>2, KeptTwice
<1>11. CASE ToolResult
  <2>1. PICK ts \in Times, tool \in ToSet(wire.tools), error \in BOOLEAN :
          Read("other", ts, Settle(Stamped(wire, ts), tool.call, error))
    BY <1>11 DEF ToolResult
  <2>2. Kept(Stamped(wire, ts), Settle(Stamped(wire, ts), tool.call, error))
    BY <1>2 DEF Kept, Settle, Fields
  <2>3. QED
    BY <1>2, <1>4, <2>1, <2>2, KeptTwice
<1>12. ASSUME NEW ts \in Times, NEW uuid, NEW model, NEW toks \in Usages(n),
              UsageLine(ts, uuid, model, toks)
       PROVE  KimiInv'
  <2> DEFINE new == AppendUsage(Stamped(wire, ts), n, ts, uuid,
                                ModelFor(model, IF ts = None THEN Stamped(wire, ts).first ELSE ts),
                                toks)
  <2>1. Read("usage", ts, new)
    BY <1>12 DEF UsageLine, n
  <2>2. toks.fresh + toks.create + toks.read \in Int
    BY <1>1 DEF Usages
  <2>3. Moves(Stamped(wire, ts), new, "usage", ts, n)
    BY <1>2, <2>2, UsageMoves
  <2>4. QED
    BY <1>3, <1>5, <2>1, <2>3
<1>13. CASE LegacyStatusUpdate
  BY <1>12, <1>13 DEF LegacyStatusUpdate, n
<1>14. CASE KcUsageRecord
  BY <1>12, <1>14 DEF KcUsageRecord, n
<1>15. CASE KcLlmError
  <2>1. PICK ts \in Times, kind \in {"quota_exhausted", "rate_limit"} :
          Read("other", ts, IF kind = "quota_exhausted"
                            THEN [Stamped(wire, ts) EXCEPT !.hits = Append(@, n)]
                            ELSE Stamped(wire, ts))
    BY <1>15 DEF KcLlmError, n
  <2>2. Kept(Stamped(wire, ts), [Stamped(wire, ts) EXCEPT !.hits = Append(@, n)])
    BY <1>2 DEF Kept, Fields
  <2>3. QED
    BY <1>2, <1>4, <2>1, <2>2, KeptTwice
<1>16. CASE Skipped
  BY <1>2, <1>4, <1>16 DEF Skipped
<1>17. QED
  BY <1>6, <1>7, <1>8, <1>9, <1>10, <1>11, <1>13, <1>14, <1>15, <1>16 DEF KimiNext

-----------------------------------------------------------------------------
(* A fold over a sequence, line by line.                                   *)

(* A set of numbers has a least one.                                       *)
LEMMA LeastNat ==
  ASSUME NEW S \in SUBSET Nat, S # {}
  PROVE  \E n \in S : \A m \in S : n <= m
<1>1. IsWellFoundedOn(OpToRel(<, Nat), Nat)
  BY NatLessThanWellFounded
<1>2. PICK n \in S : \A m \in S : <<m, n>> \notin OpToRel(<, Nat)
  BY <1>1, WFMin
<1>3. \A m \in S : ~(m < n)
  BY <1>2 DEF OpToRel
<1>4. QED
  BY <1>3

(* Induction, for a set of numbers.                                        *)
LEMMA Induct ==
  ASSUME NEW S \in SUBSET Nat, 0 \in S, \A n \in S : n + 1 \in S
  PROVE  S = Nat
<1> SUFFICES ASSUME Nat \ S # {} PROVE FALSE
  OBVIOUS
<1>1. PICK n \in Nat \ S : \A m \in Nat \ S : n <= m
  BY LeastNat
<1>2. n # 0 /\ n - 1 \in Nat
  BY <1>1
<1>3. n - 1 \in S
  BY <1>1, <1>2
<1>4. (n - 1) + 1 = n
  BY <1>1
<1>5. QED
  BY <1>1, <1>3, <1>4

(* How a fold takes the places of a sequence apart: the last, and the rest.*)
LEMMA MaxOf ==
  ASSUME NEW n \in Nat
  PROVE  /\ \A s \in SUBSET (1 .. n + 1) :
              s \notin SUBSET (1 .. n) =>
                 Max(s) = n + 1 /\ s \ {Max(s)} \in SUBSET (1 .. n) /\ s # {}
         /\ Max(1 .. n + 1) = n + 1 /\ (1 .. n + 1) \ {n + 1} = 1 .. n
<1>1. ASSUME NEW s \in SUBSET (1 .. n + 1), s \notin SUBSET (1 .. n)
      PROVE  Max(s) = n + 1 /\ s \ {Max(s)} \in SUBSET (1 .. n) /\ s # {}
  <2>1. \A x \in 1 .. n + 1 : x \in 1 .. n \/ x = n + 1
    OBVIOUS
  <2>2. n + 1 \in s
    BY <1>1, <2>1
  <2>3. \A y \in s : n + 1 >= y
    OBVIOUS
  <2>4. \A x \in s : (\A y \in s : x >= y) => x = n + 1
    BY <2>2
  <2>5. Max(s) = n + 1
    BY <2>2, <2>3, <2>4 DEF Max
  <2>6. QED
    BY <2>1, <2>2, <2>5
<1>2. n + 1 \in 1 .. n + 1 /\ n + 1 \notin 1 .. n
  OBVIOUS
<1>3. Max(1 .. n + 1) = n + 1
  BY <1>1, <1>2
<1>4. (1 .. n + 1) \ {n + 1} = 1 .. n
  OBVIOUS
<1>5. QED
  BY <1>1, <1>3, <1>4

-----------------------------------------------------------------------------
(* The codex format.                                                       *)

Places(lines) == [i \in DOMAIN lines |-> i]

ScanOf(file, lines, h, s) ==
    IF s = {} THEN NewCodexParse(lines)
    ELSE Dispatch(h[s \ {Max(s)}], file, Places(lines)[Max(s)], lines[Places(lines)[Max(s)]])

Scans(file, lines, D, h) == h = [s \in SUBSET D |-> ScanOf(file, lines, h, s)]

LEMMA ScanIsScans ==
  ASSUME NEW file, NEW lines
  PROVE  CodexScan(file, lines) =
           (CHOOSE h : Scans(file, lines, DOMAIN Places(lines), h))[DOMAIN Places(lines)]
BY DEF CodexScan, FoldLeftDomain, FoldLeft, MapThenFoldSet, Scans, ScanOf, Places

LEMMA ScansExist ==
  ASSUME NEW file, NEW lines, NEW n \in Nat
  PROVE  \E h : Scans(file, lines, 1 .. n, h)
<1> DEFINE N == {m \in Nat : \E h : Scans(file, lines, 1 .. m, h)}
<1>1. 0 \in N
  <2> DEFINE h == [s \in SUBSET (1 .. 0) |-> NewCodexParse(lines)]
  <2>1. \A s \in SUBSET (1 .. 0) : ScanOf(file, lines, h, s) = NewCodexParse(lines)
    BY DEF ScanOf
  <2> HIDE DEF h
  <2>2. h = [s \in SUBSET (1 .. 0) |-> ScanOf(file, lines, h, s)]
    BY <2>1 DEF h
  <2>3. QED
    BY <2>2 DEF Scans
<1>2. ASSUME NEW m \in N
      PROVE  m + 1 \in N
  <2> DEFINE S == SUBSET (1 .. m)
             D == SUBSET (1 .. m + 1)
  <2>1. PICK h : Scans(file, lines, 1 .. m, h)
    OBVIOUS
  <2> DEFINE g == [s \in D |-> IF s \in S THEN h[s] ELSE ScanOf(file, lines, h, s)]
  <2>2. /\ S \subseteq D /\ \A s \in S : s \ {Max(s)} \in S
        /\ \A s \in D : s \notin S => s \ {Max(s)} \in S
    <3>1. 1 .. m \subseteq 1 .. m + 1
      OBVIOUS
    <3>2. QED
      BY <3>1, MaxOf
  <2>3. \A s \in S : h[s] = ScanOf(file, lines, h, s)
    BY <2>1 DEF Scans
  <2> HIDE DEF S, D
  <2>4. \A s \in S : g[s] = h[s]
    BY <2>2
  <2>5. \A s \in D : g[s] = IF s \in S THEN h[s] ELSE ScanOf(file, lines, h, s)
    OBVIOUS
  <2> HIDE DEF g
  <2>6. \A s \in D : ScanOf(file, lines, g, s) = ScanOf(file, lines, h, s)
    BY <2>2, <2>4 DEF ScanOf
  <2>7. \A s \in D : g[s] = ScanOf(file, lines, g, s)
    BY <2>3, <2>5, <2>6
  <2>8. g = [s \in D |-> ScanOf(file, lines, g, s)]
    <3>1. g = [s \in D |-> g[s]]
      BY DEF g
    <3>2. QED
      BY <2>7, <3>1
  <2>9. QED
    BY <2>8 DEF Scans, D
<1>3. N \in SUBSET Nat
  OBVIOUS
<1> HIDE DEF N
<1>4. N = Nat
  BY <1>1, <1>2, <1>3, Induct
<1>5. QED
  BY <1>4 DEF N

(* The states of a parse, one for each number of lines.                    *)
IsScan(G, file, lines, N) ==
    /\ G[0] = NewCodexParse(lines) /\ G[N] = CodexScan(file, lines)
    /\ \A n \in 0 .. N - 1 : G[n + 1] = Dispatch(G[n], file, n + 1, lines[n + 1])

LEMMA ScanByLine ==
  ASSUME NEW file, NEW lines, NEW N \in Nat, DOMAIN lines = 1 .. N
  PROVE  \E G : IsScan(G, file, lines, N)
<1> DEFINE h == CHOOSE f : Scans(file, lines, 1 .. N, f)
           G == [n \in 0 .. N |-> h[1 .. n]]
<1>1. Scans(file, lines, 1 .. N, h)
  BY ScansExist
<1>2. DOMAIN Places(lines) = 1 .. N
  BY DEF Places
<1>3. CodexScan(file, lines) = h[1 .. N]
  BY <1>2, ScanIsScans
<1> HIDE DEF h
<1>4. \A s \in SUBSET (1 .. N) : h[s] = ScanOf(file, lines, h, s)
  BY <1>1 DEF Scans
<1>5. G[N] = h[1 .. N]
  OBVIOUS
<1>6. G[0] = NewCodexParse(lines)
  <2>1. 1 .. 0 = {} /\ {} \in SUBSET (1 .. N)
    OBVIOUS
  <2>2. G[0] = h[{}]
    BY <2>1
  <2>3. QED
    BY <1>4, <2>1, <2>2 DEF ScanOf
<1>7. ASSUME NEW n \in 0 .. N - 1
      PROVE  G[n + 1] = Dispatch(G[n], file, n + 1, lines[n + 1])
  <2>1. n \in Nat /\ n + 1 \in 1 .. N /\ n \in 0 .. N /\ n + 1 \in 0 .. N
    OBVIOUS
  <2>2. 1 .. n + 1 \in SUBSET (1 .. N) /\ 1 .. n + 1 # {}
    <3>1. n + 1 \in 1 .. n + 1 /\ \A x \in 1 .. n + 1 : x \in 1 .. N
      BY <2>1
    <3>2. QED
      BY <3>1
  <2>3. Max(1 .. n + 1) = n + 1 /\ (1 .. n + 1) \ {n + 1} = 1 .. n
    BY <2>1, MaxOf
  <2>4. Places(lines)[n + 1] = n + 1
    BY <2>1 DEF Places
  <2>5. h[1 .. n + 1] = Dispatch(h[1 .. n], file, n + 1, lines[n + 1])
    BY <1>4, <2>2, <2>3, <2>4 DEF ScanOf
  <2>6. G[n + 1] = h[1 .. n + 1] /\ G[n] = h[1 .. n]
    BY <2>1
  <2> HIDE DEF G
  <2>7. QED
    BY <2>5, <2>6
<1> HIDE DEF G
<1>8. IsScan(G, file, lines, N)
  BY <1>3, <1>5, <1>6, <1>7 DEF IsScan
<1>9. QED
  BY <1>8

Prev == "prevUsage"

SamePrev(st, new) == Prev \in DOMAIN new /\ new.prevUsage = st.prevUsage

(* The handlers of turns and replies leave the last reading alone.         *)
LEMMA TurnsKeepPrev ==
  ASSUME NEW st, Prev \in DOMAIN st, NEW n, NEW ts, NEW uuid, NEW model, NEW toks
  PROVE  /\ SamePrev(st, TurnBoundary(st, n, ts)) /\ SamePrev(st, EndTurn(st, n))
         /\ SamePrev(st, AppendUsage(st, n, ts, uuid, model, toks))
<1> DEFINE closed == CloseTurn(st, n)
<1>1. SamePrev(st, closed)
  BY DEF SamePrev, CloseTurn, Prev
<1>3. SamePrev(st, TurnBoundary(st, n, ts))
  <2> DEFINE started == StartTurn(closed, n, ts)
  <2>1. TurnBoundary(st, n, ts) = [started EXCEPT !.anchor = ts]
    BY DEF TurnBoundary
  <2>2. SamePrev(st, started)
    <3> HIDE DEF closed
    <3>1. QED
      BY <1>1 DEF SamePrev, StartTurn, Prev
  <2> HIDE DEF started
  <2>3. QED
    BY <2>1, <2>2 DEF SamePrev, Prev
<1>4. SamePrev(st, EndTurn(st, n))
  <2>1. EndTurn(st, n) = st \/ EndTurn(st, n) = [closed EXCEPT !.anchor = None]
    BY DEF EndTurn
  <2> HIDE DEF closed
  <2>2. QED
    BY <1>1, <2>1 DEF SamePrev, Prev
<1>5. SamePrev(st, AppendUsage(st, n, ts, uuid, model, toks))
  BY DEF SamePrev, AppendUsage, Prev
<1>6. QED
  BY <1>3, <1>4, <1>5

-----------------------------------------------------------------------------
(* The readings of a journal.                                              *)

Readings == [UsageKeys -> Nat]
AtMost(a, b) == \A k \in UsageKeys : a[k] <= b[k]
IsReading(line) == line.kind = "token_count"

LineOk(line) ==
    /\ {"kind", "ts"} \subseteq DOMAIN line /\ line.ts \in Nat
    /\ IsReading(line) => /\ {"total", "last", "limit"} \subseteq DOMAIN line
                          /\ line.total \in Readings /\ line.last \in Readings
                          /\ line.last["input"] > 0

(* Readings never step back.                                               *)
LinesOk(lines) ==
    /\ IsSeq(lines)
    /\ \A n \in DOMAIN lines : LineOk(lines[n])
    /\ \A m, n \in DOMAIN lines :
          m < n /\ IsReading(lines[m]) /\ IsReading(lines[n]) =>
             AtMost(lines[m].total, lines[n].total)

(* The last reading of the first n lines.                                  *)
ReadingsAmong(lines, n) == {m \in 1 .. n : lines[m].kind = "token_count"}
LastReading(lines, n) ==
    IF ReadingsAmong(lines, n) = {} THEN None ELSE lines[Max(ReadingsAmong(lines, n))].total

LEMMA MaxAmong ==
  ASSUME NEW n \in Nat, NEW S \in SUBSET (1 .. n), S # {}
  PROVE  Max(S) \in S /\ \A m \in S : m <= Max(S)
<1> DEFINE T == {n - x : x \in S}
<1>0. \A x \in S : x \in Nat /\ n - x \in Nat
  OBVIOUS
<1>1. T \in SUBSET Nat /\ T # {}
  BY <1>0
<1>2. PICK t \in T : \A u \in T : t <= u
  BY <1>1, LeastNat
<1>3. PICK x \in S : t = n - x
  OBVIOUS
<1>4. \A y \in S : x >= y
  <2> SUFFICES ASSUME NEW y \in S PROVE x >= y
    OBVIOUS
  <2>1. n - y \in T /\ x \in Nat /\ y \in Nat
    OBVIOUS
  <2>2. n - x <= n - y
    BY <1>2, <1>3, <2>1
  <2>3. QED
    BY <2>1, <2>2
<1>5. Max(S) \in S /\ \A y \in S : Max(S) >= y
  BY <1>4 DEF Max
<1>6. QED
  BY <1>0, <1>5

LEMMA LastReadingStep ==
  ASSUME NEW lines, NEW n \in Nat
  PROVE  LastReading(lines, n + 1) = IF IsReading(lines[n + 1]) THEN lines[n + 1].total
                                     ELSE LastReading(lines, n)
<1>1. \A m : m \in 1 .. n + 1 <=> m \in 1 .. n \/ m = n + 1
  OBVIOUS
<1>2. ReadingsAmong(lines, n + 1) =
        ReadingsAmong(lines, n) \cup (IF IsReading(lines[n + 1]) THEN {n + 1} ELSE {})
  BY <1>1 DEF ReadingsAmong, IsReading
<1>3. CASE IsReading(lines[n + 1])
  <2>1. n + 1 \in ReadingsAmong(lines, n + 1)
    BY <1>2, <1>3
  <2>2. ReadingsAmong(lines, n + 1) \in SUBSET (1 .. n + 1) /\ n + 1 \notin 1 .. n
    BY DEF ReadingsAmong
  <2>3. Max(ReadingsAmong(lines, n + 1)) = n + 1
    BY <2>1, <2>2, MaxOf
  <2>4. QED
    BY <1>3, <2>1, <2>3 DEF LastReading
<1>4. CASE ~IsReading(lines[n + 1])
  BY <1>2, <1>4 DEF LastReading
<1>5. QED
  BY <1>3, <1>4

(* A reading bills exactly when it differs from the last one.              *)
LEMMA KindOfReading ==
  ASSUME NEW lines, NEW n \in Nat, LinesOk(lines), n + 1 \in DOMAIN lines
  PROVE  LET line == lines[n + 1]
             last == LastReading(lines, n)
         IN /\ last \in Readings \cup {None} /\ None \notin Readings
            /\ IsReading(line) /\ last # None => AtMost(last, line.total)
            /\ IsReading(line) => KindInLog(lines, n + 1) =
                                     IF last # line.total THEN "usage" ELSE "other"
<1> DEFINE line == lines[n + 1]
           last == LastReading(lines, n)
           S == ReadingsAmong(lines, n)
           m == Max(S)
<1>1. None \notin Readings
  <2>1. \A u \in Readings : u \in [UsageKeys -> Int]
    BY DEF Readings
  <2>2. QED
    BY <2>1, CodexAssumption
<1>2. S # {} => /\ m \in DOMAIN lines /\ m < n + 1 /\ IsReading(lines[m])
                /\ last = lines[m].total
  <2> SUFFICES ASSUME S # {} PROVE /\ m \in DOMAIN lines /\ m < n + 1 /\ IsReading(lines[m])
                                   /\ last = lines[m].total
    OBVIOUS
  <2>1. S \in SUBSET (1 .. n)
    BY DEF ReadingsAmong
  <2>2. m \in S
    BY <2>1, MaxAmong
  <2>3. m \in 1 .. n /\ IsReading(lines[m])
    BY <2>2 DEF ReadingsAmong, IsReading
  <2>4. DOMAIN lines = 1 .. Len(lines) /\ Len(lines) \in Nat
    BY AppendSeq DEF LinesOk
  <2>5. QED
    BY <2>3, <2>4 DEF LastReading
<1>3. last \in Readings \cup {None}
  <2>1. CASE S = {}
    BY <2>1 DEF LastReading
  <2>2. CASE S # {}
    BY <1>2, <2>2 DEF LinesOk, LineOk
  <2>3. QED
    BY <2>1, <2>2
<1>4. IsReading(line) /\ last # None => AtMost(last, line.total)
  <2> SUFFICES ASSUME IsReading(line), last # None PROVE AtMost(last, line.total)
    OBVIOUS
  <2>1. S # {}
    BY DEF LastReading
  <2>2. QED
    BY <1>2, <2>1 DEF LinesOk
<1>5. ASSUME IsReading(line)
      PROVE  KindInLog(lines, n + 1) = IF last # line.total THEN "usage" ELSE "other"
  <2>1. {j \in 1 .. (n + 1) - 1 : lines[j].kind = "token_count"} = S
    BY DEF ReadingsAmong
  <2>2. KindInLog(lines, n + 1) =
          IF S # {} => lines[m].total # line.total THEN "usage" ELSE "other"
    BY <1>5, <2>1 DEF KindInLog, IsReading
  <2>3. S = {} => last = None
    BY DEF LastReading
  <2>4. line.total \in Readings
    BY <1>5 DEF LinesOk, LineOk
  <2> HIDE DEF S, m, last, line
  <2>5. QED
    BY <1>1, <1>2, <2>2, <2>3, <2>4
<1>6. QED
  BY <1>1, <1>3, <1>4, <1>5

(* What is billed has a context.                                           *)
LEMMA PartitionContext ==
  ASSUME NEW delta, \A k \in UsageKeys : delta[k] \in Int, NEW long
  PROVE  LET toks == Partition(delta) ++ [long |-> long]
         IN toks.fresh + toks.create + toks.read \in Int
<1> DEFINE clamped == [k \in UsageKeys |-> IF delta[k] > 0 THEN delta[k] ELSE 0]
           fresh == clamped.input - clamped.cached - clamped.write
           p == Partition(delta)
           toks == p ++ [long |-> long]
<1>1. \A k \in UsageKeys : clamped[k] \in Int
  OBVIOUS
<1>2. clamped.input \in Int /\ clamped.cached \in Int /\ clamped.write \in Int
  BY <1>1 DEF UsageKeys
<1>3. p = [fresh |-> IF fresh > 0 THEN fresh ELSE 0, create |-> clamped.write,
           read |-> clamped.cached, output |-> clamped.output]
  BY DEF Partition
<1> HIDE DEF clamped, p
<1>4. /\ p.fresh \in Int /\ p.create \in Int /\ p.read \in Int
      /\ DOMAIN p = {"fresh", "create", "read", "output"}
  BY <1>2, <1>3
<1>5. toks.fresh = p.fresh /\ toks.create = p.create /\ toks.read = p.read
  BY <1>4 DEF ++
<1> HIDE DEF toks
<1>6. toks.fresh + toks.create + toks.read \in Int
  BY <1>4, <1>5
<1>7. QED
  BY <1>6 DEF toks, p

LEMMA RateLimitKept ==
  ASSUME NEW st, Fields \cup {Prev} \subseteq DOMAIN st, NEW n, NEW line
  PROVE  Kept(st, RateLimit(st, n, line)) /\ SamePrev(st, RateLimit(st, n, line))
BY DEF Kept, SamePrev, RateLimit, Fields, Prev

(* What a reading is more than the one before it, or than what it would    *)
(* have been without its request.                                          *)
LEMMA WhatIsBilled ==
  ASSUME NEW st, NEW line, LineOk(line), IsReading(line), None \notin Readings,
         st.prevUsage \in Readings \cup {None},
         st.prevUsage # None => AtMost(st.prevUsage, line.total)
  PROVE  LET delta == Minus(line.total, Baseline(st, line))
             quiet == \A k \in UsageKeys : delta[k] <= 0
         IN /\ \A k \in UsageKeys : delta[k] \in Int
            /\ quiet <=> st.prevUsage = line.total
            /\ st.prevUsage \in {None, Minus(line.total, line.last)} => delta = line.last
<1> DEFINE delta == Minus(line.total, Baseline(st, line))
           quiet == \A k \in UsageKeys : delta[k] <= 0
<1>1. /\ line.total \in Readings /\ line.last \in Readings /\ line.last["input"] > 0
  BY DEF LineOk
<1>2. st.prevUsage \in {None, Minus(line.total, line.last)} => delta = line.last
  <2> SUFFICES ASSUME st.prevUsage \in {None, Minus(line.total, line.last)}
               PROVE  delta = line.last
    OBVIOUS
  <2>1. Baseline(st, line) = Minus(line.total, line.last)
    BY DEF Baseline
  <2>2. delta = [k \in UsageKeys |-> line.total[k] - (line.total[k] - line.last[k])]
    BY <2>1 DEF Minus
  <2>3. \A k \in UsageKeys : line.total[k] - (line.total[k] - line.last[k]) = line.last[k]
    BY <1>1 DEF Readings
  <2>4. delta = [k \in UsageKeys |-> line.last[k]]
    BY <2>2, <2>3
  <2>5. QED
    BY <1>1, <2>4 DEF Readings
<1>3. CASE st.prevUsage = None
  <2>1. delta = line.last
    BY <1>2, <1>3
  <2>2. ~quiet
    BY <1>1, <2>1 DEF UsageKeys, Readings
  <2>3. \A k \in UsageKeys : delta[k] \in Int
    BY <1>1, <2>1 DEF Readings
  <2> HIDE DEF delta
  <2>4. QED
    BY <1>1, <1>2, <1>3, <2>2, <2>3 DEF delta
<1>4. CASE st.prevUsage # None
  <2>1. st.prevUsage \in Readings
    BY <1>4
  <2>2. \A k \in UsageKeys : delta[k] = line.total[k] - st.prevUsage[k]
    BY <1>4 DEF Baseline, Minus
  <2>3. quiet <=> \A k \in UsageKeys : line.total[k] = st.prevUsage[k]
    BY <1>1, <1>4, <2>1, <2>2 DEF AtMost, Readings
  <2>4. (\A k \in UsageKeys : line.total[k] = st.prevUsage[k]) => st.prevUsage = line.total
    BY <1>1, <2>1 DEF Readings
  <2>5. \A k \in UsageKeys : delta[k] \in Int
    BY <1>1, <2>1, <2>2 DEF Readings
  <2> HIDE DEF delta
  <2>6. QED
    BY <1>2, <2>3, <2>4, <2>5 DEF delta
<1>5. QED
  BY <1>3, <1>4

LEMMA TokenMoves ==
  ASSUME NEW st, Fields \cup {Prev} \subseteq DOMAIN st, NEW file, NEW n, NEW line,
         LineOk(line), IsReading(line), None \notin Readings,
         st.prevUsage \in Readings \cup {None},
         st.prevUsage # None => AtMost(st.prevUsage, line.total)
  PROVE  LET new == TokenCount(RateLimit(st, n, line), file, n, line)
         IN /\ Moves(st, new, IF st.prevUsage # line.total THEN "usage" ELSE "other", line.ts, n)
            /\ Prev \in DOMAIN new /\ new.prevUsage = line.total
<1> DEFINE limited == RateLimit(st, n, line)
           delta == Minus(line.total, Baseline(limited, line))
           seen == [limited EXCEPT !.prevUsage = line.total]
           quiet == \A k \in UsageKeys : delta[k] <= 0
           subscribed == limited.subscription \/ line.plan
           booked == [seen EXCEPT !.subscription = subscribed]
           toks == Partition(delta) ++ [long |-> ~subscribed /\ delta.input > LongContext]
           billed == AppendUsage(booked, n, line.ts, RecordUuid(limited, file, n, line.total),
                                 ModelInForce(limited), toks)
           new == TokenCount(limited, file, n, line)
<1>1. new = IF quiet THEN seen ELSE billed
  BY DEF TokenCount
<1>2. Kept(st, limited) /\ SamePrev(st, limited)
  BY RateLimitKept
<1> HIDE DEF limited
<1>3. /\ line.total \in Readings /\ line.last \in Readings /\ line.last["input"] > 0
  BY DEF LineOk
<1>4. (\A k \in UsageKeys : delta[k] \in Int) /\ (quiet <=> st.prevUsage = line.total)
  <2>1. limited.prevUsage = st.prevUsage
    BY <1>2 DEF SamePrev
  <2>2. QED
    BY <2>1, WhatIsBilled
<1>5. Kept(st, seen) /\ Prev \in DOMAIN seen /\ seen.prevUsage = line.total
  BY <1>2 DEF Kept, SamePrev, Fields, Prev
<1>6. Kept(st, booked) /\ Prev \in DOMAIN booked /\ booked.prevUsage = line.total
  <2> HIDE DEF seen, subscribed
  <2>1. QED
    BY <1>5 DEF Kept, Fields, Prev
<1>7. toks.fresh + toks.create + toks.read \in Int
  <2> HIDE DEF delta, subscribed
  <2>1. QED
    BY <1>4, PartitionContext
<1> HIDE DEF delta, quiet, seen, subscribed, toks
<1>8. CASE quiet
  <2>1. new = seen /\ st.prevUsage = line.total
    BY <1>1, <1>4, <1>8
  <2> HIDE DEF new
  <2>2. Moves(st, new, "other", line.ts, n)
    BY <1>5, <2>1, KeptMoves
  <2>3. QED
    BY <1>5, <2>1, <2>2 DEF new, limited
<1>9. CASE ~quiet
  <2>1. new = billed /\ st.prevUsage # line.total
    BY <1>1, <1>4, <1>9
  <2> HIDE DEF booked
  <2>2. Moves(booked, billed, "usage", line.ts, n)
    BY <1>6, <1>7, UsageMoves DEF Kept
  <2>3. SamePrev(booked, billed)
    BY <1>6, TurnsKeepPrev
  <2> HIDE DEF billed
  <2>4. Moves(st, billed, "usage", line.ts, n)
    BY <1>6, <2>2, KeptThenMoves
  <2> HIDE DEF new
  <2>5. QED
    BY <1>6, <2>1, <2>3, <2>4 DEF SamePrev, new, limited
<1>10. QED
  BY <1>8, <1>9

(* The lines that touch neither replies nor turns.                         *)
Aside == {"session_meta", "turn_context", "tool_call", "tool_output", "patch_apply_end"}
Telling == {"token_count", "task_started", "task_complete", "turn_aborted", "agent_message"}

LEMMA AsideKept ==
  ASSUME NEW st, Fields \cup {Prev} \subseteq DOMAIN st, NEW file, NEW n, NEW line,
         line.kind \notin Telling
  PROVE  LET new == Dispatch(st, file, n, line) IN Kept(st, new) /\ SamePrev(st, new)
<1> DEFINE new == Dispatch(st, file, n, line)
           Good(x) == Kept(st, x) /\ SamePrev(st, x)
<1>1. Good(SessionMeta(st, line))
  BY DEF Kept, SamePrev, SessionMeta, Fields, Prev
<1>2. Good([st EXCEPT !.model = line.model])
  BY DEF Kept, SamePrev, Fields, Prev
<1>3. \A call, turn, lines : Good(AppendTool(st, call, turn, lines))
  BY DEF Kept, SamePrev, AppendTool, Fields, Prev
<1>4. Good(CodexToolCall(st, line))
  <2> DEFINE called == AppendTool(st, line.call, line.turn, line.lines)
  <2>1. Good(called)
    BY <1>3
  <2>2. \/ CodexToolCall(st, line) = called
        \/ CodexToolCall(st, line) =
             [called EXCEPT !.patchTarget = [row |-> Len(called.tools), turn |-> line.turn]]
    BY DEF CodexToolCall
  <2> HIDE DEF called
  <2>3. QED
    BY <2>1, <2>2 DEF Kept, SamePrev, Fields, Prev
<1>5. Good(Settle(st, line.call, line.failed))
  BY DEF Kept, SamePrev, Settle, Fields, Prev
<1>6. Good(Patch(st, line))
  <2> DEFINE lines == IF line.ok THEN line.lines ELSE 0
             own == AppendTool(st, None, line.turn, lines)
             onto == [st EXCEPT !.tools[st.patchTarget.row].lines = @ + lines]
             alone == [own EXCEPT !.tools[Len(own.tools)].error = ~line.ok]
  <2>1. Good(own)
    BY <1>3
  <2>2. Patch(st, line) = onto \/ Patch(st, line) = alone
    BY DEF Patch
  <2>3. Good(onto)
    <3> HIDE DEF lines
    <3>1. QED
      BY DEF Kept, SamePrev, Fields, Prev
  <2>4. Good(alone)
    <3> HIDE DEF own
    <3>1. QED
      BY <2>1 DEF Kept, SamePrev, Fields, Prev
  <2> HIDE DEF onto, alone, Good
  <2>5. QED
    BY <2>2, <2>3, <2>4
<1>7. Good(st)
  BY DEF Kept, SamePrev
<1> HIDE DEF Good
<1>8. Good(new)
  <2>1. CASE line.kind = "session_meta"
    BY <1>1, <2>1 DEF Dispatch, DeclaresModel
  <2>2. CASE line.kind = "turn_context"
    BY <1>2, <2>2 DEF Dispatch, DeclaresModel
  <2>3. CASE line.kind = "tool_call"
    BY <1>4, <2>3 DEF Dispatch, DeclaresModel
  <2>4. CASE line.kind = "tool_output"
    BY <1>5, <2>4 DEF Dispatch, DeclaresModel
  <2>5. CASE line.kind = "patch_apply_end"
    BY <1>6, <2>5 DEF Dispatch, DeclaresModel
  <2>6. CASE line.kind \notin Aside
    BY <1>7, <2>6 DEF Dispatch, DeclaresModel, Aside, Telling
  <2>7. QED
    BY <2>1, <2>2, <2>3, <2>4, <2>5, <2>6 DEF Aside
<1>9. QED
  BY <1>8 DEF Good

LEMMA DispatchMoves ==
  ASSUME NEW lines, LinesOk(lines), NEW n \in Nat, n + 1 \in DOMAIN lines, NEW file,
         NEW st, Fields \cup {Prev} \subseteq DOMAIN st, st.prevUsage = LastReading(lines, n)
  PROVE  LET new == Dispatch(st, file, n + 1, lines[n + 1])
             kind == KindInLog(lines, n + 1)
         IN /\ kind \in LineKinds /\ Moves(st, new, kind, lines[n + 1].ts, n + 1)
            /\ Prev \in DOMAIN new /\ new.prevUsage = LastReading(lines, n + 1)
<1> DEFINE line == lines[n + 1]
           new == Dispatch(st, file, n + 1, line)
           kind == KindInLog(lines, n + 1)
           last == LastReading(lines, n)
<1>1. /\ last \in Readings \cup {None} /\ None \notin Readings
      /\ IsReading(line) /\ last # None => AtMost(last, line.total)
      /\ IsReading(line) => kind = IF last # line.total THEN "usage" ELSE "other"
  BY KindOfReading
<1>2. LineOk(line)
  BY DEF LinesOk
<1>3. line.ts \in Int \cup {None} /\ n + 1 \in Nat
  BY <1>2 DEF LineOk
<1>4. LastReading(lines, n + 1) = IF IsReading(line) THEN line.total ELSE last
  BY LastReadingStep
<1>5. ~IsReading(line) =>
         kind = CASE line.kind = "task_started" -> "prompt"
                  [] line.kind \in {"task_complete", "turn_aborted"} -> "end"
                  [] line.kind = "agent_message" -> "text"
                  [] OTHER -> "other"
  BY DEF KindInLog, IsReading
<1> DEFINE Good(x) == /\ kind \in LineKinds /\ Moves(st, x, kind, line.ts, n + 1)
                      /\ Prev \in DOMAIN x /\ x.prevUsage = LastReading(lines, n + 1)
<1> HIDE DEF line, kind, last
<1>6. CASE line.kind = "token_count"
  <2>1. new = TokenCount(RateLimit(st, n + 1, line), file, n + 1, line)
    BY <1>6 DEF Dispatch, DeclaresModel
  <2>2. st.prevUsage = last /\ IsReading(line)
    BY <1>6 DEF last, IsReading
  <2> HIDE DEF new
  <2>3. /\ Moves(st, new, IF last # line.total THEN "usage" ELSE "other", line.ts, n + 1)
        /\ Prev \in DOMAIN new /\ new.prevUsage = line.total
    BY <1>1, <1>2, <2>1, <2>2, TokenMoves
  <2>4. Good(new)
    BY <1>1, <1>4, <2>2, <2>3 DEF LineKinds
  <2>5. QED
    BY <2>4 DEF new, line, kind
<1>7. ASSUME NEW x, NEW k \in LineKinds, ~IsReading(line), k = kind, x = new,
             Moves(st, x, k, line.ts, n + 1), SamePrev(st, x)
      PROVE  Good(new)
  BY <1>4, <1>7 DEF SamePrev, last
<1>8. {"prompt", "end", "text", "other"} \subseteq LineKinds
  BY DEF LineKinds
<1>9. CASE line.kind = "task_started"
  <2>1. new = TurnBoundary(st, n + 1, line.ts)
    BY <1>9 DEF Dispatch, DeclaresModel
  <2>2. kind = "prompt" /\ ~IsReading(line)
    BY <1>5, <1>9 DEF IsReading
  <2>3. Moves(st, TurnBoundary(st, n + 1, line.ts), "prompt", line.ts, n + 1)
    BY <1>3, TurnBoundaryMoves
  <2>4. SamePrev(st, TurnBoundary(st, n + 1, line.ts))
    BY TurnsKeepPrev
  <2> HIDE DEF new, Good
  <2>5. Good(new)
    BY <1>7, <1>8, <2>1, <2>2, <2>3, <2>4
  <2>6. QED
    BY <2>5 DEF Good, new, line, kind
<1>10. CASE line.kind \in {"task_complete", "turn_aborted"}
  <2>1. new = EndTurn(st, n + 1)
    BY <1>10 DEF Dispatch, DeclaresModel
  <2>2. kind = "end" /\ ~IsReading(line)
    BY <1>5, <1>10 DEF IsReading
  <2>3. Moves(st, EndTurn(st, n + 1), "end", line.ts, n + 1)
    BY EndTurnMoves
  <2>4. SamePrev(st, EndTurn(st, n + 1))
    BY TurnsKeepPrev
  <2> HIDE DEF new, Good
  <2>5. Good(new)
    BY <1>7, <1>8, <2>1, <2>2, <2>3, <2>4
  <2>6. QED
    BY <2>5 DEF Good, new, line, kind
<1>11. CASE line.kind = "agent_message"
  <2>1. new = [st EXCEPT !.text = @ + 1]
    BY <1>11 DEF Dispatch, DeclaresModel
  <2>2. kind = "text" /\ ~IsReading(line)
    BY <1>5, <1>11 DEF IsReading
  <2>3. Moves(st, [st EXCEPT !.text = @ + 1], "text", line.ts, n + 1)
    BY TextMoves
  <2>4. SamePrev(st, [st EXCEPT !.text = @ + 1])
    BY DEF SamePrev, Prev
  <2> HIDE DEF new, Good
  <2>5. Good(new)
    BY <1>7, <1>8, <2>1, <2>2, <2>3, <2>4
  <2>6. QED
    BY <2>5 DEF Good, new, line, kind
<1>12. CASE line.kind \notin Telling
  <2>1. Kept(st, new) /\ SamePrev(st, new)
    BY <1>12, AsideKept
  <2>2. kind = "other" /\ ~IsReading(line)
    BY <1>5, <1>12 DEF IsReading, Telling
  <2>3. Moves(st, new, "other", line.ts, n + 1)
    BY <2>1, KeptMoves
  <2> HIDE DEF new, Good
  <2>4. Good(new)
    BY <1>7, <1>8, <2>1, <2>2, <2>3
  <2>5. QED
    BY <2>4 DEF Good, new, line, kind
<1>13. QED
  BY <1>6, <1>9, <1>10, <1>11, <1>12 DEF Telling

(* What a parse of a journal says of its replies.                          *)
LogOfLines(lines) ==
    [n \in DOMAIN lines |-> [kind |-> KindInLog(lines, n), ts |-> lines[n].ts]]

LEMMA ScanStates ==
  ASSUME NEW lines, LinesOk(lines), NEW file, NEW G, IsScan(G, file, lines, Len(lines)),
         NEW m \in 0 .. Len(lines)
  PROVE  /\ Follows(G[m], LogOfLines(lines), m)
         /\ Prev \in DOMAIN G[m] /\ G[m].prevUsage = LastReading(lines, m)
<1> DEFINE l == LogOfLines(lines)
           N == Len(lines)
<1>1. N \in Nat /\ DOMAIN lines = 1 .. N
  BY AppendSeq DEF LinesOk
<1> HIDE DEF N
<1>2. /\ G[0] = NewCodexParse(lines)
      /\ \A n \in 0 .. N - 1 : G[n + 1] = Dispatch(G[n], file, n + 1, lines[n + 1])
  BY DEF IsScan, N
<1> DEFINE Good(n) == /\ Follows(G[n], l, n)
                      /\ Prev \in DOMAIN G[n] /\ G[n].prevUsage = LastReading(lines, n)
           S == {n \in Nat : n <= N => Good(n)}
<1>3. 0 \in S
  <2> DEFINE st == NewCodexParse(lines)
  <2>1. /\ Fields \cup {Prev} \subseteq DOMAIN st /\ st.records = <<>> /\ st.turns = <<>>
        /\ st.turn = None /\ st.anchor = None /\ st.text = 0 /\ st.prevUsage = None
    BY DEF NewCodexParse, Fields, Prev
  <2> HIDE DEF st, l
  <2>2. Follows(st, l, 0)
    BY <2>1, FollowsNothing
  <2>3. LastReading(lines, 0) = None
    <3>1. ReadingsAmong(lines, 0) = {}
      BY DEF ReadingsAmong
    <3>2. QED
      BY <3>1 DEF LastReading
  <2>4. G[0] = st
    BY <1>2 DEF st
  <2>5. Good(0)
    BY <2>1, <2>2, <2>3, <2>4
  <2>6. QED
    BY <2>5
<1>4. ASSUME NEW n \in S
      PROVE  n + 1 \in S
  <2> SUFFICES ASSUME n + 1 <= N PROVE Good(n + 1)
    OBVIOUS
  <2>1. n \in Nat /\ n \in 0 .. N - 1 /\ n + 1 \in DOMAIN lines
    BY <1>1
  <2>2. Good(n)
    BY <1>1, <2>1
  <2>3. G[n + 1] = Dispatch(G[n], file, n + 1, lines[n + 1])
    BY <1>2, <2>1
  <2>4. l[n + 1].kind = KindInLog(lines, n + 1) /\ l[n + 1].ts = lines[n + 1].ts
    BY <2>1 DEF LogOfLines
  <2> DEFINE st == G[n]
             new == G[n + 1]
  <2> HIDE DEF l
  <2>5. /\ Follows(st, l, n) /\ Prev \in DOMAIN st /\ st.prevUsage = LastReading(lines, n)
        /\ Fields \cup {Prev} \subseteq DOMAIN st
    BY <2>2 DEF Follows
  <2> HIDE DEF st
  <2>6. /\ KindInLog(lines, n + 1) \in LineKinds
        /\ Moves(st, new, KindInLog(lines, n + 1), lines[n + 1].ts, n + 1)
        /\ Prev \in DOMAIN new /\ new.prevUsage = LastReading(lines, n + 1)
    <3>1. new = Dispatch(st, file, n + 1, lines[n + 1])
      BY <2>3 DEF st
    <3> HIDE DEF new
    <3>2. QED
      BY <2>1, <2>5, <3>1, DispatchMoves
  <2> HIDE DEF new
  <2>7. Follows(new, l, n + 1)
    BY <2>1, <2>4, <2>5, <2>6, FollowsStep
  <2>8. QED
    BY <2>6, <2>7 DEF new
<1>5. S \in SUBSET Nat
  OBVIOUS
<1> HIDE DEF S
<1>6. S = Nat
  BY <1>3, <1>4, <1>5, Induct
<1>7. Good(m)
  BY <1>1, <1>6 DEF S, N
<1>8. QED
  BY <1>7

LEMMA ScanFollows ==
  ASSUME NEW lines, LinesOk(lines), NEW file
  PROVE  Follows(CodexScan(file, lines), LogOfLines(lines), Len(lines))
<1>1. Len(lines) \in Nat /\ DOMAIN lines = 1 .. Len(lines)
  BY AppendSeq DEF LinesOk
<1>2. PICK G : IsScan(G, file, lines, Len(lines))
  BY <1>1, ScanByLine
<1>3. Len(lines) \in 0 .. Len(lines) /\ G[Len(lines)] = CodexScan(file, lines)
  BY <1>1, <1>2 DEF IsScan
<1>4. QED
  BY <1>2, <1>3, ScanStates

-----------------------------------------------------------------------------
(* The books of a parse.                                                   *)

(* What a reading is booked with.                                          *)
Books == {"session", "model", "subscription"}

SameBooks(st, new) ==
    /\ Books \subseteq DOMAIN new
    /\ new.session = st.session /\ new.model = st.model
    /\ new.subscription = st.subscription

(* What a line that is no reading does to it.                              *)
Told(st, new, line) ==
    /\ Books \subseteq DOMAIN new /\ new.subscription = st.subscription
    /\ new.session = IF line.kind = "session_meta" /\ st.session = None
                     THEN line.session ELSE st.session
    /\ new.model = IF line.kind = "turn_context" THEN line.model ELSE st.model

LEMMA TurnsKeepBooks ==
  ASSUME NEW st, Books \subseteq DOMAIN st, NEW n, NEW ts, NEW uuid, NEW model, NEW toks
  PROVE  /\ SameBooks(st, TurnBoundary(st, n, ts)) /\ SameBooks(st, EndTurn(st, n))
         /\ SameBooks(st, AppendUsage(st, n, ts, uuid, model, toks))
<1> DEFINE closed == CloseTurn(st, n)
<1>1. SameBooks(st, closed)
  BY DEF SameBooks, CloseTurn, Books
<1>3. SameBooks(st, TurnBoundary(st, n, ts))
  <2> DEFINE started == StartTurn(closed, n, ts)
  <2>1. TurnBoundary(st, n, ts) = [started EXCEPT !.anchor = ts]
    BY DEF TurnBoundary
  <2>2. SameBooks(st, started)
    <3> HIDE DEF closed
    <3>1. QED
      BY <1>1 DEF SameBooks, StartTurn, Books
  <2> HIDE DEF started
  <2>3. QED
    BY <2>1, <2>2 DEF SameBooks, Books
<1>4. SameBooks(st, EndTurn(st, n))
  <2>1. EndTurn(st, n) = st \/ EndTurn(st, n) = [closed EXCEPT !.anchor = None]
    BY DEF EndTurn
  <2> HIDE DEF closed
  <2>2. QED
    BY <1>1, <2>1 DEF SameBooks, Books
<1>5. SameBooks(st, AppendUsage(st, n, ts, uuid, model, toks))
  BY DEF SameBooks, AppendUsage, Books
<1>6. QED
  BY <1>3, <1>4, <1>5

LEMMA AsideTold ==
  ASSUME NEW st, Books \subseteq DOMAIN st, NEW file, NEW n, NEW line, ~IsReading(line)
  PROVE  Told(st, Dispatch(st, file, n, line), line)
<1> DEFINE new == Dispatch(st, file, n, line)
           Good(x) == SameBooks(st, x)
<1>1. line.kind = "session_meta" => Told(st, SessionMeta(st, line), line)
  BY DEF Told, SessionMeta, Books
<1>2. line.kind = "turn_context" => Told(st, [st EXCEPT !.model = line.model], line)
  BY DEF Told, Books
<1>3. \A call, turn, lines : Good(AppendTool(st, call, turn, lines))
  BY DEF SameBooks, AppendTool, Books
<1>4. Good(CodexToolCall(st, line))
  <2> DEFINE called == AppendTool(st, line.call, line.turn, line.lines)
  <2>1. Good(called)
    BY <1>3
  <2>2. \/ CodexToolCall(st, line) = called
        \/ CodexToolCall(st, line) =
             [called EXCEPT !.patchTarget = [row |-> Len(called.tools), turn |-> line.turn]]
    BY DEF CodexToolCall
  <2> HIDE DEF called
  <2>3. QED
    BY <2>1, <2>2 DEF SameBooks, Books
<1>5. Good(Settle(st, line.call, line.failed))
  BY DEF SameBooks, Settle, Books
<1>6. Good(Patch(st, line))
  <2> DEFINE lines == IF line.ok THEN line.lines ELSE 0
             own == AppendTool(st, None, line.turn, lines)
             onto == [st EXCEPT !.tools[st.patchTarget.row].lines = @ + lines]
             alone == [own EXCEPT !.tools[Len(own.tools)].error = ~line.ok]
  <2>1. Good(own)
    BY <1>3
  <2>2. Patch(st, line) = onto \/ Patch(st, line) = alone
    BY DEF Patch
  <2>3. Good(onto)
    <3> HIDE DEF lines
    <3>1. QED
      BY DEF SameBooks, Books
  <2>4. Good(alone)
    <3> HIDE DEF own
    <3>1. QED
      BY <2>1 DEF SameBooks, Books
  <2> HIDE DEF onto, alone, Good
  <2>5. QED
    BY <2>2, <2>3, <2>4
<1>7. Good(st) /\ Good(TurnBoundary(st, n, line.ts)) /\ Good(EndTurn(st, n))
      /\ Good([st EXCEPT !.text = @ + 1])
  <2>1. Good(st) /\ Good([st EXCEPT !.text = @ + 1])
    BY DEF SameBooks, Books
  <2>2. QED
    BY <2>1, TurnsKeepBooks
<1>8. CASE line.kind = "session_meta"
  BY <1>1, <1>8 DEF Dispatch, DeclaresModel
<1>9. CASE line.kind = "turn_context"
  BY <1>2, <1>9 DEF Dispatch, DeclaresModel
<1>10. CASE line.kind \notin {"session_meta", "turn_context"}
  <2> HIDE DEF Good
  <2>1. Good(new)
    <3>1. CASE line.kind = "tool_call"
      BY <1>4, <3>1 DEF Dispatch, DeclaresModel
    <3>2. CASE line.kind = "tool_output"
      BY <1>5, <3>2 DEF Dispatch, DeclaresModel
    <3>3. CASE line.kind = "patch_apply_end"
      BY <1>6, <3>3 DEF Dispatch, DeclaresModel
    <3>4. CASE line.kind = "task_started"
      BY <1>7, <3>4 DEF Dispatch, DeclaresModel
    <3>5. CASE line.kind \in {"task_complete", "turn_aborted"}
      BY <1>7, <3>5 DEF Dispatch, DeclaresModel
    <3>6. CASE line.kind = "agent_message"
      BY <1>7, <3>6 DEF Dispatch, DeclaresModel
    <3>7. CASE line.kind \notin Aside \cup Telling
      BY <1>7, <3>7 DEF Dispatch, DeclaresModel, Aside, Telling
    <3>8. line.kind # "token_count"
      BY DEF IsReading
    <3>9. QED
      BY <1>10, <3>1, <3>2, <3>3, <3>4, <3>5, <3>6, <3>7, <3>8 DEF Aside, Telling
  <2> HIDE DEF new
  <2>2. Told(st, new, line)
    BY <1>10, <2>1 DEF Told, Good, SameBooks
  <2>3. QED
    BY <2>2 DEF new
<1>11. QED
  BY <1>8, <1>9, <1>10

(* The bill of a usage.                                                    *)
Bill(usage) == Partition(usage) ++ [long |-> ~Subscribed /\ usage.input > LongContext]

(* A reading that is not a repeat is booked with its own usage.            *)
BooksReading(st, new, n, line) ==
    /\ Books \subseteq DOMAIN new /\ new.session = st.session /\ new.model = st.model
    /\ new.subscription \in {st.subscription, Subscribed}
    /\ st.prevUsage = line.total => new.records = st.records
    /\ st.prevUsage # line.total =>
          \E r : /\ new.records = Append(st.records, r)
                 /\ r.line = n /\ r.uuid = <<"s", TotalTokens(line.total)>>
                 /\ r.toks = Bill(line.last)
                 /\ st.model # None => r.model = CodexModel(st.model)

LEMMA TokenBooks ==
  ASSUME NEW st, Fields \cup {Prev} \cup Books \subseteq DOMAIN st, NEW file, NEW n, NEW line,
         LineOk(line), IsReading(line), None \notin Readings,
         st.prevUsage \in Readings \cup {None},
         st.prevUsage # None => AtMost(st.prevUsage, line.total),
         st.prevUsage \in {None, line.total, Minus(line.total, line.last)},
         st.session = "s", line.plan = Subscribed,
         st.subscription \in BOOLEAN, st.subscription => Subscribed
  PROVE  BooksReading(st, TokenCount(RateLimit(st, n, line), file, n, line), n, line)
<1> DEFINE limited == RateLimit(st, n, line)
           delta == Minus(line.total, Baseline(limited, line))
           seen == [limited EXCEPT !.prevUsage = line.total]
           quiet == \A k \in UsageKeys : delta[k] <= 0
           subscribed == limited.subscription \/ line.plan
           booked == [seen EXCEPT !.subscription = subscribed]
           uuid == RecordUuid(limited, file, n, line.total)
           model == ModelInForce(limited)
           toks == Partition(delta) ++ [long |-> ~subscribed /\ delta.input > LongContext]
           billed == AppendUsage(booked, n, line.ts, uuid, model, toks)
           new == TokenCount(limited, file, n, line)
<1>1. new = IF quiet THEN seen ELSE billed
  BY DEF TokenCount
<1>2. Kept(st, limited) /\ SamePrev(st, limited)
  BY RateLimitKept
<1>3. SameBooks(st, limited)
  BY DEF SameBooks, RateLimit, Books
<1> HIDE DEF limited
<1>4. (quiet <=> st.prevUsage = line.total) /\ (~quiet => delta = line.last)
  <2>1. limited.prevUsage = st.prevUsage
    BY <1>2 DEF SamePrev
  <2>2. /\ quiet <=> st.prevUsage = line.total
        /\ st.prevUsage \in {None, Minus(line.total, line.last)} => delta = line.last
    BY <2>1, WhatIsBilled
  <2> HIDE DEF quiet, delta
  <2>3. QED
    BY <2>2
<1>5. subscribed = Subscribed
  BY <1>3, CodexAssumption DEF SameBooks
<1>6. ~quiet => toks = Bill(line.last)
  <2> HIDE DEF delta, subscribed, quiet
  <2>1. QED
    BY <1>4, <1>5 DEF Bill
<1>7. uuid = <<"s", TotalTokens(line.total)>>
  BY <1>3, CodexAssumption DEF RecordUuid, SameBooks
<1>8. st.model # None => model = CodexModel(st.model)
  BY <1>3 DEF ModelInForce, SameBooks
<1> HIDE DEF delta, quiet, toks, uuid, model, subscribed
<1>9. SameBooks(st, seen) /\ seen.records = st.records
  BY <1>2, <1>3 DEF SameBooks, Kept, Fields, Books
<1> HIDE DEF seen
<1>10. /\ Books \subseteq DOMAIN booked /\ booked.session = st.session /\ booked.model = st.model
       /\ booked.subscription = Subscribed /\ booked.records = st.records
  BY <1>5, <1>9 DEF SameBooks, Books
<1>11. "records" \in DOMAIN booked
  BY <1>2 DEF Kept, Fields, seen
<1> HIDE DEF booked
<1>12. /\ SameBooks(booked, billed)
       /\ \E r : /\ billed.records = Append(booked.records, r)
                 /\ r.line = n /\ r.uuid = uuid /\ r.toks = toks /\ r.model = model
  <2> DEFINE r == [line |-> n, uuid |-> uuid, ts |-> line.ts, model |-> model, toks |-> toks,
                   text |-> booked.text, latency |-> ReplyLatency(booked, line.ts)]
             records == Append(booked.records, r)
             turn == IF booked.turn = None THEN booked.turn
                     ELSE [booked.turn EXCEPT !.lines = Append(@, n)]
  <2>1. r.line = n /\ r.uuid = uuid /\ r.toks = toks /\ r.model = model
    OBVIOUS
  <2>2. billed = [booked EXCEPT !.records = records, !.anchor = None, !.turn = turn]
    BY DEF AppendUsage
  <2>3. SameBooks(booked, billed)
    BY <1>10, TurnsKeepBooks
  <2> HIDE DEF records, turn, billed
  <2>4. billed.records = records
    BY <1>11, <2>2
  <2> HIDE DEF r
  <2>5. QED
    BY <2>1, <2>3, <2>4 DEF records
<1> HIDE DEF billed, new
<1>13. CASE quiet
  <2>1. new = seen /\ st.prevUsage = line.total
    BY <1>1, <1>4, <1>13
  <2>2. QED
    BY <1>9, <2>1 DEF SameBooks, BooksReading, new, limited
<1>14. CASE ~quiet
  <2>1. new = billed /\ st.prevUsage # line.total
    BY <1>1, <1>4, <1>14
  <2>2. toks = Bill(line.last)
    BY <1>6, <1>14
  <2>3. /\ Books \subseteq DOMAIN billed /\ billed.session = st.session /\ billed.model = st.model
        /\ billed.subscription = Subscribed
    BY <1>10, <1>12 DEF SameBooks
  <2>4. PICK r : /\ billed.records = Append(booked.records, r)
                 /\ r.line = n /\ r.uuid = uuid /\ r.toks = toks /\ r.model = model
    BY <1>12
  <2>5. /\ billed.records = Append(st.records, r) /\ r.line = n
        /\ r.uuid = <<"s", TotalTokens(line.total)>> /\ r.toks = Bill(line.last)
        /\ st.model # None => r.model = CodexModel(st.model)
    BY <1>7, <1>8, <1>10, <2>2, <2>4
  <2>6. QED
    BY <2>1, <2>3, <2>5 DEF BooksReading, new, limited
<1>15. QED
  BY <1>13, <1>14

(* The last model that the first n lines declare.                          *)
DeclaredAmong(lines, n) == {m \in 1 .. n : lines[m].kind = "turn_context"}
LastDeclared(lines, n) ==
    IF DeclaredAmong(lines, n) = {} THEN None ELSE lines[Max(DeclaredAmong(lines, n))].model

LEMMA LastDeclaredStep ==
  ASSUME NEW lines, NEW n \in Nat
  PROVE  LastDeclared(lines, n + 1) =
           IF lines[n + 1].kind = "turn_context" THEN lines[n + 1].model ELSE LastDeclared(lines, n)
<1>1. \A m : m \in 1 .. n + 1 <=> m \in 1 .. n \/ m = n + 1
  OBVIOUS
<1>2. DeclaredAmong(lines, n + 1) =
        DeclaredAmong(lines, n) \cup (IF lines[n + 1].kind = "turn_context" THEN {n + 1} ELSE {})
  BY <1>1 DEF DeclaredAmong
<1>3. CASE lines[n + 1].kind = "turn_context"
  <2>1. n + 1 \in DeclaredAmong(lines, n + 1)
    BY <1>2, <1>3
  <2>2. DeclaredAmong(lines, n + 1) \in SUBSET (1 .. n + 1) /\ n + 1 \notin 1 .. n
    BY DEF DeclaredAmong
  <2>3. Max(DeclaredAmong(lines, n + 1)) = n + 1
    BY <2>1, <2>2, MaxOf
  <2>4. QED
    BY <1>3, <2>1, <2>3 DEF LastDeclared
<1>4. CASE lines[n + 1].kind # "turn_context"
  BY <1>2, <1>4 DEF LastDeclared
<1>5. QED
  BY <1>3, <1>4

(* No reading from a line to another.                                      *)
Quiet(lines, a, b) == \A k \in a .. b : ~IsReading(lines[k])

LineTold(line) ==
    /\ IsReading(line) => "plan" \in DOMAIN line /\ line.plan = Subscribed
    /\ line.kind = "turn_context" => line.model \in Models
    /\ line.kind = "session_meta" => line.session = "s"

(* What codex writes: the session comes first, and a reading repeats the   *)
(* one before it or adds what its request used.                            *)
HistoryOk(lines) ==
    /\ \A n \in DOMAIN lines : LineTold(lines[n])
    /\ \A n \in DOMAIN lines : lines[n].kind = "session_meta" => n = 1
    /\ \A m, n \in DOMAIN lines :
         m < n /\ IsReading(lines[m]) /\ IsReading(lines[n]) /\ Quiet(lines, m + 1, n - 1) =>
            lines[m].total \in {lines[n].total, Minus(lines[n].total, lines[n].last)}

LEMMA PrevOfReading ==
  ASSUME NEW lines, LinesOk(lines), HistoryOk(lines), NEW n \in Nat, n + 1 \in DOMAIN lines,
         IsReading(lines[n + 1])
  PROVE  LastReading(lines, n) \in
           {None, lines[n + 1].total, Minus(lines[n + 1].total, lines[n + 1].last)}
<1> DEFINE S == ReadingsAmong(lines, n)
           m == Max(S)
<1>1. CASE S = {}
  BY <1>1 DEF LastReading
<1>2. CASE S # {}
  <2>1. S \in SUBSET (1 .. n) /\ \A k \in 1 .. n : IsReading(lines[k]) => k \in S
    BY DEF ReadingsAmong, IsReading
  <2>2. m \in S /\ \A k \in S : k <= m
    BY <1>2, <2>1, MaxAmong
  <2>3. IsReading(lines[m]) /\ m \in 1 .. n
    BY <2>2 DEF ReadingsAmong, IsReading
  <2>4. LastReading(lines, n) = lines[m].total
    BY <1>2 DEF LastReading
  <2> HIDE DEF S, m
  <2>5. DOMAIN lines = 1 .. Len(lines) /\ Len(lines) \in Nat
    BY AppendSeq DEF LinesOk
  <2>6. m \in DOMAIN lines /\ m < n + 1
    BY <2>3, <2>5
  <2>7. Quiet(lines, m + 1, (n + 1) - 1)
    <3> SUFFICES ASSUME NEW k \in m + 1 .. (n + 1) - 1, IsReading(lines[k]) PROVE FALSE
      BY DEF Quiet
    <3>1. k \in 1 .. n /\ k > m
      BY <2>3
    <3>2. QED
      BY <2>1, <2>2, <2>3, <3>1
  <2>8. QED
    BY <2>3, <2>4, <2>6, <2>7 DEF HistoryOk
<1>3. QED
  BY <1>1, <1>2

(* A record has the bill of its line, and the model that was declared.     *)
BookedAt(r, lines) ==
    LET line == lines[r.line]
        model == LastDeclared(lines, r.line - 1)
    IN /\ r.uuid = <<"s", TotalTokens(line.total)>> /\ r.toks = Bill(line.last)
       /\ model # None => r.model = CodexModel(model)

(* The books of a parse after n lines.                                     *)
Booked(st, lines, n) ==
    /\ Books \subseteq DOMAIN st
    /\ st.session = IF n = 0 THEN None ELSE "s"
    /\ st.model = LastDeclared(lines, n)
    /\ st.subscription \in BOOLEAN /\ (st.subscription => Subscribed)
    /\ \A i \in DOMAIN st.records : BookedAt(st.records[i], lines)

LEMMA BookedStep ==
  ASSUME NEW lines, LinesOk(lines), HistoryOk(lines), lines[1].kind = "session_meta",
         NEW n \in Nat, n + 1 \in DOMAIN lines, NEW file,
         NEW st, Fields \cup {Prev} \subseteq DOMAIN st, st.prevUsage = LastReading(lines, n),
         IsSeq(st.records), Booked(st, lines, n),
         ~IsReading(lines[n + 1]) => Dispatch(st, file, n + 1, lines[n + 1]).records = st.records
  PROVE  Booked(Dispatch(st, file, n + 1, lines[n + 1]), lines, n + 1)
<1> DEFINE line == lines[n + 1]
           new == Dispatch(st, file, n + 1, line)
<1>1. LineOk(line) /\ LineTold(line) /\ (line.kind = "session_meta" => n + 1 = 1)
  BY DEF LinesOk, HistoryOk
<1>2. LastDeclared(lines, n + 1) =
        IF line.kind = "turn_context" THEN line.model ELSE LastDeclared(lines, n)
  BY LastDeclaredStep
<1>3. (n + 1 = 0) = FALSE
  OBVIOUS
<1>4. n = 0 => line.kind = "session_meta"
  OBVIOUS
<1>5. /\ LastReading(lines, n) \in Readings \cup {None} /\ None \notin Readings
      /\ IsReading(line) /\ LastReading(lines, n) # None =>
            AtMost(LastReading(lines, n), line.total)
      /\ IsReading(line) =>
            LastReading(lines, n) \in {None, line.total, Minus(line.total, line.last)}
  BY KindOfReading, PrevOfReading
<1> HIDE DEF line
<1>6. CASE IsReading(line)
  <2>1. new = TokenCount(RateLimit(st, n + 1, line), file, n + 1, line)
    BY <1>6 DEF Dispatch, DeclaresModel, IsReading
  <2>2. n # 0 /\ line.kind # "turn_context"
    BY <1>4, <1>6 DEF IsReading
  <2>3. st.session = "s" /\ line.plan = Subscribed
    BY <1>1, <1>6, <2>2 DEF Booked, LineTold
  <2> HIDE DEF new
  <2>4. BooksReading(st, new, n + 1, line)
    <3>1. Fields \cup {Prev} \cup Books \subseteq DOMAIN st
      BY DEF Booked
    <3>2. st.subscription \in BOOLEAN /\ (st.subscription => Subscribed)
      BY DEF Booked
    <3>3. /\ st.prevUsage \in Readings \cup {None} /\ None \notin Readings
          /\ st.prevUsage # None => AtMost(st.prevUsage, line.total)
          /\ st.prevUsage \in {None, line.total, Minus(line.total, line.last)}
      BY <1>5, <1>6
    <3>4. n + 1 \in Nat /\ LineOk(line)
      BY <1>1
    <3> HIDE DEF Prev
    <3>5. QED
      BY <1>6, <2>1, <2>3, <3>1, <3>2, <3>3, <3>4, TokenBooks
  <2>5. new.subscription \in BOOLEAN /\ (new.subscription => Subscribed)
    BY <2>4, CodexAssumption DEF Booked, BooksReading
  <2>6. \A i \in DOMAIN new.records : BookedAt(new.records[i], lines)
    <3>1. CASE st.prevUsage = line.total
      BY <2>4, <3>1 DEF Booked, BooksReading
    <3>2. CASE st.prevUsage # line.total
      <4>1. PICK r : /\ new.records = Append(st.records, r)
                     /\ r.line = n + 1 /\ r.uuid = <<"s", TotalTokens(line.total)>>
                     /\ r.toks = Bill(line.last)
                     /\ st.model # None => r.model = CodexModel(st.model)
        BY <2>4, <3>2 DEF BooksReading
      <4>2. BookedAt(r, lines)
        <5>1. (n + 1) - 1 = n /\ st.model = LastDeclared(lines, n)
          BY DEF Booked
        <5>2. LastDeclared(lines, r.line - 1) = st.model
          BY <4>1, <5>1
        <5>3. QED
          BY <4>1, <5>2 DEF BookedAt, line
      <4>3. /\ Len(st.records) \in Nat /\ DOMAIN st.records = 1 .. Len(st.records)
            /\ DOMAIN new.records = 1 .. Len(st.records) + 1
            /\ \A i \in 1 .. Len(st.records) : new.records[i] = st.records[i]
            /\ new.records[Len(st.records) + 1] = r
        BY <4>1, AppendSeq
      <4>4. \A i \in DOMAIN new.records : i \in 1 .. Len(st.records) \/ i = Len(st.records) + 1
        BY <4>3
      <4>5. QED
        BY <4>2, <4>3, <4>4 DEF Booked
    <3>3. QED
      BY <3>1, <3>2
  <2>7. Booked(new, lines, n + 1)
    BY <1>2, <1>3, <2>2, <2>3, <2>4, <2>5, <2>6 DEF Booked, BooksReading
  <2>8. QED
    BY <2>7 DEF new, line
<1>7. CASE ~IsReading(line)
  <2>1. new.records = st.records
    BY <1>7 DEF line
  <2>2. Told(st, new, line)
    BY <1>7, AsideTold DEF Booked
  <2> HIDE DEF new
  <2>3. new.session = "s"
    <3>1. CASE n = 0
      BY <1>1, <1>4, <2>2, <3>1 DEF Booked, Told, LineTold
    <3>2. CASE n # 0
      BY <1>1, <2>2, <3>2, CodexAssumption DEF Booked, Told
    <3>3. QED
      BY <3>1, <3>2
  <2>4. Booked(new, lines, n + 1)
    BY <1>2, <1>3, <2>1, <2>2, <2>3 DEF Booked, Told
  <2>5. QED
    BY <2>4 DEF new, line
<1>8. QED
  BY <1>6, <1>7

LEMMA ScanBooks ==
  ASSUME NEW lines, LinesOk(lines), HistoryOk(lines), lines[1].kind = "session_meta", NEW file
  PROVE  Booked(CodexScan(file, lines), lines, Len(lines))
<1> DEFINE N == Len(lines)
<1>1. N \in Nat /\ DOMAIN lines = 1 .. N
  BY AppendSeq DEF LinesOk
<1>2. PICK G : IsScan(G, file, lines, N)
  BY <1>1, ScanByLine
<1>3. \A m \in 0 .. N : /\ Follows(G[m], LogOfLines(lines), m)
                        /\ Prev \in DOMAIN G[m] /\ G[m].prevUsage = LastReading(lines, m)
  BY <1>2, ScanStates
<1> HIDE DEF N
<1>4. /\ G[0] = NewCodexParse(lines) /\ G[N] = CodexScan(file, lines)
      /\ \A n \in 0 .. N - 1 : G[n + 1] = Dispatch(G[n], file, n + 1, lines[n + 1])
  BY <1>2 DEF IsScan
<1> DEFINE S == {n \in Nat : n <= N => Booked(G[n], lines, n)}
<1>5. 0 \in S
  <2> DEFINE st == NewCodexParse(lines)
  <2>1. /\ Books \subseteq DOMAIN st /\ st.records = <<>> /\ st.session = None
        /\ st.model = None /\ st.subscription = FALSE
    BY DEF NewCodexParse, Books
  <2> HIDE DEF st
  <2>2. LastDeclared(lines, 0) = None
    <3>1. DeclaredAmong(lines, 0) = {}
      BY DEF DeclaredAmong
    <3>2. QED
      BY <3>1 DEF LastDeclared
  <2>3. Booked(st, lines, 0)
    <3>1. \A i \in DOMAIN st.records : BookedAt(st.records[i], lines)
      BY <2>1
    <3>2. st.subscription \in BOOLEAN /\ (st.subscription => Subscribed)
      BY <2>1
    <3>3. QED
      BY <2>1, <2>2, <3>1, <3>2 DEF Booked
  <2>4. QED
    BY <1>4, <2>3 DEF st
<1>6. ASSUME NEW n \in S
      PROVE  n + 1 \in S
  <2> SUFFICES ASSUME n + 1 <= N PROVE Booked(G[n + 1], lines, n + 1)
    OBVIOUS
  <2>1. n \in Nat /\ n \in 0 .. N - 1 /\ n \in 0 .. N /\ n + 1 \in 0 .. N /\ n + 1 \in DOMAIN lines
    BY <1>1
  <2> DEFINE st == G[n]
             new == G[n + 1]
             line == lines[n + 1]
  <2>2. Booked(st, lines, n)
    BY <1>1, <2>1
  <2>3. new = Dispatch(st, file, n + 1, line)
    BY <1>4, <2>1
  <2>4. /\ Follows(st, LogOfLines(lines), n)
        /\ Prev \in DOMAIN st /\ st.prevUsage = LastReading(lines, n)
    BY <1>3, <2>1
  <2> HIDE DEF st, S
  <2>5. Fields \cup {Prev} \subseteq DOMAIN st /\ IsSeq(st.records)
    BY <2>4 DEF Follows, Recorded
  <2>6. ~IsReading(line) => Dispatch(st, file, n + 1, line).records = st.records
    <3> SUFFICES ASSUME ~IsReading(line) PROVE Dispatch(st, file, n + 1, line).records = st.records
      OBVIOUS
    <3> DEFINE next == Dispatch(st, file, n + 1, line)
               kind == KindInLog(lines, n + 1)
    <3>1. kind \in LineKinds /\ Moves(st, next, kind, line.ts, n + 1)
      BY <2>1, <2>4, <2>5, DispatchMoves
    <3>2. kind # "usage"
      BY DEF KindInLog, IsReading
    <3> HIDE DEF next, kind
    <3>3. next.records = st.records
      BY <3>1, <3>2 DEF Moves, LineKinds, Boundary
    <3>4. QED
      BY <3>3 DEF next
  <2>7. Booked(Dispatch(st, file, n + 1, line), lines, n + 1)
    BY <2>1, <2>2, <2>4, <2>5, <2>6, BookedStep
  <2>8. QED
    BY <2>3, <2>7 DEF st
<1>7. S \in SUBSET Nat
  OBVIOUS
<1> HIDE DEF S
<1>8. S = Nat
  BY <1>5, <1>6, <1>7, Induct
<1>9. Booked(G[N], lines, N)
  BY <1>1, <1>8 DEF S
<1>10. QED
  BY <1>4, <1>9 DEF N

-----------------------------------------------------------------------------
(* The journals of a thread.                                               *)

JournalOk(file) ==
    /\ LinesOk(journal[file])
    /\ counter[file] \in Readings
    /\ \A n \in DOMAIN journal[file] :
          IsReading(journal[file][n]) => AtMost(journal[file][n].total, counter[file])
    /\ parsed[file] = CodexParse(file, journal[file])

CodexInv ==
    /\ DOMAIN journal = Rollouts /\ DOMAIN parsed = Rollouts /\ DOMAIN counter = Rollouts
    /\ replayed \in Nat
    /\ \A file \in Rollouts : JournalOk(file)

(* A line more that is not a reading, or one that is not less than the     *)
(* others.                                                                 *)
LEMMA LinesOkAppend ==
  ASSUME NEW lines, LinesOk(lines), NEW line, LineOk(line),
         IsReading(line) => \A n \in DOMAIN lines :
                               IsReading(lines[n]) => AtMost(lines[n].total, line.total)
  PROVE  LinesOk(Append(lines, line))
<1> DEFINE new == Append(lines, line)
           N == Len(lines)
<1>1. /\ N \in Nat /\ DOMAIN lines = 1 .. N /\ IsSeq(new) /\ DOMAIN new = 1 .. N + 1
      /\ \A i \in 1 .. N : new[i] = lines[i]
      /\ new[N + 1] = line
  BY AppendSeq DEF LinesOk
<1> HIDE DEF new, N
<1>2. \A n \in DOMAIN new : n \in 1 .. N \/ n = N + 1
  BY <1>1
<1>3. \A n \in DOMAIN new : LineOk(new[n])
  BY <1>1, <1>2 DEF LinesOk
<1>4. ASSUME NEW m \in DOMAIN new, NEW n \in DOMAIN new, m < n,
             IsReading(new[m]), IsReading(new[n])
      PROVE  AtMost(new[m].total, new[n].total)
  <2>1. m \in 1 .. N
    BY <1>1, <1>2, <1>4
  <2>2. CASE n \in 1 .. N
    BY <1>1, <1>4, <2>1, <2>2 DEF LinesOk
  <2>3. CASE n = N + 1
    BY <1>1, <1>4, <2>1, <2>3
  <2>4. QED
    BY <1>2, <2>2, <2>3
<1>5. QED
  BY <1>1, <1>3, <1>4 DEF LinesOk, new

(* A fork's history: a line that tells nothing, and the end of another     *)
(* journal.                                                                *)
LEMMA ReplayLines ==
  ASSUME NEW lines, IsSeq(lines), NEW k \in 2 .. Len(lines) + 1, NEW head
  PROVE  LET replay == SubSeq(lines, k, Len(lines))
             new == <<head>> \o replay
             M == Len(lines) - k + 2
         IN /\ Len(replay) \in Nat /\ IsSeq(new)
            /\ M \in Nat /\ Len(new) = M /\ DOMAIN new = 1 .. M /\ new[1] = head
            /\ \A n \in DOMAIN new : n = 1 \/ n \in 2 .. M
            /\ \A n \in 2 .. M : k + n - 2 \in DOMAIN lines /\ new[n] = lines[k + n - 2]
<1> DEFINE N == Len(lines)
           replay == SubSeq(lines, k, N)
           new == <<head>> \o replay
           M == N - k + 2
<1>1. PICK T : lines \in Seq(T)
  BY DEF IsSeq
<1>2. N \in Nat /\ DOMAIN lines = 1 .. N /\ k \in Nat /\ M \in Nat /\ k - 2 \in Nat
  BY <1>1
<1>3. /\ replay \in Seq(T) /\ Len(replay) = N - k + 1
      /\ \A i \in 1 .. N - k + 1 : replay[i] = lines[k + i - 1]
  <2>1. replay = [i \in 1 .. N - k + 1 |-> lines[k + i - 1]]
    BY <1>1
  <2>2. \A i \in 1 .. N - k + 1 : k + i - 1 \in 1 .. N
    BY <1>2
  <2>3. \A i \in 1 .. N - k + 1 : lines[k + i - 1] \in T
    BY <1>1, <1>2, <2>2
  <2>4. N - k + 1 \in Nat
    BY <1>2
  <2> HIDE DEF replay, N
  <2>5. replay \in [1 .. N - k + 1 -> T]
    BY <2>1, <2>3
  <2>6. replay \in Seq(T) /\ Len(replay) = N - k + 1
    BY <2>4, <2>5
  <2>7. QED
    BY <2>1, <2>6
<1> HIDE DEF replay
<1>4. T \subseteq T \cup {head} /\ replay \in Seq(T \cup {head})
  BY <1>3, SeqMonotonic
<1>5. <<head>> \in Seq(T \cup {head}) /\ Len(<<head>>) = 1
  OBVIOUS
<1>6. /\ new \in Seq(T \cup {head}) /\ DOMAIN new = 1 .. M /\ new[1] = head
      /\ \A i \in 2 .. M : new[i] = lines[k + i - 2]
  <2> DEFINE U == T \cup {head}
             one == <<head>>
  <2>1. one \in Seq(U) /\ replay \in Seq(U) /\ Len(one) = 1 /\ one[1] = head
    BY <1>4, <1>5
  <2> HIDE DEF U, one
  <2>2. /\ one \o replay \in Seq(U) /\ Len(one \o replay) = 1 + Len(replay)
        /\ \A i \in 1 .. 1 + Len(replay) :
             (one \o replay)[i] = IF i <= 1 THEN one[i] ELSE replay[i - 1]
    <3>1. /\ one \o replay \in Seq(U) /\ Len(one \o replay) = Len(one) + Len(replay)
          /\ \A i \in 1 .. Len(one) + Len(replay) :
               (one \o replay)[i] = IF i <= Len(one) THEN one[i] ELSE replay[i - Len(one)]
      BY <2>1, ConcatProperties
    <3>2. QED
      BY <2>1, <3>1
  <2>3. new = one \o replay /\ 1 + Len(replay) = M /\ DOMAIN new = 1 .. M
    BY <1>2, <1>3, <2>2 DEF one
  <2> HIDE DEF new
  <2>4. \A i \in 2 .. M : new[i] = lines[k + i - 2]
    <3> SUFFICES ASSUME NEW i \in 2 .. M PROVE new[i] = lines[k + i - 2]
      OBVIOUS
    <3>1. i \in 1 .. 1 + Len(replay) /\ ~(i <= 1)
      BY <1>2, <2>3
    <3>2. new[i] = replay[i - 1]
      BY <2>2, <2>3, <3>1
    <3>3. i - 1 \in 1 .. N - k + 1 /\ k + (i - 1) - 1 = k + i - 2
      BY <1>2
    <3>4. QED
      BY <1>3, <3>2, <3>3
  <2>5. 1 \in 1 .. 1 + Len(replay)
    BY <1>2, <2>3
  <2>6. QED
    BY <2>1, <2>2, <2>3, <2>4, <2>5 DEF U
<1>7. Len(replay) \in Nat /\ IsSeq(new)
  BY <1>3, <1>6 DEF IsSeq
<1> HIDE DEF new
<1>8. \A n \in 2 .. M : k + n - 2 \in DOMAIN lines
  BY <1>2
<1>9. \A n \in DOMAIN new : n = 1 \/ n \in 2 .. M
  BY <1>6
<1>10. Len(new) = M
  BY <1>2, <1>6, LenProperties
<1>11. QED
  BY <1>2, <1>6, <1>7, <1>8, <1>9, <1>10 DEF new, replay, M, N

LEMMA LinesOkReplay ==
  ASSUME NEW lines, LinesOk(lines), NEW k \in 2 .. Len(lines) + 1,
         NEW head, LineOk(head), ~IsReading(head)
  PROVE  LET new == <<head>> \o SubSeq(lines, k, Len(lines))
         IN /\ LinesOk(new)
            /\ \A n \in DOMAIN new : new[n] = head \/ \E m \in DOMAIN lines : new[n] = lines[m]
<1> DEFINE new == <<head>> \o SubSeq(lines, k, Len(lines))
           M == Len(lines) - k + 2
<1>1. Len(lines) \in Nat /\ k \in Nat /\ IsSeq(lines)
  BY AppendSeq DEF LinesOk
<1>2. /\ IsSeq(new) /\ DOMAIN new = 1 .. M /\ M \in Nat /\ new[1] = head
      /\ \A n \in DOMAIN new : n = 1 \/ n \in 2 .. M
      /\ \A n \in 2 .. M : k + n - 2 \in DOMAIN lines /\ new[n] = lines[k + n - 2]
  BY <1>1, ReplayLines
<1> HIDE DEF new, M
<1>3. \A n \in DOMAIN new : new[n] = head \/ \E m \in DOMAIN lines : new[n] = lines[m]
  BY <1>2
<1>4. \A n \in DOMAIN new : LineOk(new[n])
  BY <1>3 DEF LinesOk
<1>5. ASSUME NEW m \in DOMAIN new, NEW n \in DOMAIN new, m < n,
             IsReading(new[m]), IsReading(new[n])
      PROVE  AtMost(new[m].total, new[n].total)
  <2>1. m \in 2 .. M /\ n \in 2 .. M
    BY <1>2, <1>5
  <2>2. k + m - 2 < k + n - 2
    BY <1>1, <1>2, <1>5, <2>1
  <2>3. QED
    BY <1>2, <1>5, <2>1, <2>2 DEF LinesOk
<1>6. LinesOk(new)
  BY <1>2, <1>4, <1>5 DEF LinesOk
<1>7. QED
  BY <1>3, <1>6 DEF new

LEMMA JournalGrows ==
  ASSUME CodexInv, NEW file \in Rollouts, NEW lines, Journal(file, lines), LinesOk(lines),
         NEW count \in Readings, DOMAIN counter' = Rollouts, counter'[file] = count,
         \A f \in Rollouts \ {file} : counter'[f] = counter[f],
         \A n \in DOMAIN lines : IsReading(lines[n]) => AtMost(lines[n].total, count),
         replayed' \in Nat
  PROVE  CodexInv'
<1>1. /\ DOMAIN journal' = Rollouts /\ DOMAIN parsed' = Rollouts
      /\ journal'[file] = lines /\ parsed'[file] = CodexParse(file, lines)
      /\ \A f \in Rollouts \ {file} : journal'[f] = journal[f] /\ parsed'[f] = parsed[f]
  BY DEF Journal, CodexInv
<1>2. JournalOk(file)'
  BY <1>1 DEF JournalOk
<1>3. ASSUME NEW f \in Rollouts \ {file}
      PROVE  JournalOk(f)'
  <2>1. JournalOk(f)
    BY DEF CodexInv
  <2>2. journal'[f] = journal[f] /\ parsed'[f] = parsed[f] /\ counter'[f] = counter[f]
    BY <1>1
  <2>3. QED
    BY <2>1, <2>2 DEF JournalOk
<1>4. QED
  BY <1>1, <1>2, <1>3 DEF CodexInv

(* A line without a reading, or the last own reading again.                *)
LEMMA WriteKeeps ==
  ASSUME CodexInv, NEW file \in Rollouts, NEW line, Write(file, line),
         "kind" \in DOMAIN line,
         IsReading(line) =>
            /\ {"total", "last", "limit"} \subseteq DOMAIN line
            /\ line.total \in Readings /\ line.last \in Readings /\ line.last["input"] > 0,
         DOMAIN counter' = Rollouts, \A f \in Rollouts \ {file} : counter'[f] = counter[f],
         counter'[file] \in Readings, AtMost(counter[file], counter'[file]),
         IsReading(line) => /\ AtMost(line.total, counter'[file])
                            /\ \A n \in DOMAIN journal[file] :
                                  IsReading(journal[file][n]) =>
                                     AtMost(journal[file][n].total, line.total)
  PROVE  CodexInv'
<1> DEFINE stamped == [ts |-> Now(file)] ++ line
           lines == journal[file]
           new == Append(lines, stamped)
           N == Len(lines)
<1>1. Journal(file, new) /\ replayed' = replayed
  BY DEF Write
<1>2. JournalOk(file)
  BY DEF CodexInv
<1>3. /\ N \in Nat /\ DOMAIN lines = 1 .. N /\ DOMAIN new = 1 .. N + 1
      /\ \A i \in 1 .. N : new[i] = lines[i]
      /\ new[N + 1] = stamped
  BY <1>2, AppendSeq DEF JournalOk, LinesOk
<1>4. Now(file) \in Nat
  BY <1>3, CodexAssumption DEF Now
<1> HIDE DEF new, lines, N
<1>5. LineOk(stamped) /\ (IsReading(stamped) <=> IsReading(line))
      /\ (IsReading(line) => stamped.total = line.total)
  <2>1. \A x \in DOMAIN line :
           x \in DOMAIN stamped /\ (x # "ts" => stamped[x] = line[x])
    BY DEF ++
  <2>2. "ts" \in DOMAIN stamped /\ stamped.ts \in Nat
    BY <1>4 DEF ++
  <2> HIDE DEF stamped
  <2>3. QED
    BY <2>1, <2>2 DEF LineOk, IsReading
<1> HIDE DEF stamped
<1>6. LinesOk(new)
  BY <1>2, <1>5, LinesOkAppend DEF JournalOk, new, lines
<1>7. ASSUME NEW n \in DOMAIN new, IsReading(new[n])
      PROVE  AtMost(new[n].total, counter'[file])
  <2>1. CASE n \in 1 .. N
    <3>1. new[n] = lines[n] /\ n \in DOMAIN lines
      BY <1>3, <2>1
    <3>2. AtMost(lines[n].total, counter[file]) /\ lines[n].total \in Readings
      BY <1>2, <1>7, <3>1 DEF JournalOk, LinesOk, LineOk, lines
    <3>3. counter[file] \in Readings
      BY <1>2 DEF JournalOk
    <3>4. QED
      BY <3>1, <3>2, <3>3 DEF AtMost, Readings
  <2>2. CASE n = N + 1
    BY <1>3, <1>5, <1>7, <2>2
  <2>3. QED
    BY <1>3, <2>1, <2>2
<1>8. QED
  BY <1>1, <1>6, <1>7, JournalGrows DEF CodexInv

(* A mark or a piece of work that is no reading.                           *)
LEMMA AsideKeeps ==
  ASSUME CodexInv, NEW file \in Rollouts, NEW line, Mark(file, line) \/ Work(file, line),
         "kind" \in DOMAIN line, ~IsReading(line)
  PROVE  CodexInv'
<1>1. Write(file, line) /\ counter' = counter
  BY DEF Mark, Work
<1>2. counter[file] \in Readings /\ AtMost(counter[file], counter[file])
  BY DEF CodexInv, JournalOk, AtMost, Readings
<1>3. QED
  BY <1>1, <1>2, WriteKeeps DEF CodexInv

LEMMA OneLineOk ==
  ASSUME NEW line, LineOk(line), ~IsReading(line)
  PROVE  LinesOk(<<line>>)
<1> DEFINE one == <<line>>
<1>1. one \in Seq({line}) /\ DOMAIN one = {1} /\ one[1] = line
  OBVIOUS
<1> HIDE DEF one
<1>2. LinesOk(one)
  BY <1>1 DEF LinesOk, IsSeq
<1>3. QED
  BY <1>2 DEF one

(* A rollout's last own line of a kind is the last one there is.           *)
LEMMA LastOwnLine ==
  ASSUME CodexInv, NEW file \in Rollouts, NEW kinds, LastOwn(file, kinds) # 0
  PROVE  LET n == LastOwn(file, kinds)
             lines == journal[file]
         IN /\ n \in DOMAIN lines /\ lines[n].kind \in kinds
            /\ \A m \in DOMAIN lines : lines[m].kind \in kinds => m <= n
<1> DEFINE lines == journal[file]
           N == Len(lines)
           first == IF file = "fork" THEN replayed + 1 ELSE 1
           own == {n \in OwnLines(file) : lines[n].kind \in kinds}
           n == LastOwn(file, kinds)
<1>1. N \in Nat /\ DOMAIN lines = 1 .. N
  BY AppendSeq DEF CodexInv, JournalOk, LinesOk
<1>2. first \in Nat /\ first >= 1 /\ OwnLines(file) = first .. N
  BY DEF CodexInv, OwnLines
<1>3. n = IF own = {} THEN 0 ELSE Max(own)
  BY DEF LastOwn
<1>4. own # {} /\ n = Max(own)
  BY <1>3
<1> HIDE DEF n, first, lines, N
<1>5. own \in SUBSET (1 .. N)
  BY <1>1, <1>2
<1>6. n \in own /\ \A m \in own : m <= n
  <2> HIDE DEF own
  <2>1. QED
    BY <1>1, <1>4, <1>5, MaxAmong
<1>7. n \in first .. N /\ lines[n].kind \in kinds
  BY <1>2, <1>6
<1>8. ASSUME NEW m \in DOMAIN lines, lines[m].kind \in kinds, n < m
      PROVE  FALSE
  <2>1. m \in first .. N
    BY <1>1, <1>2, <1>7, <1>8
  <2>2. m \in own
    BY <1>2, <1>8, <2>1
  <2>3. QED
    BY <1>1, <1>2, <1>6, <1>7, <1>8, <2>1, <2>2
<1>9. n \in DOMAIN lines /\ n \in Nat
  BY <1>1, <1>2, <1>7
<1>10. \A m \in DOMAIN lines : lines[m].kind \in kinds => m <= n
  BY <1>1, <1>8, <1>9
<1>11. QED
  BY <1>7, <1>9, <1>10 DEF n, lines

(* The reading that codex writes again is the last one there is.           *)
LEMMA LastOwnReading ==
  ASSUME CodexInv, NEW file \in Rollouts, LastOwn(file, {"token_count"}) # 0
  PROVE  LET n == LastOwn(file, {"token_count"})
             lines == journal[file]
         IN /\ n \in DOMAIN lines /\ IsReading(lines[n])
            /\ \A m \in DOMAIN lines : IsReading(lines[m]) => m <= n
<1>1. \A line : line.kind \in {"token_count"} <=> IsReading(line)
  BY DEF IsReading
<1>2. QED
  BY <1>1, LastOwnLine

LEMMA RequestsAreReadings ==
  \A usage \in Requests : usage \in Readings /\ usage["input"] > 0
<1> SUFFICES ASSUME NEW usage \in Requests PROVE usage \in Readings /\ usage["input"] > 0
  OBVIOUS
<1>1. UsageKeys = {"input", "cached", "write", "output"}
  BY DEF UsageKeys
<1>2. /\ usage = [k \in UsageKeys |-> usage[k]]
      /\ \A k \in UsageKeys : usage[k] \in Nat
      /\ usage["input"] > 0
  <2>1. CASE usage = [input |-> 2, cached |-> 1, write |-> 0, output |-> 1]
    BY <1>1, <2>1
  <2>2. CASE usage = [input |-> 4, cached |-> 1, write |-> 1, output |-> 1]
    BY <1>1, <2>2
  <2>3. QED
    BY <2>1, <2>2 DEF Requests
<1>3. QED
  BY <1>2 DEF Readings

LEMMA CodexStep ==
  ASSUME CodexInv, CodexNext
  PROVE  CodexInv'
<1>1. CASE Begin
  <2>1. PICK head \in {"session_meta", "world_state"} :
          Journal("parent", <<[kind |-> head, session |-> "s", ts |-> 1]>>)
    BY <1>1 DEF Begin
  <2> DEFINE line == [kind |-> head, session |-> "s", ts |-> 1]
             lines == <<line>>
  <2>2. LineOk(line) /\ ~IsReading(line)
    BY DEF LineOk, IsReading
  <2> HIDE DEF line
  <2>3. LinesOk(lines) /\ DOMAIN lines = {1} /\ lines[1] = line
    BY <2>2, OneLineOk
  <2>4. Journal("parent", lines)
    BY <2>1 DEF line
  <2>5. counter' = counter /\ replayed' = replayed
    BY <1>1 DEF Begin
  <2>6. "parent" \in Rollouts
    BY DEF Rollouts
  <2> HIDE DEF lines
  <2>7. counter["parent"] \in Readings /\ DOMAIN counter = Rollouts /\ replayed \in Nat
    BY <2>6 DEF CodexInv, JournalOk
  <2>8. QED
    BY <2>2, <2>3, <2>4, <2>5, <2>6, <2>7, JournalGrows
<1>2. CASE Fork
  <2> DEFINE old == journal["parent"]
             head == [kind |-> "session_meta", session |-> "s", ts |-> 1]
  <2>1. PICK k \in 2 .. Len(old) + 1 :
          /\ Journal("fork", <<head>> \o SubSeq(old, k, Len(old)))
          /\ replayed' = Len(SubSeq(old, k, Len(old))) + 1
    BY <1>2 DEF Fork
  <2> DEFINE lines == <<head>> \o SubSeq(old, k, Len(old))
  <2>2. counter' = [counter EXCEPT !["fork"] = counter["parent"]]
    BY <1>2 DEF Fork
  <2>3. LineOk(head) /\ ~IsReading(head)
    BY DEF LineOk, IsReading
  <2>4. "parent" \in Rollouts /\ "fork" \in Rollouts
    BY DEF Rollouts
  <2>5. JournalOk("parent") /\ DOMAIN counter = Rollouts
    BY <2>4 DEF CodexInv
  <2> HIDE DEF head
  <2>6. /\ Len(SubSeq(old, k, Len(old))) \in Nat /\ LinesOk(lines)
        /\ \A n \in DOMAIN lines : lines[n] = head \/ \E m \in DOMAIN old : lines[n] = old[m]
    <3>1. LinesOk(old) /\ IsSeq(old)
      BY <2>5 DEF JournalOk, LinesOk
    <3>2. Len(SubSeq(old, k, Len(old))) \in Nat
      BY <3>1, ReplayLines
    <3>3. QED
      BY <2>3, <3>1, <3>2, LinesOkReplay
  <2>7. Journal("fork", lines) /\ replayed' \in Nat
    BY <2>1, <2>6
  <2> HIDE DEF lines
  <2>8. \A n \in DOMAIN lines : IsReading(lines[n]) => AtMost(lines[n].total, counter["parent"])
    BY <2>3, <2>5, <2>6 DEF JournalOk
  <2>9. /\ DOMAIN counter' = Rollouts /\ counter'["fork"] = counter["parent"]
        /\ \A f \in Rollouts \ {"fork"} : counter'[f] = counter[f]
        /\ counter["parent"] \in Readings
    BY <2>2, <2>4, <2>5 DEF JournalOk
  <2>10. QED
    BY <2>4, <2>6, <2>7, <2>8, <2>9, JournalGrows
<1>3. ASSUME NEW file \in Rollouts, Request(file)
      PROVE  CodexInv'
  <2>1. PICK usage \in Requests :
          /\ Write(file, Reading(Plus(counter[file], usage), usage))
          /\ counter' = [counter EXCEPT ![file] = Plus(counter[file], usage)]
    BY <1>3 DEF Request
  <2> DEFINE total == Plus(counter[file], usage)
             line == Reading(total, usage)
  <2>2. usage \in Readings /\ usage["input"] > 0
    BY RequestsAreReadings
  <2>3. JournalOk(file) /\ DOMAIN counter = Rollouts /\ counter[file] \in Readings
    BY DEF CodexInv, JournalOk
  <2>4. total \in Readings /\ AtMost(counter[file], total)
    BY <2>2, <2>3 DEF Plus, Readings, AtMost
  <2> HIDE DEF total
  <2>5. /\ line.kind = "token_count" /\ line.total = total /\ line.last = usage
        /\ DOMAIN line = {"kind", "total", "last", "plan", "limit"}
    BY DEF Reading
  <2>6. Write(file, line) /\ counter' = [counter EXCEPT ![file] = total]
    BY <2>1 DEF total
  <2> HIDE DEF line
  <2>7. /\ DOMAIN counter' = Rollouts /\ counter'[file] = total
        /\ \A f \in Rollouts \ {file} : counter'[f] = counter[f]
    BY <2>3, <2>6
  <2>8. \A n \in DOMAIN journal[file] : IsReading(journal[file][n]) =>
           AtMost(journal[file][n].total, total)
    <3> SUFFICES ASSUME NEW n \in DOMAIN journal[file], IsReading(journal[file][n])
                 PROVE  AtMost(journal[file][n].total, total)
      OBVIOUS
    <3>1. /\ AtMost(journal[file][n].total, counter[file])
          /\ journal[file][n].total \in Readings
      BY <2>3 DEF JournalOk, LinesOk, LineOk
    <3>2. QED
      BY <2>3, <2>4, <3>1 DEF AtMost, Readings
  <2>9. AtMost(total, total)
    BY <2>4 DEF AtMost, Readings
  <2>10. QED
    BY <2>2, <2>4, <2>5, <2>6, <2>7, <2>8, <2>9, WriteKeeps
<1>4. ASSUME NEW file \in Rollouts, Repeat(file)
      PROVE  CodexInv'
  <2> DEFINE n == LastOwn(file, {"token_count"})
             lines == journal[file]
             line == [lines[n] EXCEPT !.limit = "primary"]
  <2>1. n # 0 /\ Write(file, line) /\ counter' = counter
    BY <1>4 DEF Repeat, Mark
  <2>2. /\ n \in DOMAIN lines /\ IsReading(lines[n])
        /\ \A m \in DOMAIN lines : IsReading(lines[m]) => m <= n
    BY <2>1, LastOwnReading
  <2>3. JournalOk(file) /\ DOMAIN counter = Rollouts /\ counter[file] \in Readings
    BY DEF CodexInv, JournalOk
  <2> HIDE DEF n, lines
  <2>4. LineOk(lines[n]) /\ AtMost(lines[n].total, counter[file])
    BY <2>2, <2>3 DEF JournalOk, LinesOk, lines
  <2>5. /\ DOMAIN line = DOMAIN lines[n] /\ line.kind = lines[n].kind
        /\ line.total = lines[n].total /\ line.last = lines[n].last
    BY <2>2, <2>4 DEF LineOk
  <2> HIDE DEF line
  <2>6. \A m \in DOMAIN lines : IsReading(lines[m]) => AtMost(lines[m].total, line.total)
    <3> SUFFICES ASSUME NEW m \in DOMAIN lines, IsReading(lines[m])
                 PROVE  AtMost(lines[m].total, lines[n].total)
      BY <2>5
    <3>1. LinesOk(lines) /\ m \in Nat /\ n \in Nat
      BY <2>2, <2>3, AppendSeq DEF JournalOk, LinesOk, lines
    <3>2. m < n \/ m = n
      BY <2>2, <3>1
    <3>3. AtMost(lines[n].total, lines[n].total)
      BY <2>2, <2>4 DEF LineOk, AtMost, Readings
    <3>4. QED
      BY <2>2, <3>1, <3>2, <3>3 DEF LinesOk
  <2>7. AtMost(counter[file], counter[file])
    BY <2>3 DEF AtMost, Readings
  <2>8. /\ "kind" \in DOMAIN line
        /\ {"total", "last", "limit"} \subseteq DOMAIN line
        /\ line.total \in Readings /\ line.last \in Readings /\ line.last["input"] > 0
        /\ AtMost(line.total, counter[file])
    BY <2>2, <2>4, <2>5 DEF LineOk
  <2>9. QED
    BY <2>1, <2>3, <2>6, <2>7, <2>8, WriteKeeps DEF lines
<1>5. ASSUME NEW file \in Rollouts, Declare(file)
      PROVE  CodexInv'
  <2>1. PICK model \in Models \ {DeclaredBy(file)} :
          Mark(file, [kind |-> "turn_context", model |-> model])
    BY <1>5 DEF Declare
  <2>2. QED
    BY <2>1, AsideKeeps DEF IsReading
<1>6. ASSUME NEW file \in Rollouts,
             TaskStarted(file) \/ TaskComplete(file) \/ AgentMessage(file)
      PROVE  CodexInv'
  <2>1. PICK kind \in {"task_started", "task_complete", "agent_message"} :
          Mark(file, [kind |-> kind])
    BY <1>6 DEF TaskStarted, TaskComplete, AgentMessage
  <2>2. QED
    BY <2>1, AsideKeeps DEF IsReading
<1>7. ASSUME NEW file \in Rollouts, Call(file)
      PROVE  CodexInv'
  <2> DEFINE unused == Calls \ UNION {{l.call : l \in CallLines(f)} : f \in Rollouts}
             Line(patches) == [kind |-> "tool_call", call |-> CHOOSE c \in unused : TRUE,
                               turn |-> TurnOf(file), patches |-> patches, lines |-> 2]
  <2>1. PICK patches \in BOOLEAN : Work(file, Line(patches))
    BY <1>7 DEF Call
  <2>2. /\ DOMAIN Line(patches) = {"kind", "call", "turn", "patches", "lines"}
        /\ Line(patches).kind = "tool_call"
    OBVIOUS
  <2> HIDE DEF Line
  <2>3. QED
    BY <2>1, <2>2, AsideKeeps DEF IsReading
<1>8. ASSUME NEW file \in Rollouts, Output(file)
      PROVE  CodexInv'
  <2> DEFINE Line(call, failed) == [kind |-> "tool_output", call |-> call, failed |-> failed]
  <2>1. PICK call \in {l.call : l \in CallLines(file)} \ {l.call : l \in OutputLines(file)},
             failed \in BOOLEAN : Work(file, Line(call, failed))
    BY <1>8 DEF Output
  <2>2. /\ DOMAIN Line(call, failed) = {"kind", "call", "failed"}
        /\ Line(call, failed).kind = "tool_output"
    OBVIOUS
  <2> HIDE DEF Line
  <2>3. QED
    BY <2>1, <2>2, AsideKeeps DEF IsReading
<1>9. ASSUME NEW file \in Rollouts, Applied(file)
      PROVE  CodexInv'
  <2> DEFINE Line(turn, ok) == [kind |-> "patch_apply_end", turn |-> turn, ok |-> ok, lines |-> 1]
  <2>1. PICK turn \in {TurnOf(file), <<"subagent", 0>>} \ {None}, ok \in BOOLEAN :
          Work(file, Line(turn, ok))
    BY <1>9 DEF Applied
  <2>2. /\ DOMAIN Line(turn, ok) = {"kind", "turn", "ok", "lines"}
        /\ Line(turn, ok).kind = "patch_apply_end"
    OBVIOUS
  <2> HIDE DEF Line
  <2>3. QED
    BY <2>1, <2>2, AsideKeeps DEF IsReading
<1>10. QED
  BY <1>1, <1>2, <1>3, <1>4, <1>5, <1>6, <1>7, <1>8, <1>9 DEF CodexNext

-----------------------------------------------------------------------------
(* What codex asked for.                                                   *)

(* Readings are of requests, and the last one is what codex counts from.   *)
Accounted(lines, requests, count) ==
    \A n \in DOMAIN lines : IsReading(lines[n]) =>
        /\ \E q \in requests : q.total = lines[n].total /\ q.usage = lines[n].last
        /\ Quiet(lines, n + 1, Len(lines)) => lines[n].total = count

(* A request's line has its reading for the first time, under its model.   *)
AskedAt(lines, q) ==
    /\ q.line \in DOMAIN lines /\ IsReading(lines[q.line])
    /\ lines[q.line].total = q.total /\ lines[q.line].last = q.usage
    /\ \A m \in 1 .. q.line - 1 : IsReading(lines[m]) => lines[m].total # q.total
    /\ q.model \in Models /\ LastDeclared(lines, q.line - 1) = q.model

BillInv ==
    /\ \A file \in Rollouts :
          HistoryOk(journal[file]) /\ Accounted(journal[file], asked, counter[file])
    /\ journal["fork"] # <<>> => journal["fork"][1].kind = "session_meta"
    /\ \A q \in asked : q.file \in Rollouts /\ AskedAt(journal[q.file], q)

(* One line more than lines.                                               *)
Longer(lines, new, line) ==
    /\ Len(lines) \in Nat /\ DOMAIN lines = 1 .. Len(lines)
    /\ Len(new) = Len(lines) + 1 /\ DOMAIN new = 1 .. Len(lines) + 1
    /\ \A i \in 1 .. Len(lines) : new[i] = lines[i]
    /\ new[Len(lines) + 1] = line

LEMMA AppendLonger ==
  ASSUME NEW lines, IsSeq(lines), NEW line
  PROVE  Longer(lines, Append(lines, line), line)
<1> DEFINE new == Append(lines, line)
<1>1. /\ Len(lines) \in Nat /\ DOMAIN lines = 1 .. Len(lines)
      /\ IsSeq(new) /\ DOMAIN new = 1 .. Len(lines) + 1
      /\ \A i \in 1 .. Len(lines) : new[i] = lines[i]
      /\ new[Len(lines) + 1] = line
  BY AppendSeq
<1> HIDE DEF new
<1>2. Len(new) = Len(lines) + 1
  <2>1. PICK T : new \in Seq(T)
    BY <1>1 DEF IsSeq
  <2>2. Len(new) \in Nat /\ DOMAIN new = 1 .. Len(new)
    BY <2>1
  <2>3. QED
    BY <1>1, <2>2
<1>3. QED
  BY <1>1, <1>2 DEF Longer, new

(* The last reading of a journal, as the next line finds it.               *)
LastIs(lines, line) ==
    \A m \in DOMAIN lines : IsReading(lines[m]) /\ Quiet(lines, m + 1, Len(lines)) =>
        lines[m].total \in {line.total, Minus(line.total, line.last)}

LEMMA QuietLonger ==
  ASSUME NEW lines, NEW new, NEW line, Longer(lines, new, line),
         NEW a \in Nat \ {0}, NEW b \in 0 .. Len(lines)
  PROVE  Quiet(new, a, b) <=> Quiet(lines, a, b)
<1>1. \A k \in a .. b : k \in 1 .. Len(lines)
  BY DEF Longer
<1>2. \A k \in a .. b : new[k] = lines[k]
  BY <1>1 DEF Longer
<1>3. QED
  BY <1>2 DEF Quiet

LEMMA HistoryLonger ==
  ASSUME NEW lines, NEW new, NEW line, Longer(lines, new, line), HistoryOk(lines), LineTold(line),
         line.kind # "session_meta", IsReading(line) => LastIs(lines, line)
  PROVE  HistoryOk(new)
<1> DEFINE N == Len(lines)
<1>1. /\ N \in Nat /\ DOMAIN lines = 1 .. N /\ DOMAIN new = 1 .. N + 1
      /\ \A i \in 1 .. N : new[i] = lines[i]
      /\ new[N + 1] = line
  BY DEF Longer
<1>2. \A a \in Nat \ {0}, b \in 0 .. N : Quiet(new, a, b) <=> Quiet(lines, a, b)
  BY QuietLonger
<1> HIDE DEF N
<1>3. \A n \in DOMAIN new : n \in 1 .. N \/ n = N + 1
  BY <1>1
<1>4. \A n \in DOMAIN new : LineTold(new[n]) /\ (new[n].kind = "session_meta" => n = 1)
  BY <1>1, <1>3 DEF HistoryOk
<1>5. ASSUME NEW m \in DOMAIN new, NEW n \in DOMAIN new, m < n,
             IsReading(new[m]), IsReading(new[n]), Quiet(new, m + 1, n - 1)
      PROVE  new[m].total \in {new[n].total, Minus(new[n].total, new[n].last)}
  <2>1. m \in 1 .. N /\ m + 1 \in Nat \ {0} /\ n - 1 \in 0 .. N
    BY <1>1, <1>5
  <2>2. new[m] = lines[m] /\ Quiet(lines, m + 1, n - 1)
    BY <1>1, <1>2, <1>5, <2>1
  <2>3. CASE n \in 1 .. N
    BY <1>1, <1>5, <2>1, <2>2, <2>3 DEF HistoryOk
  <2>4. CASE n = N + 1
    <3>1. n - 1 = N
      BY <1>1, <2>4
    <3>2. QED
      BY <1>1, <1>5, <2>1, <2>2, <2>4, <3>1 DEF LastIs, N
  <2>5. QED
    BY <1>3, <2>3, <2>4
<1>6. QED
  BY <1>4, <1>5 DEF HistoryOk

LEMMA AccountedLonger ==
  ASSUME NEW lines, NEW new, NEW line, Longer(lines, new, line), NEW requests, NEW count,
         Accounted(lines, requests, count), NEW more, requests \subseteq more, NEW now,
         ~IsReading(line) => now = count,
         IsReading(line) => /\ line.total = now
                            /\ \E q \in more : q.total = line.total /\ q.usage = line.last
  PROVE  Accounted(new, more, now)
<1> DEFINE N == Len(lines)
<1>1. /\ N \in Nat /\ DOMAIN lines = 1 .. N /\ DOMAIN new = 1 .. N + 1 /\ Len(new) = N + 1
      /\ \A i \in 1 .. N : new[i] = lines[i]
      /\ new[N + 1] = line
  BY DEF Longer
<1>2. \A a \in Nat \ {0}, b \in 0 .. N : Quiet(new, a, b) <=> Quiet(lines, a, b)
  BY QuietLonger
<1> HIDE DEF N
<1> SUFFICES ASSUME NEW n \in DOMAIN new, IsReading(new[n])
             PROVE  /\ \E q \in more : q.total = new[n].total /\ q.usage = new[n].last
                    /\ Quiet(new, n + 1, N + 1) => new[n].total = now
  BY <1>1 DEF Accounted
<1>3. CASE n \in 1 .. N
  <2>1. new[n] = lines[n] /\ n \in DOMAIN lines
    BY <1>1, <1>3
  <2>2. /\ \E q \in requests : q.total = lines[n].total /\ q.usage = lines[n].last
        /\ Quiet(lines, n + 1, N) => lines[n].total = count
    BY <2>1 DEF Accounted, N
  <2>3. ASSUME Quiet(new, n + 1, N + 1) PROVE new[n].total = now
    <3>1. N + 1 \in n + 1 .. N + 1 /\ \A k \in n + 1 .. N : k \in n + 1 .. N + 1
      BY <1>1, <1>3
    <3>2. ~IsReading(line) /\ Quiet(new, n + 1, N)
      BY <1>1, <2>3, <3>1 DEF Quiet
    <3>3. n + 1 \in Nat \ {0} /\ N \in 0 .. N
      BY <1>1, <1>3
    <3>4. QED
      BY <1>2, <2>1, <2>2, <3>2, <3>3
  <2>4. QED
    BY <2>1, <2>2, <2>3
<1>4. CASE n = N + 1
  BY <1>1, <1>4
<1>5. QED
  BY <1>1, <1>3, <1>4

(* What the first n lines declare does not depend on the rest.             *)
LEMMA DeclaredPrefix ==
  ASSUME NEW lines, NEW new, NEW n \in Nat, \A i \in 1 .. n : new[i] = lines[i]
  PROVE  LastDeclared(new, n) = LastDeclared(lines, n)
<1> DEFINE S == DeclaredAmong(lines, n)
<1>1. DeclaredAmong(new, n) = S
  BY DEF DeclaredAmong
<1>2. S \in SUBSET (1 .. n)
  BY DEF DeclaredAmong
<1> HIDE DEF S
<1>3. CASE S = {}
  BY <1>1, <1>3 DEF LastDeclared, S
<1>4. CASE S # {}
  <2>1. Max(S) \in S
    BY <1>2, <1>4, MaxAmong
  <2>2. new[Max(S)] = lines[Max(S)]
    BY <1>2, <2>1
  <2>3. QED
    BY <1>1, <2>2 DEF LastDeclared, S
<1>5. QED
  BY <1>3, <1>4

LEMMA AskedLonger ==
  ASSUME NEW lines, NEW new, NEW line, Longer(lines, new, line), NEW q, AskedAt(lines, q)
  PROVE  AskedAt(new, q)
<1> DEFINE N == Len(lines)
<1>1. /\ N \in Nat /\ DOMAIN lines = 1 .. N /\ DOMAIN new = 1 .. N + 1
      /\ \A i \in 1 .. N : new[i] = lines[i]
  BY DEF Longer
<1> HIDE DEF N
<1>2. q.line \in 1 .. N
  BY <1>1 DEF AskedAt
<1>3. q.line \in DOMAIN new /\ new[q.line] = lines[q.line]
  BY <1>1, <1>2
<1>4. \A m \in 1 .. q.line - 1 : m \in 1 .. N
  BY <1>1, <1>2
<1>5. \A m \in 1 .. q.line - 1 : new[m] = lines[m]
  BY <1>1, <1>4
<1>6. q.line - 1 \in Nat
  BY <1>2
<1>7. LastDeclared(new, q.line - 1) = LastDeclared(lines, q.line - 1)
  BY <1>5, <1>6, DeclaredPrefix
<1>8. QED
  BY <1>3, <1>5, <1>7 DEF AskedAt

(* The journal that begins a fork.                                         *)
LEMMA ReplayBills ==
  ASSUME NEW lines, IsSeq(lines), HistoryOk(lines), NEW requests, NEW count,
         Accounted(lines, requests, count), NEW k \in 2 .. Len(lines) + 1,
         NEW head, head.kind = "session_meta", head.session = "s"
  PROVE  LET new == <<head>> \o SubSeq(lines, k, Len(lines))
         IN HistoryOk(new) /\ Accounted(new, requests, count) /\ new[1] = head
<1> DEFINE new == <<head>> \o SubSeq(lines, k, Len(lines))
           N == Len(lines)
           M == N - k + 2
<1>1. /\ M \in Nat /\ Len(new) = M /\ DOMAIN new = 1 .. M /\ new[1] = head
      /\ \A n \in DOMAIN new : n = 1 \/ n \in 2 .. M
      /\ \A n \in 2 .. M : k + n - 2 \in DOMAIN lines /\ new[n] = lines[k + n - 2]
  BY ReplayLines
<1>2. N \in Nat /\ DOMAIN lines = 1 .. N /\ k \in Nat /\ k >= 2
  <2>1. N \in Nat /\ DOMAIN lines = 1 .. N
    BY AppendSeq
  <2>2. QED
    BY <2>1
<1>3. M = N - k + 2
  OBVIOUS
<1> HIDE DEF new, N, M
<1>4. LineTold(head) /\ ~IsReading(head)
  BY DEF LineTold, IsReading
<1>5. \A n \in DOMAIN new : LineTold(new[n])
  BY <1>1, <1>4 DEF HistoryOk
<1>6. \A n \in DOMAIN new : new[n].kind = "session_meta" => n = 1
  <2> SUFFICES ASSUME NEW n \in DOMAIN new, new[n].kind = "session_meta", n # 1 PROVE FALSE
    OBVIOUS
  <2>1. n \in 2 .. M
    BY <1>1
  <2>2. k + n - 2 = 1
    BY <1>1, <2>1 DEF HistoryOk
  <2>3. QED
    BY <1>2, <2>1, <2>2
<1>7. ASSUME NEW a \in 3 .. M + 1, NEW b \in 1 .. M, Quiet(new, a, b)
      PROVE  Quiet(lines, k + a - 2, k + b - 2)
  <2> SUFFICES ASSUME NEW j \in k + a - 2 .. k + b - 2 PROVE ~IsReading(lines[j])
    BY DEF Quiet
  <2>1. j - k + 2 \in a .. b /\ j - k + 2 \in 2 .. M /\ k + (j - k + 2) - 2 = j
    BY <1>1, <1>2
  <2>2. new[j - k + 2] = lines[j]
    BY <1>1, <2>1
  <2>3. QED
    BY <1>7, <2>1, <2>2 DEF Quiet
<1>8. ASSUME NEW m \in DOMAIN new, NEW n \in DOMAIN new, m < n,
             IsReading(new[m]), IsReading(new[n]), Quiet(new, m + 1, n - 1)
      PROVE  new[m].total \in {new[n].total, Minus(new[n].total, new[n].last)}
  <2>1. m \in 2 .. M /\ n \in 2 .. M
    BY <1>1, <1>4, <1>8
  <2>2. /\ k + m - 2 < k + n - 2 /\ m + 1 \in 3 .. M + 1 /\ n - 1 \in 1 .. M
        /\ k + (m + 1) - 2 = (k + m - 2) + 1 /\ k + (n - 1) - 2 = (k + n - 2) - 1
    <3>1. m < n /\ M \in Nat /\ k \in Nat
      BY <1>1, <1>2, <1>8
    <3>2. m + 1 \in 3 .. M + 1 /\ n - 1 \in 1 .. M
      BY <2>1, <3>1
    <3>3. /\ k + m - 2 < k + n - 2
          /\ k + (m + 1) - 2 = (k + m - 2) + 1 /\ k + (n - 1) - 2 = (k + n - 2) - 1
      BY <2>1, <3>1
    <3>4. QED
      BY <3>2, <3>3
  <2>3. Quiet(lines, (k + m - 2) + 1, (k + n - 2) - 1)
    BY <1>7, <1>8, <2>2
  <2>4. QED
    BY <1>1, <1>8, <2>1, <2>2, <2>3 DEF HistoryOk
<1>9. HistoryOk(new)
  BY <1>5, <1>6, <1>8 DEF HistoryOk
<1>10. ASSUME NEW n \in DOMAIN new, IsReading(new[n])
       PROVE  /\ \E q \in requests : q.total = new[n].total /\ q.usage = new[n].last
              /\ Quiet(new, n + 1, M) => new[n].total = count
  <2>1. n \in 2 .. M
    BY <1>1, <1>4, <1>10
  <2>2. k + n - 2 \in DOMAIN lines /\ new[n] = lines[k + n - 2]
    BY <1>1, <2>1
  <2>3. Quiet(new, n + 1, M) => Quiet(lines, (k + n - 2) + 1, N)
    <3>1. /\ n + 1 \in 3 .. M + 1 /\ M \in 1 .. M
          /\ k + (n + 1) - 2 = (k + n - 2) + 1 /\ k + M - 2 = N
      BY <1>1, <1>2, <1>3, <2>1
    <3>2. QED
      BY <1>7, <3>1
  <2>4. QED
    BY <1>10, <2>2, <2>3 DEF Accounted, N
<1>11. Accounted(new, requests, count)
  BY <1>1, <1>10 DEF Accounted
<1>12. QED
  BY <1>1, <1>9, <1>11 DEF new

(* A line more of a rollout, of whatever kind.                             *)
LEMMA WriteBills ==
  ASSUME CodexInv, BillInv, NEW file \in Rollouts, NEW line, Write(file, line),
         "kind" \in DOMAIN line, line.kind # "session_meta",
         line.kind = "turn_context" => "model" \in DOMAIN line /\ line.model \in Models,
         IsReading(line) => /\ {"total", "last", "plan"} \subseteq DOMAIN line
                            /\ line.plan = Subscribed /\ LastIs(journal[file], line)
                            /\ line.total = counter'[file]
                            /\ \E q \in asked' : q.total = line.total /\ q.usage = line.last,
         ~IsReading(line) => counter'[file] = counter[file],
         \A f \in Rollouts \ {file} : counter'[f] = counter[f],
         asked \subseteq asked',
         \A q \in asked' \ asked : q.file = file /\ AskedAt(journal[file], q)'
  PROVE  BillInv'
<1> DEFINE stamped == [ts |-> Now(file)] ++ line
           lines == journal[file]
           new == Append(lines, stamped)
<1>1. DOMAIN journal = Rollouts /\ IsSeq(lines) /\ lines # <<>>
  BY DEF CodexInv, JournalOk, LinesOk, Write, Started
<1>2. journal' = [journal EXCEPT ![file] = new]
  BY DEF Write, Journal
<1>3. Longer(lines, new, stamped)
  BY <1>1, AppendLonger
<1> HIDE DEF new
<1>4. journal'[file] = new /\ \A f \in Rollouts \ {file} : journal'[f] = journal[f]
  BY <1>1, <1>2
<1>5. /\ stamped.kind = line.kind
      /\ IsReading(line) => /\ stamped.total = line.total /\ stamped.last = line.last
                            /\ "plan" \in DOMAIN stamped /\ stamped.plan = line.plan
      /\ line.kind = "turn_context" => stamped.model = line.model
  <2>1. \A x \in DOMAIN line : x \in DOMAIN stamped /\ (x # "ts" => stamped[x] = line[x])
    BY DEF ++
  <2> HIDE DEF stamped
  <2>2. QED
    BY <2>1
<1> HIDE DEF stamped
<1>6. LineTold(stamped) /\ (IsReading(stamped) <=> IsReading(line))
  BY <1>5 DEF LineTold, IsReading
<1>7. IsReading(stamped) => LastIs(lines, stamped)
  BY <1>5, <1>6 DEF LastIs
<1>8. HistoryOk(lines) /\ Accounted(lines, asked, counter[file])
  BY DEF BillInv
<1>9. HistoryOk(new)
  BY <1>3, <1>5, <1>6, <1>7, <1>8, HistoryLonger
<1>10. Accounted(new, asked', counter'[file])
  <2>1. /\ ~IsReading(stamped) => counter'[file] = counter[file]
        /\ IsReading(stamped) =>
              /\ stamped.total = counter'[file]
              /\ \E q \in asked' : q.total = stamped.total /\ q.usage = stamped.last
    BY <1>5, <1>6
  <2>2. QED
    BY <1>3, <1>8, <2>1, AccountedLonger
<1>11. \A f \in Rollouts : HistoryOk(journal'[f]) /\ Accounted(journal'[f], asked', counter'[f])
  <2>1. ASSUME NEW f \in Rollouts \ {file}
        PROVE  HistoryOk(journal'[f]) /\ Accounted(journal'[f], asked', counter'[f])
    <3>1. /\ HistoryOk(journal[f]) /\ Accounted(journal[f], asked, counter[f])
          /\ journal'[f] = journal[f] /\ counter'[f] = counter[f]
      BY <1>4 DEF BillInv
    <3>2. Accounted(journal[f], asked', counter[f])
      BY <3>1 DEF Accounted
    <3>3. QED
      BY <3>1, <3>2
  <2>2. HistoryOk(journal'[file]) /\ Accounted(journal'[file], asked', counter'[file])
    BY <1>4, <1>9, <1>10
  <2>3. QED
    BY <2>1, <2>2
<1>12. journal'["fork"] # <<>> => journal'["fork"][1].kind = "session_meta"
  <2>1. CASE file = "fork"
    <3>1. lines[1].kind = "session_meta"
      BY <1>1, <2>1 DEF BillInv
    <3>2. 1 \in 1 .. Len(lines)
      <4>1. PICK T : lines \in Seq(T)
        BY <1>1 DEF IsSeq
      <4>2. Len(lines) \in Nat /\ Len(lines) # 0
        BY <1>1, <4>1
      <4>3. QED
        BY <4>2
    <3>3. QED
      BY <1>3, <1>4, <2>1, <3>1, <3>2 DEF Longer
  <2>2. CASE file # "fork"
    <3>1. journal'["fork"] = journal["fork"]
      BY <1>4, <2>2 DEF Rollouts
    <3>2. QED
      BY <3>1 DEF BillInv
  <2>3. QED
    BY <2>1, <2>2
<1>13. ASSUME NEW q \in asked'
       PROVE  q.file \in Rollouts /\ AskedAt(journal'[q.file], q)
  <2>1. CASE q \notin asked
    <3>1. q.file = file /\ AskedAt(journal'[file], q)
      BY <2>1
    <3>2. QED
      BY <3>1
  <2>2. CASE q \in asked
    <3>1. q.file \in Rollouts /\ AskedAt(journal[q.file], q)
      BY <2>2 DEF BillInv
    <3>2. CASE q.file = file
      <4>1. AskedAt(lines, q)
        BY <3>1, <3>2
      <4>2. AskedAt(new, q)
        BY <1>3, <4>1, AskedLonger
      <4>3. QED
        BY <1>4, <3>2, <4>2
    <3>3. CASE q.file # file
      BY <1>4, <3>1, <3>3
    <3>4. QED
      BY <3>2, <3>3
  <2>3. QED
    BY <2>1, <2>2
<1>14. QED
  BY <1>11, <1>12, <1>13 DEF BillInv

(* A mark or a piece of work that is no reading.                           *)
LEMMA AsideBills ==
  ASSUME CodexInv, BillInv, NEW file \in Rollouts, NEW line, Mark(file, line) \/ Work(file, line),
         "kind" \in DOMAIN line, ~IsReading(line), line.kind # "session_meta",
         line.kind = "turn_context" => "model" \in DOMAIN line /\ line.model \in Models
  PROVE  BillInv'
<1>1. Write(file, line) /\ counter' = counter /\ asked' = asked
  BY DEF Mark, Work
<1>2. QED
  BY <1>1, WriteBills

(* The last reading there is leaves codex at its counter.                  *)
LEMMA LastIsCounter ==
  ASSUME BillInv, NEW file \in Rollouts, NEW m \in DOMAIN journal[file],
         IsReading(journal[file][m]), Quiet(journal[file], m + 1, Len(journal[file]))
  PROVE  journal[file][m].total = counter[file]
BY DEF BillInv, Accounted

(* What a rollout declares is its last declaration.                        *)
LEMMA DeclaredIsLast ==
  ASSUME CodexInv, BillInv, NEW file \in Rollouts, DeclaredBy(file) # None
  PROVE  /\ DeclaredBy(file) \in Models
         /\ LastDeclared(journal[file], Len(journal[file])) = DeclaredBy(file)
<1> DEFINE n == LastOwn(file, {"turn_context"})
           lines == journal[file]
           S == DeclaredAmong(lines, Len(lines))
<1>1. n # 0 /\ DeclaredBy(file) = lines[n].model
  BY DEF DeclaredBy
<1>2. /\ n \in DOMAIN lines /\ lines[n].kind = "turn_context"
      /\ \A m \in DOMAIN lines : lines[m].kind = "turn_context" => m <= n
  BY <1>1, LastOwnLine
<1>3. Len(lines) \in Nat /\ DOMAIN lines = 1 .. Len(lines)
  BY AppendSeq DEF CodexInv, JournalOk, LinesOk
<1> HIDE DEF n
<1>4. lines[n].model \in Models
  BY <1>2 DEF BillInv, HistoryOk, LineTold
<1> HIDE DEF lines
<1>5. n \in S /\ S \in SUBSET (1 .. Len(lines)) /\ \A m \in S : m <= n
  BY <1>2, <1>3 DEF DeclaredAmong
<1>6. Max(S) = n
  <2> HIDE DEF S
  <2>1. Max(S) \in S /\ n <= Max(S)
    BY <1>3, <1>5, MaxAmong
  <2>2. \A m \in S : m \in Nat
    BY <1>3, <1>5
  <2>3. Max(S) <= n /\ n \in Nat /\ Max(S) \in Nat
    BY <1>5, <2>1, <2>2
  <2>4. QED
    BY <2>1, <2>3
<1>7. LastDeclared(lines, Len(lines)) = lines[n].model
  BY <1>5, <1>6 DEF LastDeclared
<1>8. QED
  BY <1>1, <1>4, <1>7 DEF lines

(* The request that codex writes down: its reading is new.                 *)
LEMMA RequestBills ==
  ASSUME CodexInv, BillInv, NEW file \in Rollouts, Request(file)
  PROVE  BillInv'
<1> DEFINE lines == journal[file]
           N == Len(lines)
           count == counter[file]
           model == DeclaredBy(file)
<1>1. PICK usage \in Requests :
        LET total == Plus(count, usage)
        IN /\ Write(file, Reading(total, usage))
           /\ counter' = [counter EXCEPT ![file] = total]
           /\ asked' = asked \cup {[file |-> file, line |-> N + 1, total |-> total,
                                     usage |-> usage, model |-> model]}
  BY DEF Request
<1> DEFINE total == Plus(count, usage)
           line == Reading(total, usage)
           stamped == [ts |-> Now(file)] ++ line
           new == Append(lines, stamped)
           q == [file |-> file, line |-> N + 1, total |-> total, usage |-> usage,
                 model |-> model]
<1>2. Write(file, line) /\ counter' = [counter EXCEPT ![file] = total] /\ asked' = asked \cup {q}
  BY <1>1
<1>3. usage \in Readings /\ usage["input"] > 0
  BY RequestsAreReadings
<1>4. /\ DOMAIN counter = Rollouts /\ count \in Readings /\ DOMAIN journal = Rollouts
      /\ LinesOk(lines)
      /\ \A n \in DOMAIN lines : IsReading(lines[n]) => AtMost(lines[n].total, count)
  BY DEF CodexInv, JournalOk
<1>5. Longer(lines, new, stamped)
  BY <1>4, AppendLonger DEF LinesOk
<1>6. journal'[file] = new
  BY <1>2, <1>4 DEF Write, Journal
<1>7. /\ line.kind = "token_count" /\ line.total = total /\ line.last = usage
      /\ line.plan = Subscribed
      /\ DOMAIN line = {"kind", "total", "last", "plan", "limit"}
  BY DEF Reading
<1>8. stamped.kind = "token_count" /\ stamped.total = total /\ stamped.last = usage
  <2> HIDE DEF line
  <2>1. \A x \in DOMAIN line : x # "ts" => stamped[x] = line[x]
    BY DEF ++
  <2> HIDE DEF stamped
  <2>2. QED
    BY <1>7, <2>1
<1>9. /\ q.file = file /\ q.line = N + 1 /\ q.total = total /\ q.usage = usage
      /\ q.model = model
  OBVIOUS
<1>10. model \in Models /\ LastDeclared(lines, N) = model
  <2>1. model # None
    BY DEF Request
  <2>2. QED
    BY <2>1, DeclaredIsLast
<1>11. Minus(total, usage) = count
  <2>1. Minus(total, usage) = [k \in UsageKeys |-> (count[k] + usage[k]) - usage[k]]
    BY DEF Minus, Plus
  <2>2. \A k \in UsageKeys : (count[k] + usage[k]) - usage[k] = count[k]
    BY <1>3, <1>4 DEF Readings
  <2>3. Minus(total, usage) = [k \in UsageKeys |-> count[k]]
    BY <2>1, <2>2
  <2>4. QED
    BY <1>4, <2>3 DEF Readings
<1>12. total["input"] = count["input"] + usage["input"] /\ "input" \in UsageKeys
  BY DEF Plus, UsageKeys
<1> HIDE DEF new, stamped, line, q, total
<1>13. LastIs(lines, line)
  <2> SUFFICES ASSUME NEW m \in DOMAIN lines, IsReading(lines[m]), Quiet(lines, m + 1, N)
               PROVE  lines[m].total \in {line.total, Minus(line.total, line.last)}
    BY DEF LastIs
  <2>1. lines[m].total = count
    BY LastIsCounter
  <2>2. QED
    BY <1>7, <1>11, <2>1
<1>14. AskedAt(new, q)
  <2>1. N \in Nat /\ N + 1 \in DOMAIN new /\ new[N + 1] = stamped /\ DOMAIN lines = 1 .. N
        /\ \A i \in 1 .. N : new[i] = lines[i]
    BY <1>5 DEF Longer
  <2>2. \A m \in 1 .. N : IsReading(new[m]) => new[m].total # total
    <3> SUFFICES ASSUME NEW m \in 1 .. N, IsReading(lines[m]) PROVE lines[m].total # total
      BY <2>1
    <3>1. AtMost(lines[m].total, count) /\ lines[m].total \in Readings
      BY <1>4, <2>1 DEF LinesOk, LineOk
    <3>2. lines[m].total["input"] <= count["input"] /\ count["input"] \in Nat
          /\ usage["input"] \in Nat /\ lines[m].total["input"] \in Nat
      BY <1>3, <1>4, <1>12, <3>1 DEF AtMost, Readings
    <3>3. lines[m].total["input"] # total["input"]
      BY <1>3, <1>12, <3>2
    <3>4. QED
      BY <3>3
  <2>3. LastDeclared(new, N) = model
    BY <1>10, <2>1, DeclaredPrefix
  <2>4. q.line - 1 = N
    BY <1>9, <2>1
  <2>5. IsReading(stamped)
    BY <1>8 DEF IsReading
  <2>6. QED
    BY <1>8, <1>9, <1>10, <2>1, <2>2, <2>3, <2>4, <2>5 DEF AskedAt
<1>15. \A r \in asked' \ asked : r.file = file /\ AskedAt(journal[file], r)'
  BY <1>2, <1>6, <1>9, <1>14
<1>16. counter'[file] = total /\ \A f \in Rollouts \ {file} : counter'[f] = counter[f]
  BY <1>2, <1>4
<1>17. /\ {"total", "last", "plan"} \subseteq DOMAIN line /\ "kind" \in DOMAIN line
       /\ line.plan = Subscribed
       /\ line.total = counter'[file]
       /\ \E r \in asked' : r.total = line.total /\ r.usage = line.last
  BY <1>2, <1>7, <1>9, <1>16
<1>18. IsReading(line) /\ line.kind # "session_meta" /\ line.kind # "turn_context"
  BY <1>7 DEF IsReading
<1>19. asked \subseteq asked'
  BY <1>2
<1>20. QED
  BY <1>2, <1>13, <1>15, <1>16, <1>17, <1>18, <1>19, WriteBills

(* A reading that is written again repeats the last one.                   *)
LEMMA RepeatBills ==
  ASSUME CodexInv, BillInv, NEW file \in Rollouts, Repeat(file)
  PROVE  BillInv'
<1> DEFINE n == LastOwn(file, {"token_count"})
           lines == journal[file]
           line == [lines[n] EXCEPT !.limit = "primary"]
<1>1. n # 0 /\ Write(file, line) /\ counter' = counter /\ asked' = asked
  BY DEF Repeat, Mark
<1>2. /\ n \in DOMAIN lines /\ IsReading(lines[n])
      /\ \A m \in DOMAIN lines : IsReading(lines[m]) => m <= n
  BY <1>1, LastOwnReading
<1>3. LinesOk(lines) /\ Len(lines) \in Nat /\ DOMAIN lines = 1 .. Len(lines)
  BY AppendSeq DEF CodexInv, JournalOk, LinesOk
<1> HIDE DEF n
<1>4. LineOk(lines[n]) /\ LineTold(lines[n])
  BY <1>2, <1>3 DEF LinesOk, BillInv, HistoryOk
<1>5. Quiet(lines, n + 1, Len(lines))
  <2> SUFFICES ASSUME NEW k \in n + 1 .. Len(lines), IsReading(lines[k]) PROVE FALSE
    BY DEF Quiet
  <2>1. k \in DOMAIN lines /\ k > n
    BY <1>2, <1>3
  <2>2. QED
    BY <1>2, <1>3, <2>1
<1>6. lines[n].total = counter[file]
  BY <1>2, <1>5, LastIsCounter
<1>7. \E q \in asked : q.total = lines[n].total /\ q.usage = lines[n].last
  BY <1>2 DEF BillInv, Accounted
<1>8. LastIs(lines, lines[n])
  <2> SUFFICES ASSUME NEW m \in DOMAIN lines, IsReading(lines[m]), Quiet(lines, m + 1, Len(lines))
               PROVE  lines[m].total = lines[n].total
    BY DEF LastIs
  <2>1. lines[m].total = counter[file]
    BY LastIsCounter
  <2>2. QED
    BY <1>6, <2>1
<1>9. lines[n].plan = Subscribed
  BY <1>2, <1>4 DEF LineTold
<1> HIDE DEF lines
<1>10. /\ DOMAIN line = DOMAIN lines[n]
       /\ line.kind = lines[n].kind /\ line.total = lines[n].total /\ line.last = lines[n].last
       /\ line.plan = lines[n].plan
  <2>1. {"kind", "total", "last", "plan"} \subseteq DOMAIN lines[n]
    BY <1>2, <1>4 DEF LineOk, LineTold
  <2>2. QED
    BY <2>1
<1> HIDE DEF line
<1>11. /\ IsReading(line) /\ line.kind # "session_meta" /\ line.kind # "turn_context"
  BY <1>2, <1>10 DEF IsReading
<1>12. LastIs(lines, line)
  BY <1>8, <1>10 DEF LastIs
<1>13. "kind" \in DOMAIN line /\ {"total", "last", "plan"} \subseteq DOMAIN line
  BY <1>2, <1>4, <1>10 DEF LineOk, LineTold
<1>14. QED
  BY <1>1, <1>6, <1>7, <1>9, <1>10, <1>11, <1>12, <1>13, WriteBills DEF lines

(* The first lines of a rollout.                                           *)
LEMMA FirstBills ==
  ASSUME CodexInv, BillInv, NEW file \in Rollouts, ~Started(file),
         NEW lines, Journal(file, lines), HistoryOk(lines),
         Accounted(lines, asked, counter'[file]), asked' = asked,
         \A f \in Rollouts \ {file} : counter'[f] = counter[f],
         file = "fork" => lines[1].kind = "session_meta"
  PROVE  BillInv'
<1>1. journal[file] = <<>> /\ journal'[file] = lines
      /\ \A f \in Rollouts \ {file} : journal'[f] = journal[f]
  BY DEF Started, Journal, CodexInv
<1>2. \A f \in Rollouts : HistoryOk(journal'[f]) /\ Accounted(journal'[f], asked', counter'[f])
  <2>1. ASSUME NEW f \in Rollouts \ {file}
        PROVE  HistoryOk(journal'[f]) /\ Accounted(journal'[f], asked', counter'[f])
    <3>1. /\ HistoryOk(journal[f]) /\ Accounted(journal[f], asked, counter[f])
          /\ journal'[f] = journal[f] /\ counter'[f] = counter[f]
      BY <1>1 DEF BillInv
    <3>2. QED
      BY <3>1
  <2>2. HistoryOk(journal'[file]) /\ Accounted(journal'[file], asked', counter'[file])
    BY <1>1
  <2>3. QED
    BY <2>1, <2>2
<1>3. journal'["fork"] # <<>> => journal'["fork"][1].kind = "session_meta"
  <2>1. CASE file = "fork"
    BY <1>1, <2>1
  <2>2. CASE file # "fork"
    <3>1. journal'["fork"] = journal["fork"]
      BY <1>1, <2>2 DEF Rollouts
    <3>2. QED
      BY <3>1 DEF BillInv
  <2>3. QED
    BY <2>1, <2>2
<1>4. ASSUME NEW q \in asked'
      PROVE  q.file \in Rollouts /\ AskedAt(journal'[q.file], q)
  <2>1. q.file \in Rollouts /\ AskedAt(journal[q.file], q)
    BY DEF BillInv
  <2>2. q.file # file
    BY <1>1, <2>1 DEF AskedAt
  <2>3. journal'[q.file] = journal[q.file]
    BY <1>1, <2>1, <2>2
  <2>4. QED
    BY <2>1, <2>3
<1>5. QED
  BY <1>2, <1>3, <1>4 DEF BillInv

LEMMA BillStep ==
  ASSUME CodexInv, BillInv, CodexNext
  PROVE  BillInv'
<1>1. CASE Begin
  <2>1. PICK head \in {"session_meta", "world_state"} :
          Journal("parent", <<[kind |-> head, session |-> "s", ts |-> 1]>>)
    BY <1>1 DEF Begin
  <2> DEFINE line == [kind |-> head, session |-> "s", ts |-> 1]
             lines == <<line>>
  <2>2. LineTold(line) /\ ~IsReading(line)
    BY DEF LineTold, IsReading
  <2>3. Journal("parent", lines)
    BY <2>1
  <2> HIDE DEF line
  <2>4. DOMAIN lines = {1} /\ lines[1] = line
    OBVIOUS
  <2> HIDE DEF lines
  <2>5. HistoryOk(lines)
    BY <2>2, <2>4 DEF HistoryOk
  <2>6. counter' = counter /\ asked' = asked /\ ~Started("parent") /\ "parent" \in Rollouts
    BY <1>1 DEF Begin, Rollouts
  <2>7. Accounted(lines, asked, counter'["parent"])
    BY <2>2, <2>4 DEF Accounted
  <2>8. QED
    BY <2>3, <2>5, <2>6, <2>7, FirstBills
<1>2. CASE Fork
  <2> DEFINE old == journal["parent"]
             head == [kind |-> "session_meta", session |-> "s", ts |-> 1]
  <2>1. PICK k \in 2 .. Len(old) + 1 : Journal("fork", <<head>> \o SubSeq(old, k, Len(old)))
    BY <1>2 DEF Fork
  <2> DEFINE lines == <<head>> \o SubSeq(old, k, Len(old))
  <2>2. /\ counter' = [counter EXCEPT !["fork"] = counter["parent"]] /\ asked' = asked
        /\ ~Started("fork") /\ "parent" \in Rollouts /\ "fork" \in Rollouts
    BY <1>2 DEF Fork, Rollouts
  <2>3. IsSeq(old) /\ DOMAIN counter = Rollouts
    BY <2>2 DEF CodexInv, JournalOk, LinesOk
  <2>4. HistoryOk(old) /\ Accounted(old, asked, counter["parent"])
    BY <2>2 DEF BillInv
  <2>5. head.kind = "session_meta" /\ head.session = "s"
    OBVIOUS
  <2> HIDE DEF head, old
  <2>6. /\ HistoryOk(lines) /\ Accounted(lines, asked, counter["parent"])
        /\ lines[1] = head
    BY <2>3, <2>4, <2>5, ReplayBills
  <2>7. /\ counter'["fork"] = counter["parent"]
        /\ \A f \in Rollouts \ {"fork"} : counter'[f] = counter[f]
    BY <2>2, <2>3
  <2>8. Journal("fork", lines)
    BY <2>1
  <2> HIDE DEF lines
  <2>9. QED
    BY <2>2, <2>5, <2>6, <2>7, <2>8, FirstBills
<1>3. ASSUME NEW file \in Rollouts, Request(file) \/ Repeat(file)
      PROVE  BillInv'
  BY <1>3, RequestBills, RepeatBills
<1>4. ASSUME NEW file \in Rollouts, Declare(file)
      PROVE  BillInv'
  <2>1. PICK model \in Models \ {DeclaredBy(file)} :
          Mark(file, [kind |-> "turn_context", model |-> model])
    BY <1>4 DEF Declare
  <2> DEFINE line == [kind |-> "turn_context", model |-> model]
  <2>2. /\ DOMAIN line = {"kind", "model"} /\ line.kind = "turn_context"
        /\ line.model \in Models
    OBVIOUS
  <2>3. Mark(file, line)
    BY <2>1
  <2> HIDE DEF line
  <2>4. QED
    BY <2>2, <2>3, AsideBills DEF IsReading
<1>5. ASSUME NEW file \in Rollouts, NEW line, Mark(file, line) \/ Work(file, line),
             "kind" \in DOMAIN line,
             line.kind \in {"task_started", "task_complete", "agent_message",
                            "tool_call", "tool_output", "patch_apply_end"}
      PROVE  BillInv'
  <2>1. ~IsReading(line) /\ line.kind # "session_meta" /\ line.kind # "turn_context"
    BY <1>5 DEF IsReading
  <2>2. QED
    BY <1>5, <2>1, AsideBills
<1>6. ASSUME NEW file \in Rollouts,
             TaskStarted(file) \/ TaskComplete(file) \/ AgentMessage(file)
      PROVE  BillInv'
  <2>1. PICK kind \in {"task_started", "task_complete", "agent_message"} :
          Mark(file, [kind |-> kind])
    BY <1>6 DEF TaskStarted, TaskComplete, AgentMessage
  <2>2. QED
    BY <1>5, <2>1
<1>7. ASSUME NEW file \in Rollouts, Call(file) \/ Output(file) \/ Applied(file)
      PROVE  BillInv'
  <2>1. CASE Call(file)
    <3> DEFINE unused == Calls \ UNION {{l.call : l \in CallLines(f)} : f \in Rollouts}
               Line(patches) == [kind |-> "tool_call", call |-> CHOOSE c \in unused : TRUE,
                                 turn |-> TurnOf(file), patches |-> patches, lines |-> 2]
    <3>1. PICK patches \in BOOLEAN : Work(file, Line(patches))
      BY <2>1 DEF Call
    <3>2. "kind" \in DOMAIN Line(patches) /\ Line(patches).kind = "tool_call"
      OBVIOUS
    <3> HIDE DEF Line
    <3>3. QED
      BY <1>5, <3>1, <3>2
  <2>2. CASE Output(file)
    <3> DEFINE Line(call, failed) == [kind |-> "tool_output", call |-> call, failed |-> failed]
    <3>1. PICK call \in {l.call : l \in CallLines(file)} \ {l.call : l \in OutputLines(file)},
               failed \in BOOLEAN : Work(file, Line(call, failed))
      BY <2>2 DEF Output
    <3>2. "kind" \in DOMAIN Line(call, failed) /\ Line(call, failed).kind = "tool_output"
      OBVIOUS
    <3> HIDE DEF Line
    <3>3. QED
      BY <1>5, <3>1, <3>2
  <2>3. CASE Applied(file)
    <3> DEFINE Line(turn, ok) ==
                 [kind |-> "patch_apply_end", turn |-> turn, ok |-> ok, lines |-> 1]
    <3>1. PICK turn \in {TurnOf(file), <<"subagent", 0>>} \ {None}, ok \in BOOLEAN :
            Work(file, Line(turn, ok))
      BY <2>3 DEF Applied
    <3>2. "kind" \in DOMAIN Line(turn, ok) /\ Line(turn, ok).kind = "patch_apply_end"
      OBVIOUS
    <3> HIDE DEF Line
    <3>3. QED
      BY <1>5, <3>1, <3>2
  <2>4. QED
    BY <1>7, <2>1, <2>2, <2>3
<1>8. QED
  BY <1>1, <1>2, <1>3, <1>4, <1>6, <1>7 DEF CodexNext

-----------------------------------------------------------------------------
(* What a parse bills is what was asked.                                   *)

(* A reading that was there before bills nothing.                          *)
LEMMA UsageOnce ==
  ASSUME NEW lines, LinesOk(lines), NEW m \in DOMAIN lines, NEW n \in DOMAIN lines, m < n,
         IsReading(lines[m]), IsReading(lines[n]), lines[m].total = lines[n].total
  PROVE  KindInLog(lines, n) # "usage"
<1> DEFINE S == ReadingsAmong(lines, n - 1)
           k == Max(S)
<1>1. Len(lines) \in Nat /\ DOMAIN lines = 1 .. Len(lines)
  BY AppendSeq DEF LinesOk
<1>2. n - 1 \in Nat /\ (n - 1) + 1 = n /\ m \in 1 .. n - 1
  BY <1>1
<1>3. m \in S /\ S \in SUBSET (1 .. n - 1)
  BY <1>2 DEF ReadingsAmong, IsReading
<1>4. k \in S /\ \A j \in S : j <= k
  <2> HIDE DEF S
  <2>1. QED
    BY <1>2, <1>3, MaxAmong
<1>5. LastReading(lines, n - 1) = lines[k].total
  BY <1>3 DEF LastReading
<1>6. k \in DOMAIN lines /\ IsReading(lines[k]) /\ k < n /\ m <= k
  <2>1. k \in 1 .. n - 1 /\ IsReading(lines[k]) /\ m <= k
    BY <1>3, <1>4 DEF ReadingsAmong, IsReading
  <2>2. QED
    BY <1>1, <1>2, <2>1
<1> HIDE DEF k, S
<1>7. m < k \/ m = k
  BY <1>1, <1>6
<1>8. AtMost(lines[k].total, lines[n].total)
  BY <1>6 DEF LinesOk
<1>9. lines[k].total \in Readings /\ lines[n].total \in Readings
  BY <1>6 DEF LinesOk, LineOk
<1>10. lines[k].total = lines[n].total
  <2>1. CASE m = k
    BY <2>1
  <2>2. CASE m < k
    <3>1. AtMost(lines[n].total, lines[k].total)
      BY <1>6, <2>2 DEF LinesOk
    <3>2. \A x \in UsageKeys : lines[k].total[x] = lines[n].total[x]
      BY <1>8, <1>9, <3>1 DEF AtMost, Readings
    <3>3. QED
      BY <1>9, <3>2 DEF Readings
  <2>3. QED
    BY <1>7, <2>1, <2>2
<1>11. KindInLog(lines, (n - 1) + 1) =
         IF LastReading(lines, n - 1) # lines[(n - 1) + 1].total THEN "usage" ELSE "other"
  BY <1>2, KindOfReading
<1>12. QED
  BY <1>2, <1>5, <1>10, <1>11

(* A request's own line bills.                                             *)
LEMMA AskedBills ==
  ASSUME NEW lines, LinesOk(lines), NEW q, AskedAt(lines, q)
  PROVE  KindInLog(lines, q.line) = "usage"
<1> DEFINE n == q.line
           S == {m \in 1 .. n - 1 : lines[m].kind = "token_count"}
<1>1. n \in DOMAIN lines /\ lines[n].kind = "token_count" /\ lines[n].total = q.total
      /\ \A m \in S : lines[m].total # q.total
  BY DEF AskedAt, IsReading
<1>2. n - 1 \in Nat /\ S \in SUBSET (1 .. n - 1)
  <2>1. Len(lines) \in Nat /\ DOMAIN lines = 1 .. Len(lines)
    BY AppendSeq DEF LinesOk
  <2>2. QED
    BY <1>1, <2>1
<1> HIDE DEF n
<1>3. KindInLog(lines, n) = IF S # {} => lines[Max(S)].total # lines[n].total
                            THEN "usage" ELSE "other"
  BY <1>1 DEF KindInLog
<1> HIDE DEF S
<1>4. S # {} => Max(S) \in S
  BY <1>2, MaxAmong
<1>5. QED
  BY <1>1, <1>3, <1>4 DEF n

LEMMA BillsAreAsked ==
  ASSUME CodexInv, BillInv
  PROVE  BilledOnce
<1> DEFINE Identity(q) == <<"s", TotalTokens(q.total)>>
           Bills(r, q) == r.uuid = Identity(q) /\ r.toks = Bill(q.usage)
<1> SUFFICES ASSUME Whole, DistinctReadings, NEW file \in Rollouts
             PROVE  LET rows == ToSet(parsed[file].records)
                    IN /\ \A r \in rows : \E q \in asked : Bills(r, q)
                       /\ \A r, other \in rows : r.uuid = other.uuid => r = other
                       /\ \A q \in asked :
                            q.file = file =>
                              \E r \in rows : /\ r.line = q.line /\ Bills(r, q)
                                              /\ r.model = CodexModel(q.model)
  BY DEF BilledOnce, Bill
<1> DEFINE lines == journal[file]
           N == Len(lines)
           l == LogOfLines(lines)
           st == CodexScan(file, lines)
           records == st.records
           rows == ToSet(parsed[file].records)
<1>1. LinesOk(lines) /\ parsed[file] = CodexParse(file, lines)
  BY DEF CodexInv, JournalOk
<1>2. HistoryOk(lines) /\ Accounted(lines, asked, counter[file])
  BY DEF BillInv
<1>3. N \in Nat /\ DOMAIN lines = 1 .. N
  BY <1>1, AppendSeq DEF LinesOk
<1>4. \A n \in 1 .. N : l[n].kind = KindInLog(lines, n)
  BY <1>3 DEF LogOfLines
<1>5. Follows(st, l, N)
  BY <1>1, ScanFollows
<1>6. parsed[file].records = records
  BY <1>1, <1>5, FinishFields DEF CodexParse, Follows
<1>7. lines = <<>> \/ lines[1].kind = "session_meta"
  <2>1. CASE file = "fork"
    BY <2>1 DEF BillInv
  <2>2. CASE file = "parent"
    <3>1. PICK m \in DOMAIN lines : lines[m].kind = "session_meta"
      BY <2>2 DEF Whole, ToSet
    <3>2. m = 1
      BY <1>2, <3>1 DEF HistoryOk
    <3>3. QED
      BY <3>1, <3>2
  <2>3. QED
    BY <2>1, <2>2 DEF Rollouts
<1>8. lines = <<>> \/ Booked(st, lines, N)
  BY <1>1, <1>2, <1>7, ScanBooks
<1> HIDE DEF lines, N, l, st
<1>9. Recorded(st, l, N) /\ rows = {records[i] : i \in DOMAIN records}
  BY <1>5, <1>6 DEF Follows, ToSet
<1>10. \A i \in DOMAIN records :
         /\ records[i].line \in DOMAIN lines /\ KindInLog(lines, records[i].line) = "usage"
         /\ BookedAt(records[i], lines)
  <2> SUFFICES ASSUME NEW i \in DOMAIN records
               PROVE  /\ records[i].line \in DOMAIN lines
                      /\ KindInLog(lines, records[i].line) = "usage"
                      /\ BookedAt(records[i], lines)
    OBVIOUS
  <2>1. records[i].line \in 1 .. N /\ l[records[i].line].kind = "usage"
    BY <1>9 DEF Recorded
  <2>2. lines # <<>>
    BY <1>3, <2>1
  <2>3. BookedAt(records[i], lines)
    BY <1>8, <2>2 DEF Booked
  <2>4. QED
    BY <1>3, <1>4, <2>1, <2>3
<1>11. \A n \in DOMAIN lines : KindInLog(lines, n) = "usage" => IsReading(lines[n])
  BY DEF KindInLog, IsReading
<1>12. ASSUME NEW i \in DOMAIN records
       PROVE  \E q \in asked : Bills(records[i], q) /\ q.total = lines[records[i].line].total
  <2>1. IsReading(lines[records[i].line]) /\ records[i].line \in DOMAIN lines
    BY <1>10, <1>11
  <2>2. PICK q \in asked : /\ q.total = lines[records[i].line].total
                           /\ q.usage = lines[records[i].line].last
    BY <1>2, <2>1 DEF Accounted
  <2>3. BookedAt(records[i], lines)
    BY <1>10
  <2>4. QED
    BY <2>2, <2>3 DEF BookedAt
<1>13. ASSUME NEW i \in DOMAIN records, NEW j \in DOMAIN records,
              records[i].uuid = records[j].uuid, i < j
       PROVE  FALSE
  <2>1. PICK q \in asked : Bills(records[i], q) /\ q.total = lines[records[i].line].total
    BY <1>12
  <2>2. PICK p \in asked : Bills(records[j], p) /\ p.total = lines[records[j].line].total
    BY <1>12
  <2>3. TotalTokens(q.total) = TotalTokens(p.total)
    <3>1. records[i].uuid = Identity(q) /\ records[j].uuid = Identity(p)
      BY <2>1, <2>2
    <3>2. Identity(q) = Identity(p)
      BY <1>13, <3>1
    <3>3. \A a, b : <<"s", a>> = <<"s", b>> => a = b
      OBVIOUS
    <3>4. QED
      BY <3>2, <3>3
  <2>4. q = p
    BY <2>3 DEF DistinctReadings
  <2>5. records[i].line < records[j].line
    BY <1>9, <1>13 DEF Recorded
  <2>6. KindInLog(lines, records[j].line) # "usage"
    BY <1>1, <1>10, <1>11, <2>1, <2>2, <2>4, <2>5, UsageOnce DEF lines
  <2>7. QED
    BY <1>10, <2>6
<1>14. ASSUME NEW q \in asked, q.file = file
       PROVE  \E i \in DOMAIN records : /\ records[i].line = q.line /\ Bills(records[i], q)
                                        /\ records[i].model = CodexModel(q.model)
  <2>1. AskedAt(lines, q)
    BY <1>14 DEF BillInv, lines
  <2>2. q.line \in 1 .. N /\ l[q.line].kind = "usage"
    BY <1>1, <1>3, <1>4, <2>1, AskedBills DEF AskedAt, lines
  <2>3. PICK i \in DOMAIN records : records[i].line = q.line
    BY <1>9, <2>2 DEF Recorded
  <2>4. BookedAt(records[i], lines)
    BY <1>10
  <2>5. q.model # None
    BY <2>1, CodexAssumption DEF AskedAt
  <2>6. QED
    BY <2>1, <2>3, <2>4, <2>5 DEF BookedAt, AskedAt
<1> HIDE DEF Bills, records, rows
<1>15. \A r \in rows : \E q \in asked : Bills(r, q)
  BY <1>9, <1>12
<1>16. \A r, other \in rows : r.uuid = other.uuid => r = other
  <2> SUFFICES ASSUME NEW r \in rows, NEW other \in rows, r.uuid = other.uuid PROVE r = other
    OBVIOUS
  <2>1. PICK i \in DOMAIN records : r = records[i]
    BY <1>9
  <2>2. PICK j \in DOMAIN records : other = records[j]
    BY <1>9
  <2>3. i \in Nat /\ j \in Nat
    <3>1. IsSeq(records)
      BY <1>9 DEF Recorded, records
    <3>2. Len(records) \in Nat /\ DOMAIN records = 1 .. Len(records)
      BY <3>1, AppendSeq
    <3>3. QED
      BY <3>2
  <2>4. ~(i < j) /\ ~(j < i)
    BY <1>13, <2>1, <2>2
  <2>5. QED
    BY <2>1, <2>2, <2>3, <2>4
<1>17. \A q \in asked :
         q.file = file => \E r \in rows : /\ r.line = q.line /\ Bills(r, q)
                                          /\ r.model = CodexModel(q.model)
  BY <1>9, <1>14
<1>18. QED
  BY <1>15, <1>16, <1>17 DEF rows

-----------------------------------------------------------------------------
(* A fold whose values stay in a set.                                      *)

LEMMA Without == \A D : \A s \in SUBSET D : \A x : s \ {x} \in SUBSET D
OBVIOUS

(* h folds the first n places with step, from base.                        *)
IsFold(n, V, base, step, h) ==
    /\ h \in [SUBSET (1 .. n) -> V]
    /\ \A s \in SUBSET (1 .. n) :
          h[s] = IF s = {} THEN base ELSE step[<<h[s \ {Max(s)}], Max(s)>>]

LEMMA FoldExists ==
  ASSUME NEW n \in Nat, NEW V, NEW base \in V, NEW step, step \in [V \X (1 .. n) -> V]
  PROVE  \E h : IsFold(n, V, base, step, h)
<1> DEFINE Next1(h, s) == IF s = {} THEN base ELSE step[<<h[s \ {Max(s)}], Max(s)>>]
           Folds(m, h) == /\ h \in [SUBSET (1 .. m) -> V]
                          /\ \A s \in SUBSET (1 .. m) : h[s] = Next1(h, s)
           N == {m \in Nat : m <= n => \E h : Folds(m, h)}
<1>1. 0 \in N
  <2> DEFINE h == [s \in SUBSET (1 .. 0) |-> base]
  <2>1. h \in [SUBSET (1 .. 0) -> V] /\ \A s \in SUBSET (1 .. 0) : h[s] = Next1(h, s)
    OBVIOUS
  <2>2. Folds(0, h)
    BY <2>1
  <2> HIDE DEF Folds
  <2>3. QED
    BY <2>2
<1>2. ASSUME NEW m \in N
      PROVE  m + 1 \in N
  <2> HIDE DEF Folds
  <2> SUFFICES ASSUME m + 1 <= n PROVE \E g : Folds(m + 1, g)
    OBVIOUS
  <2> DEFINE S == SUBSET (1 .. m)
             D == SUBSET (1 .. m + 1)
  <2>0. m \in Nat /\ m <= n
    OBVIOUS
  <2>1. PICK h : Folds(m, h)
    BY <2>0
  <2>2. h \in [S -> V] /\ \A s \in S : h[s] = Next1(h, s)
    BY <2>1 DEF Folds
  <2> DEFINE g == [s \in D |-> IF s \in S THEN h[s] ELSE Next1(h, s)]
  <2>3. /\ S \subseteq D
        /\ \A s \in D : s \notin S => s \ {Max(s)} \in S /\ Max(s) \in 1 .. n /\ s # {}
    <3>1. 1 .. m \subseteq 1 .. m + 1 /\ m + 1 \in 1 .. n
      BY <2>0
    <3>2. QED
      BY <2>0, <3>1, MaxOf
  <2>4. \A s \in S : s \ {Max(s)} \in S
    BY Without
  <2> HIDE DEF S, D
  <2>5. \A s \in S : g[s] = h[s]
    BY <2>3
  <2>6. \A s \in D : g[s] = IF s \in S THEN h[s] ELSE Next1(h, s)
    OBVIOUS
  <2>7. g \in [D -> V]
    <3> SUFFICES ASSUME NEW s \in D PROVE (IF s \in S THEN h[s] ELSE Next1(h, s)) \in V
      OBVIOUS
    <3>1. CASE s \in S
      BY <2>2, <3>1
    <3>2. CASE s \notin S
      <4>1. s # {} /\ <<h[s \ {Max(s)}], Max(s)>> \in V \X (1 .. n)
        BY <2>2, <2>3, <3>2
      <4>2. QED
        BY <3>2, <4>1
    <3>3. QED
      BY <3>1, <3>2
  <2> HIDE DEF g
  <2>8. \A s \in D : Next1(g, s) = Next1(h, s)
    BY <2>3, <2>4, <2>5
  <2>9. \A s \in D : g[s] = Next1(g, s)
    BY <2>2, <2>6, <2>8
  <2>10. QED
    BY <2>7, <2>9 DEF Folds, D
<1>3. N \in SUBSET Nat
  OBVIOUS
<1> HIDE DEF N, Folds
<1>4. N = Nat
  BY <1>1, <1>2, <1>3, Induct
<1>5. \E h : Folds(n, h)
  BY <1>4 DEF N
<1>6. QED
  BY <1>5 DEF Folds, IsFold

-----------------------------------------------------------------------------
(* The context trace.                                                      *)

Point == [line : Int, input : Int, delta : Int]

TraceStep(records, trace, turn) ==
    IF turn.lines = <<>> THEN trace
    ELSE LET r == records[RecordAt(records, Last(turn.lines))]
             before == IF trace = <<>> THEN 0 ELSE Last(trace).input
         IN IF Context(r) <= 0 THEN trace
            ELSE Append(trace, [line |-> r.line, input |-> Context(r),
                                delta |-> Context(r) - before])

TraceOf(records, turns, h, s) ==
    IF s = {} THEN <<>> ELSE TraceStep(records, h[s \ {Max(s)}], turns[Max(s)])

Traces(records, turns, h) ==
    h = [s \in SUBSET DOMAIN turns |-> TraceOf(records, turns, h, s)]

LEMMA CtxTurnsIsTraces ==
  ASSUME NEW records, NEW turns
  PROVE  CtxTurns(turns, records) = (CHOOSE h : Traces(records, turns, h))[DOMAIN turns]
BY DEF CtxTurns, FoldLeft, MapThenFoldSet, Traces, TraceOf, TraceStep

LEMMA TraceStepType ==
  ASSUME NEW records, NEW trace \in Seq(Point), NEW turn,
         turn.lines # <<>> =>
            LET r == records[RecordAt(records, Last(turn.lines))]
            IN r.line \in Int /\ Context(r) \in Int
  PROVE  TraceStep(records, trace, turn) \in Seq(Point)
<1> DEFINE r == records[RecordAt(records, Last(turn.lines))]
           before == IF trace = <<>> THEN 0 ELSE Last(trace).input
           point == [line |-> r.line, input |-> Context(r), delta |-> Context(r) - before]
<1>1. \/ TraceStep(records, trace, turn) = trace
      \/ turn.lines # <<>> /\ TraceStep(records, trace, turn) = Append(trace, point)
  BY DEF TraceStep
<1>2. before \in Int
  <2>1. CASE trace = <<>>
    BY <2>1
  <2>2. CASE trace # <<>>
    <3>1. Last(trace) \in Point
      BY <2>2 DEF Last
    <3>2. QED
      BY <2>2, <3>1 DEF Point
  <2>3. QED
    BY <2>1, <2>2
<1> HIDE DEF r, before
<1>3. ASSUME turn.lines # <<>>
      PROVE  Append(trace, point) \in Seq(Point)
  <2>1. r.line \in Int /\ Context(r) \in Int
    BY <1>3 DEF r
  <2>2. point \in Point
    BY <1>2, <2>1 DEF Point
  <2> HIDE DEF point
  <2>3. QED
    BY <2>2
<1>4. QED
  BY <1>1, <1>3

(* Each turn that billed has the record that stands for it.                *)
At(records, e) == records[RecordAt(records, e)]

Found(records, turns) ==
    \A j \in Billed(turns) :
        LET e == Last(turns[j].lines)
        IN e \in Int /\ At(records, e).line = e /\ Context(At(records, e)) \in Int

TraceSteps(records, turns, N, H) ==
    /\ H[0] = <<>> /\ H[N] = CtxTurns(turns, records)
    /\ \A n \in 0 .. N : H[n] \in Seq(Point)
    /\ \A n \in 0 .. N - 1 : H[n + 1] = TraceStep(records, H[n], turns[n + 1])

(* The traces, one for each number of turns.                               *)
LEMMA TraceByTurn ==
  ASSUME NEW turns, NEW N \in Nat, DOMAIN turns = 1 .. N, NEW records, Found(records, turns)
  PROVE  \E H : TraceSteps(records, turns, N, H)
<1> DEFINE V == Seq(Point)
           step == [p \in V \X (1 .. N) |-> TraceStep(records, p[1], turns[p[2]])]
           D == SUBSET (1 .. N)
<1>1. \A v \in V, j \in 1 .. N : TraceStep(records, v, turns[j]) \in V
  <2> SUFFICES ASSUME NEW v \in V, NEW j \in 1 .. N
               PROVE  TraceStep(records, v, turns[j]) \in V
    OBVIOUS
  <2>1. turns[j].lines # <<>> => At(records, Last(turns[j].lines)).line \in Int
                                 /\ Context(At(records, Last(turns[j].lines))) \in Int
    BY DEF Found, Billed
  <2>2. QED
    BY <2>1, TraceStepType DEF At
<1>2. step \in [V \X (1 .. N) -> V] /\ <<>> \in V
  BY <1>1
<1>3. \A v \in V, j \in 1 .. N : step[<<v, j>>] = TraceStep(records, v, turns[j])
  OBVIOUS
<1> HIDE DEF step, V
<1>4. PICK f : IsFold(N, V, <<>>, step, f)
  BY <1>2, FoldExists
<1>5. /\ f \in [D -> V]
      /\ \A s \in D : f[s] = IF s = {} THEN <<>> ELSE step[<<f[s \ {Max(s)}], Max(s)>>]
  BY <1>4 DEF IsFold
<1>6. \A s \in D : f[s] = TraceOf(records, turns, f, s)
  <2> SUFFICES ASSUME NEW s \in D, s # {} PROVE f[s] = TraceOf(records, turns, f, s)
    BY <1>5 DEF TraceOf
  <2>1. s \ {Max(s)} \in D /\ Max(s) \in 1 .. N
    BY MaxAmong
  <2>2. f[s \ {Max(s)}] \in V
    BY <1>5, <2>1
  <2>3. QED
    BY <1>3, <1>5, <2>1, <2>2 DEF TraceOf
<1>7. Traces(records, turns, f)
  <2>1. f = [s \in D |-> f[s]]
    BY <1>5
  <2>2. QED
    BY <1>6, <2>1 DEF Traces
<1> DEFINE h == CHOOSE g : Traces(records, turns, g)
<1>8. Traces(records, turns, h) /\ CtxTurns(turns, records) = h[1 .. N]
  BY <1>7, CtxTurnsIsTraces
<1> HIDE DEF h
<1>9. \A s \in D : h[s] = TraceOf(records, turns, h, s)
  BY <1>8 DEF Traces
<1> DEFINE H == [n \in 0 .. N |-> h[1 .. n]]
<1>10. H[N] = CtxTurns(turns, records)
  BY <1>8
<1>11. H[0] = <<>>
  <2>1. 1 .. 0 = {} /\ {} \in D
    OBVIOUS
  <2>2. H[0] = h[{}]
    BY <2>1
  <2>3. QED
    BY <1>9, <2>1, <2>2 DEF TraceOf
<1>12. ASSUME NEW n \in 0 .. N - 1
       PROVE  H[n + 1] = TraceStep(records, H[n], turns[n + 1])
  <2>1. n \in Nat /\ n + 1 \in 1 .. N /\ n \in 0 .. N /\ n + 1 \in 0 .. N
    OBVIOUS
  <2>2. 1 .. n + 1 \in D /\ 1 .. n + 1 # {}
    <3>1. n + 1 \in 1 .. n + 1 /\ \A x \in 1 .. n + 1 : x \in 1 .. N
      BY <2>1
    <3>2. QED
      BY <3>1
  <2>3. Max(1 .. n + 1) = n + 1 /\ (1 .. n + 1) \ {n + 1} = 1 .. n
    BY <2>1, MaxOf
  <2>4. h[1 .. n + 1] = TraceStep(records, h[1 .. n], turns[n + 1])
    BY <1>9, <2>2, <2>3 DEF TraceOf
  <2>5. H[n + 1] = h[1 .. n + 1] /\ H[n] = h[1 .. n]
    BY <2>1
  <2> HIDE DEF H
  <2>6. QED
    BY <2>4, <2>5
<1> HIDE DEF H
<1> DEFINE S == {n \in Nat : n <= N => H[n] \in V}
<1>13. 0 \in S
  BY <1>2, <1>11
<1>14. ASSUME NEW n \in S
       PROVE  n + 1 \in S
  <2> SUFFICES ASSUME n + 1 <= N PROVE H[n + 1] \in V
    OBVIOUS
  <2>1. n \in 0 .. N - 1 /\ n + 1 \in 1 .. N /\ H[n] \in V
    OBVIOUS
  <2>2. QED
    BY <1>1, <1>12, <2>1
<1>15. S \in SUBSET Nat
  OBVIOUS
<1> HIDE DEF S
<1>16. S = Nat
  BY <1>13, <1>14, <1>15, Induct
<1>17. \A n \in 0 .. N : H[n] \in Seq(Point)
  BY <1>16 DEF S, V
<1>18. QED
  BY <1>10, <1>11, <1>12, <1>17 DEF TraceSteps

Deltas(s) == FoldLeft(LAMBDA sum, t : sum + t.delta, 0, s)

SumOf(s, h, x) == IF x = {} THEN 0 ELSE h[x \ {Max(x)}] + s[Max(x)].delta

SumsOf(s, h) == h = [x \in SUBSET DOMAIN s |-> SumOf(s, h, x)]

LEMMA DeltasIsSums ==
  ASSUME NEW s
  PROVE  Deltas(s) = (CHOOSE h : SumsOf(s, h))[DOMAIN s]
BY DEF Deltas, FoldLeft, MapThenFoldSet, SumsOf, SumOf

(* The delta of each point is from the point before.                       *)
FromBefore(s) ==
    \A i \in DOMAIN s : s[i].delta = s[i].input - (IF i = 1 THEN 0 ELSE s[i - 1].input)

LEMMA DeltasAddUp ==
  ASSUME NEW s \in Seq(Point), FromBefore(s), s # <<>>
  PROVE  Deltas(s) = s[Len(s)].input
<1> DEFINE N == Len(s)
           step == [p \in Int \X (1 .. N) |-> p[1] + s[p[2]].delta]
           D == SUBSET (1 .. N)
<1>1. N \in Nat /\ DOMAIN s = 1 .. N /\ N # 0
  OBVIOUS
<1>2. \A i \in 1 .. N : s[i].delta \in Int /\ s[i].input \in Int
  <2>1. \A i \in 1 .. N : s[i] \in Point
    BY <1>1
  <2>2. QED
    BY <2>1 DEF Point
<1> HIDE DEF N
<1>3. step \in [Int \X (1 .. N) -> Int] /\ 0 \in Int
  BY <1>2
<1>4. \A v \in Int, j \in 1 .. N : step[<<v, j>>] = v + s[j].delta
  OBVIOUS
<1> HIDE DEF step
<1>5. PICK f : IsFold(N, Int, 0, step, f)
  BY <1>1, <1>3, FoldExists
<1>6. /\ f \in [D -> Int]
      /\ \A x \in D : f[x] = IF x = {} THEN 0 ELSE step[<<f[x \ {Max(x)}], Max(x)>>]
  BY <1>5 DEF IsFold
<1>7. \A x \in D : f[x] = SumOf(s, f, x)
  <2> SUFFICES ASSUME NEW x \in D, x # {} PROVE f[x] = SumOf(s, f, x)
    BY <1>6 DEF SumOf
  <2>1. x \ {Max(x)} \in D /\ Max(x) \in 1 .. N
    BY <1>1, MaxAmong
  <2>2. f[x \ {Max(x)}] \in Int
    BY <1>6, <2>1
  <2>3. QED
    BY <1>4, <1>6, <2>1, <2>2 DEF SumOf
<1>8. SumsOf(s, f)
  <2>1. f = [x \in D |-> f[x]]
    BY <1>6
  <2>2. QED
    BY <1>1, <1>7, <2>1 DEF SumsOf
<1> DEFINE h == CHOOSE g : SumsOf(s, g)
<1>9. SumsOf(s, h) /\ Deltas(s) = h[1 .. N]
  BY <1>1, <1>8, DeltasIsSums
<1> HIDE DEF h
<1>10. \A x \in D : h[x] = SumOf(s, h, x)
  BY <1>1, <1>9 DEF SumsOf
<1> DEFINE S == {n \in Nat : n <= N => h[1 .. n] = IF n = 0 THEN 0 ELSE s[n].input}
<1>11. 0 \in S
  <2>1. 1 .. 0 = {} /\ {} \in D
    OBVIOUS
  <2>2. h[{}] = 0
    BY <1>10, <2>1 DEF SumOf
  <2>3. QED
    BY <2>1, <2>2
<1>12. ASSUME NEW n \in S
       PROVE  n + 1 \in S
  <2> SUFFICES ASSUME n + 1 <= N PROVE h[1 .. n + 1] = s[n + 1].input
    OBVIOUS
  <2>1. n \in Nat /\ n + 1 \in 1 .. N /\ h[1 .. n] = IF n = 0 THEN 0 ELSE s[n].input
    BY <1>1
  <2> HIDE DEF S
  <2>2. 1 .. n + 1 \in D /\ 1 .. n + 1 # {}
    <3>1. n + 1 \in 1 .. n + 1 /\ \A x \in 1 .. n + 1 : x \in 1 .. N
      BY <1>1, <2>1
    <3>2. QED
      BY <3>1
  <2>3. Max(1 .. n + 1) = n + 1 /\ (1 .. n + 1) \ {n + 1} = 1 .. n
    BY <2>1, MaxOf
  <2>4. h[1 .. n + 1] = h[1 .. n] + s[n + 1].delta
    BY <1>10, <2>2, <2>3 DEF SumOf
  <2>5. s[n + 1].delta = s[n + 1].input - (IF n = 0 THEN 0 ELSE s[n].input)
    <3>1. (n + 1) - 1 = n /\ (n + 1 = 1 <=> n = 0)
      BY <2>1
    <3>2. QED
      BY <1>1, <2>1, <3>1 DEF FromBefore
  <2>6. s[n + 1].input \in Int /\ (n # 0 => s[n].input \in Int)
    <3>1. n # 0 => n \in 1 .. N
      BY <1>1, <2>1
    <3>2. QED
      BY <1>2, <2>1, <3>1
  <2>7. QED
    BY <2>1, <2>4, <2>5, <2>6
<1>13. S \in SUBSET Nat
  OBVIOUS
<1> HIDE DEF S
<1>14. S = Nat
  BY <1>11, <1>12, <1>13, Induct
<1>15. h[1 .. N] = s[N].input
  BY <1>1, <1>14 DEF S
<1>16. QED
  BY <1>9, <1>15 DEF N

-----------------------------------------------------------------------------
(* A trace has the turns read so far.                                      *)

Stands(records, turns, k, e) ==
    \E j \in Billed(turns) : j <= k /\ e = Last(turns[j].lines) /\ Context(At(records, e)) > 0

TracedTo(records, turns, tr, k) ==
    /\ tr \in Seq(Point) /\ FromBefore(tr)
    /\ \A i, j \in DOMAIN tr : i < j => tr[i].line < tr[j].line
    /\ \A i \in DOMAIN tr : Stands(records, turns, k, tr[i].line)
    /\ \A e : Stands(records, turns, k, e) => \E i \in DOMAIN tr : tr[i].line = e

LEMMA TracedStep ==
  ASSUME NEW records, NEW turns, NEW N \in Nat, DOMAIN turns = 1 .. N, TurnsInOrder(turns),
         NEW k \in 0 .. N - 1, NEW tr, TracedTo(records, turns, tr, k), Found(records, turns)
  PROVE  TracedTo(records, turns, TraceStep(records, tr, turns[k + 1]), k + 1)
<1> DEFINE turn == turns[k + 1]
           e == Last(turn.lines)
           r == At(records, e)
           before == IF tr = <<>> THEN 0 ELSE Last(tr).input
           point == [line |-> r.line, input |-> Context(r), delta |-> Context(r) - before]
           new == TraceStep(records, tr, turn)
<1>1. k \in Nat /\ k + 1 \in DOMAIN turns /\ \A j \in Billed(turns) : j \in Nat
  BY DEF Billed
<1>2. k + 1 \in Billed(turns) <=> turn.lines # <<>>
  BY <1>1 DEF Billed
<1>3. \A j \in Billed(turns) : j <= k + 1 <=> j <= k \/ j = k + 1
  BY <1>1
<1>4. new = IF turn.lines = <<>> THEN tr ELSE IF Context(r) <= 0 THEN tr ELSE Append(tr, point)
  BY DEF TraceStep, At
<1>5. \A x : Stands(records, turns, k + 1, x) <=>
               \/ Stands(records, turns, k, x)
               \/ turn.lines # <<>> /\ x = e /\ Context(r) > 0
  BY <1>2, <1>3 DEF Stands
<1>6. turn.lines # <<>> => e \in Int /\ r.line = e /\ Context(r) \in Int
  BY <1>2 DEF Found
<1> HIDE DEF turn, e, r, before, new
<1>7. CASE turn.lines = <<>> \/ Context(r) <= 0
  <2>1. new = tr
    BY <1>4, <1>7
  <2>2. \A x : Stands(records, turns, k + 1, x) <=> Stands(records, turns, k, x)
    BY <1>5, <1>6, <1>7
  <2>3. TracedTo(records, turns, new, k + 1)
    BY <2>1, <2>2 DEF TracedTo
  <2>4. QED
    BY <2>3 DEF new, turn
<1>8. CASE turn.lines # <<>> /\ ~(Context(r) <= 0)
  <2> DEFINE M == Len(tr)
  <2>1. new = Append(tr, point) /\ Context(r) > 0
    BY <1>4, <1>6, <1>8
  <2>2. tr \in Seq(Point) /\ M \in Nat /\ DOMAIN tr = 1 .. M
    BY DEF TracedTo
  <2>3. before = IF M = 0 THEN 0 ELSE tr[M].input
    BY <2>2 DEF before, Last
  <2>4. before \in Int
    <3>1. M # 0 => tr[M] \in Point
      BY <2>2
    <3>2. QED
      BY <2>3, <3>1 DEF Point
  <2>5. point \in Point /\ point.line = e /\ point.delta = point.input - before
    BY <1>6, <1>8, <2>4 DEF Point
  <2> HIDE DEF point
  <2>6. /\ new \in Seq(Point) /\ DOMAIN new = 1 .. M + 1 /\ new[M + 1] = point
        /\ \A i \in 1 .. M : new[i] = tr[i]
    BY <2>1, <2>2, <2>5
  <2> HIDE DEF M
  <2>7. \A i \in DOMAIN new : i \in 1 .. M \/ i = M + 1
    BY <2>2, <2>6
  <2>8. FromBefore(new)
    <3> SUFFICES ASSUME NEW i \in DOMAIN new
                 PROVE  new[i].delta = new[i].input - (IF i = 1 THEN 0 ELSE new[i - 1].input)
      BY DEF FromBefore
    <3>1. CASE i \in 1 .. M
      <4>1. i # 1 => i - 1 \in 1 .. M
        BY <2>2, <3>1
      <4>2. tr[i].delta = tr[i].input - (IF i = 1 THEN 0 ELSE tr[i - 1].input)
        BY <2>2, <3>1 DEF TracedTo, FromBefore
      <4>3. QED
        BY <2>6, <3>1, <4>1, <4>2
    <3>2. CASE i = M + 1
      <4>1. i - 1 = M /\ (i = 1 <=> M = 0) /\ (M # 0 => M \in 1 .. M)
        BY <2>2, <3>2
      <4>2. before = IF i = 1 THEN 0 ELSE new[i - 1].input
        BY <2>3, <2>6, <4>1
      <4>3. QED
        BY <2>5, <2>6, <3>2, <4>2
    <3>3. QED
      BY <2>7, <3>1, <3>2
  <2>9. \A x : Stands(records, turns, k, x) => x < e
    <3> SUFFICES ASSUME NEW x, Stands(records, turns, k, x) PROVE x < e
      OBVIOUS
    <3>1. PICK j \in Billed(turns) : j <= k /\ x = Last(turns[j].lines)
      BY DEF Stands
    <3>2. j < k + 1 /\ k + 1 \in Billed(turns)
      BY <1>1, <1>2, <1>8, <3>1
    <3>3. QED
      BY <3>1, <3>2 DEF TurnsInOrder, e, turn
  <2>10. \A i, j \in DOMAIN new : i < j => new[i].line < new[j].line
    <3> SUFFICES ASSUME NEW i \in DOMAIN new, NEW j \in DOMAIN new, i < j
                 PROVE  new[i].line < new[j].line
      OBVIOUS
    <3>1. i \in 1 .. M
      BY <2>2, <2>6, <2>7
    <3>2. new[i].line = tr[i].line /\ tr[i].line < e
      BY <2>2, <2>6, <2>9, <3>1 DEF TracedTo
    <3>3. CASE j \in 1 .. M
      BY <2>2, <2>6, <3>1, <3>3 DEF TracedTo
    <3>4. CASE j = M + 1
      BY <2>5, <2>6, <3>2, <3>4
    <3>5. QED
      BY <2>7, <3>3, <3>4
  <2>11. \A i \in DOMAIN new : Stands(records, turns, k + 1, new[i].line)
    <3> SUFFICES ASSUME NEW i \in DOMAIN new PROVE Stands(records, turns, k + 1, new[i].line)
      OBVIOUS
    <3>1. CASE i \in 1 .. M
      BY <1>5, <2>2, <2>6, <3>1 DEF TracedTo
    <3>2. CASE i = M + 1
      BY <1>5, <1>8, <2>1, <2>5, <2>6, <3>2
    <3>3. QED
      BY <2>7, <3>1, <3>2
  <2>12. \A x : Stands(records, turns, k + 1, x) => \E i \in DOMAIN new : new[i].line = x
    <3>1. \A x : Stands(records, turns, k, x) => \E i \in DOMAIN new : new[i].line = x
      <4> SUFFICES ASSUME NEW x, Stands(records, turns, k, x)
                   PROVE  \E i \in DOMAIN new : new[i].line = x
        OBVIOUS
      <4>1. PICK i \in DOMAIN tr : tr[i].line = x
        BY DEF TracedTo
      <4>2. i \in DOMAIN new /\ new[i].line = x
        BY <2>2, <2>6, <4>1
      <4>3. QED
        BY <4>2
    <3>2. M + 1 \in DOMAIN new /\ new[M + 1].line = e
      BY <2>2, <2>5, <2>6
    <3>3. QED
      BY <1>5, <3>1, <3>2
  <2>13. TracedTo(records, turns, new, k + 1)
    BY <2>6, <2>8, <2>10, <2>11, <2>12 DEF TracedTo
  <2>14. QED
    BY <2>13 DEF new, turn
<1>9. QED
  BY <1>7, <1>8

(* A record is found by its line.                                          *)
LEMMA AtLine ==
  ASSUME NEW l, NEW n \in Nat, NEW st, Recorded(st, l, n), NEW i \in DOMAIN st.records
  PROVE  At(st.records, st.records[i].line) = st.records[i]
<1> DEFINE R == st.records
           e == R[i].line
           I == {j \in 1 .. Len(R) : R[j].line = e}
<1>1. DOMAIN R = 1 .. Len(R) /\ Len(R) \in Nat
  BY AppendSeq DEF Recorded
<1>2. i \in I
  BY <1>1
<1>3. \A j \in I : j = i
  <2> SUFFICES ASSUME NEW j \in I PROVE j = i
    OBVIOUS
  <2>1. j \in DOMAIN R /\ i \in DOMAIN R /\ R[j].line = R[i].line /\ R[i].line \in Nat
    BY <1>1 DEF Recorded
  <2>2. ~(j < i) /\ ~(i < j)
    BY <2>1 DEF Recorded
  <2>3. QED
    BY <1>1, <2>1, <2>2
<1>4. RecordAt(R, e) = IF I # {} THEN Max(I) ELSE 0
  BY DEF RecordAt, SelectLastInSeq
<1>5. I \in SUBSET (1 .. Len(R))
  OBVIOUS
<1> HIDE DEF I, R, e
<1>6. Max(I) \in I
  BY <1>1, <1>2, <1>5, MaxAmong
<1>7. RecordAt(R, e) = i
  BY <1>2, <1>3, <1>4, <1>6
<1>8. QED
  BY <1>7 DEF At, R, e

(* When a parse ends, its turns stand for the lines that end a turn.       *)
LEMMA ClosedTurns ==
  ASSUME NEW l, NEW N \in Nat, DOMAIN l = 1 .. N, Len(l) = N, NEW st, Follows(st, l, N), NEW n
  PROVE  LET turns == CloseTurn(st, n).turns
         IN TurnsInOrder(turns) /\ Lasts(turns) = TurnEnds(l)
<1> DEFINE turns == CloseTurn(st, n).turns
<1>1. turns = IF st.turn = None THEN st.turns ELSE Append(st.turns, [st.turn EXCEPT !.end = n])
  BY CloseTurnFields DEF Follows
<1>2. /\ TurnsInOrder(st.turns) /\ st.turn \in TurnRecord \cup {None}
      /\ \A e \in Lasts(st.turns), o \in OpenLast(st.turn) : e < o
      /\ Lasts(st.turns) \cup OpenLast(st.turn) = EndsAmong(l, N)
  BY DEF Follows, Grouped
<1> HIDE DEF turns
<1>3. TurnsInOrder(turns) /\ Lasts(turns) = EndsAmong(l, N)
  <2>1. CASE st.turn = None
    BY <1>1, <1>2, <2>1 DEF OpenLast
  <2>2. CASE st.turn # None
    <3> DEFINE closed == Append(st.turns, [st.turn EXCEPT !.end = n])
    <3>1. st.turn \in TurnRecord
      BY <1>2, <2>2
    <3>2. /\ Lasts(closed) = Lasts(st.turns) \cup OpenLast(st.turn)
          /\ TurnsInOrder(closed)
      BY <1>2, <3>1, LastsClose
    <3>3. turns = closed
      BY <1>1, <2>2
    <3> HIDE DEF closed
    <3>4. QED
      BY <1>2, <3>2, <3>3
  <2>3. QED
    BY <2>1, <2>2
<1>4. EndsAmong(l, N) = TurnEnds(l)
  BY DEF EndsAmong, TurnEnds, InTurn, Boundary
<1>5. QED
  BY <1>3, <1>4 DEF turns

LEMMA FollowsTraced ==
  ASSUME NEW l, NEW N \in Nat, DOMAIN l = 1 .. N, Len(l) = N, NEW st, Follows(st, l, N), NEW n
  PROVE  TracedByLog(FinishParse(st, n), l)
<1> DEFINE turns == CloseTurn(st, n).turns
           R == st.records
           tr == CtxTurns(turns, R)
           K == Len(turns)
<1>1. FinishParse(st, n).records = R /\ FinishParse(st, n).trace = tr
  BY FinishFields DEF Follows
<1>2. TurnsInOrder(turns) /\ Lasts(turns) = TurnEnds(l)
  BY ClosedTurns
<1>3. /\ Recorded(st, l, N)
      /\ \A i \in DOMAIN R : R[i].line \in Nat /\ Context(R[i]) \in Int
      /\ \A k \in 1 .. N : l[k].kind = "usage" => \E i \in DOMAIN R : R[i].line = k
  BY DEF Follows, Recorded
<1>4. \A i \in DOMAIN R : At(R, R[i].line) = R[i]
  BY <1>3, AtLine
<1>5. \A e \in TurnEnds(l) : \E i \in DOMAIN R : R[i].line = e /\ At(R, e) = R[i]
  <2>1. \A e \in TurnEnds(l) : e \in 1 .. N /\ l[e].kind = "usage"
    BY DEF TurnEnds
  <2>2. QED
    BY <1>3, <1>4, <2>1
<1> HIDE DEF turns, R
<1>6. Found(R, turns)
  <2>1. \A j \in Billed(turns) : Last(turns[j].lines) \in TurnEnds(l)
    BY <1>2 DEF Lasts
  <2>2. QED
    BY <1>3, <1>5, <2>1 DEF Found
<1>7. K \in Nat /\ DOMAIN turns = 1 .. K
  BY <1>2, AppendSeq DEF TurnsInOrder
<1> HIDE DEF K, tr
<1>8. PICK H : TraceSteps(R, turns, K, H)
  BY <1>6, <1>7, TraceByTurn
<1>9. /\ H[0] = <<>> /\ H[K] = tr
      /\ \A k \in 0 .. K - 1 : H[k + 1] = TraceStep(R, H[k], turns[k + 1])
  BY <1>8 DEF TraceSteps, tr
<1> DEFINE S == {k \in Nat : k <= K => TracedTo(R, turns, H[k], k)}
<1>10. 0 \in S
  <2>1. TracedTo(R, turns, <<>>, 0)
    <3>1. \A e : ~Stands(R, turns, 0, e)
      BY <1>7 DEF Stands, Billed
    <3>2. <<>> \in Seq(Point) /\ DOMAIN <<>> = {}
      OBVIOUS
    <3>3. QED
      BY <3>1, <3>2 DEF TracedTo, FromBefore
  <2>2. QED
    BY <1>9, <2>1
<1>11. ASSUME NEW k \in S
       PROVE  k + 1 \in S
  <2> SUFFICES ASSUME k + 1 <= K PROVE TracedTo(R, turns, H[k + 1], k + 1)
    OBVIOUS
  <2>1. k \in 0 .. K - 1 /\ TracedTo(R, turns, H[k], k)
    BY <1>7
  <2>2. TracedTo(R, turns, TraceStep(R, H[k], turns[k + 1]), k + 1)
    BY <1>2, <1>6, <1>7, <2>1, TracedStep
  <2>3. QED
    BY <1>9, <2>1, <2>2
<1>12. S \in SUBSET Nat
  OBVIOUS
<1> HIDE DEF S
<1>13. S = Nat
  BY <1>10, <1>11, <1>12, Induct
<1>14. TracedTo(R, turns, tr, K)
  BY <1>7, <1>9, <1>13 DEF S
<1>15. \A e : Stands(R, turns, K, e) <=> e \in TurnEnds(l) /\ Context(At(R, e)) > 0
  BY <1>2, <1>7 DEF Stands, Lasts, Billed
<1>16. tr \in Seq(Point) /\ FromBefore(tr)
  BY <1>14 DEF TracedTo
<1>17. {t.line : t \in ToSet(tr)} =
         {r.line : r \in {s \in ToSet(R) : s.line \in TurnEnds(l) /\ Context(s) > 0}}
  <2>1. \A e : (\E i \in DOMAIN tr : tr[i].line = e) <=>
                  e \in TurnEnds(l) /\ Context(At(R, e)) > 0
    BY <1>14, <1>15 DEF TracedTo
  <2>2. \A e : e \in {t.line : t \in ToSet(tr)} <=> \E i \in DOMAIN tr : tr[i].line = e
    BY DEF ToSet
  <2>3. \A e : (\E i \in DOMAIN R : /\ R[i].line = e /\ R[i].line \in TurnEnds(l)
                                    /\ Context(R[i]) > 0) <=>
                  e \in TurnEnds(l) /\ Context(At(R, e)) > 0
    BY <1>4, <1>5 DEF R
  <2>4. \A e : e \in {r.line : r \in {s \in ToSet(R) : s.line \in TurnEnds(l) /\ Context(s) > 0}}
                 <=> \E i \in DOMAIN R : /\ R[i].line = e /\ R[i].line \in TurnEnds(l)
                                         /\ Context(R[i]) > 0
    BY DEF ToSet
  <2>5. QED
    BY <2>1, <2>2, <2>3, <2>4
<1>18. ASSUME NEW i \in DOMAIN tr
       PROVE  /\ i > 1 => tr[i - 1].line < tr[i].line
              /\ Deltas(SubSeq(tr, 1, i)) = tr[i].input
  <2>1. DOMAIN tr = 1 .. Len(tr) /\ Len(tr) \in Nat /\ i \in Nat /\ i >= 1
    BY <1>16
  <2>2. i > 1 => tr[i - 1].line < tr[i].line
    <3>1. i > 1 => i - 1 \in DOMAIN tr /\ i - 1 < i
      BY <2>1
    <3>2. QED
      BY <1>14, <3>1 DEF TracedTo
  <2> DEFINE s == SubSeq(tr, 1, i)
  <2>3. /\ s \in Seq(Point) /\ Len(s) = i /\ DOMAIN s = 1 .. i
        /\ \A j \in 1 .. i : s[j] = tr[j]
    BY <1>16, <2>1
  <2> HIDE DEF s
  <2>4. FromBefore(s)
    <3> SUFFICES ASSUME NEW j \in 1 .. i
                 PROVE  s[j].delta = s[j].input - (IF j = 1 THEN 0 ELSE s[j - 1].input)
      BY <2>3 DEF FromBefore
    <3>1. j \in DOMAIN tr /\ (j # 1 => j - 1 \in 1 .. i)
      BY <2>1
    <3>2. tr[j].delta = tr[j].input - (IF j = 1 THEN 0 ELSE tr[j - 1].input)
      BY <1>16, <3>1 DEF FromBefore
    <3>3. QED
      BY <2>3, <3>1, <3>2
  <2>5. s # <<>>
    BY <2>1, <2>3
  <2>6. Deltas(s) = tr[i].input
    BY <2>1, <2>3, <2>4, <2>5, DeltasAddUp
  <2>7. QED
    BY <2>2, <2>6 DEF s
<1>19. \A p : p.records = R /\ p.trace = tr => TracedByLog(p, l)
  <2> SUFFICES ASSUME NEW p, p.records = R, p.trace = tr PROVE TracedByLog(p, l)
    OBVIOUS
  <2>1. {t.line : t \in ToSet(p.trace)} =
          {r.line : r \in {s \in ToSet(p.records) : s.line \in TurnEnds(l) /\ Context(s) > 0}}
    BY <1>17
  <2>2. \A i \in DOMAIN p.trace :
           /\ i > 1 => p.trace[i - 1].line < p.trace[i].line
           /\ Deltas(SubSeq(p.trace, 1, i)) = [j \in DOMAIN p.trace |-> p.trace[j].input][i]
    BY <1>18
  <2>3. QED
    BY <2>1, <2>2 DEF TracedByLog, Deltas
<1>20. QED
  BY <1>1, <1>19

-----------------------------------------------------------------------------
(* The calls of a thread, and what settles them.                           *)

(* The calls, the patches and the results of a journal.                    *)
CallsIn(lines) == {n \in DOMAIN lines : lines[n].kind = "tool_call"}
PatchesIn(lines) == {n \in DOMAIN lines : lines[n].kind = "patch_apply_end"}
OutputsIn(lines) == {n \in DOMAIN lines : lines[n].kind = "tool_output"}

WorkLine(line) ==
    /\ line.kind = "tool_call" =>
          /\ line.call \in Calls /\ line.turn \in Rollouts \X Nat
          /\ line.patches \in BOOLEAN /\ line.lines = 2
    /\ line.kind = "patch_apply_end" => line.ok \in BOOLEAN /\ line.lines = 1
    /\ line.kind = "tool_output" => line.call \in Calls /\ line.failed \in BOOLEAN

(* A call is made once and settled once, and no call of another turn comes *)
(* between a call and a patch of its turn.                                 *)
WorkOk(lines) ==
    /\ \A n \in DOMAIN lines : WorkLine(lines[n])
    /\ \A c, d \in CallsIn(lines) : lines[c].call = lines[d].call => c = d
    /\ \A o, u \in OutputsIn(lines) : lines[o].call = lines[u].call => o = u
    /\ \A c, d \in CallsIn(lines), p \in PatchesIn(lines) :
          c < d /\ d < p /\ lines[c].turn = lines[p].turn => lines[d].turn = lines[p].turn

TaskMarks == {"task_started", "task_complete"}

(* A turn is of the rollout that began it, and calls since are its calls.  *)
CallTurns(file, lines) ==
    \A c \in CallsIn(lines) :
        /\ file = "parent" => lines[c].turn[1] = "parent"
        /\ lines[c].turn[1] = file => lines[c].turn[2] < c

SinceMark(lines, turn, n) == \A c \in CallsIn(lines) : c > n => lines[c].turn = turn

TurnsOk(file) ==
    /\ CallTurns(file, journal[file])
    /\ TurnOf(file) # None =>
          SinceMark(journal[file], TurnOf(file), LastOwn(file, TaskMarks))

ChurnInv ==
    /\ \A file \in Rollouts : WorkOk(journal[file]) /\ TurnsOk(file)
    /\ replayed <= Len(journal["fork"])

(* The last own line of a kind, when a line is added.                      *)
LEMMA LastOwnWrite ==
  ASSUME CodexInv, ChurnInv, NEW file \in Rollouts, NEW line, NEW kinds,
         Longer(journal[file], journal'[file], line), replayed' = replayed
  PROVE  LastOwn(file, kinds)' = IF line.kind \in kinds THEN Len(journal[file]) + 1
                                 ELSE LastOwn(file, kinds)
<1> DEFINE lines == journal[file]
           new == journal'[file]
           N == Len(lines)
           first == IF file = "fork" THEN replayed + 1 ELSE 1
           own == {n \in OwnLines(file) : lines[n].kind \in kinds}
           own2 == {n \in OwnLines(file)' : new[n].kind \in kinds}
<1>1. /\ N \in Nat /\ Len(new) = N + 1 /\ \A i \in 1 .. N : new[i] = lines[i]
      /\ new[N + 1] = line
  BY DEF Longer
<1>2. first \in Nat /\ 1 <= first /\ first <= N + 1
  BY <1>1 DEF CodexInv, ChurnInv
<1>3. OwnLines(file) = first .. N /\ OwnLines(file)' = first .. N + 1
  BY <1>1 DEF OwnLines
<1>4. /\ LastOwn(file, kinds) = IF own = {} THEN 0 ELSE Max(own)
      /\ LastOwn(file, kinds)' = IF own2 = {} THEN 0 ELSE Max(own2)
  BY DEF LastOwn
<1> HIDE DEF lines, new, N, first
<1>5. \A n : n \in first .. N + 1 <=> n \in first .. N \/ n = N + 1
  BY <1>1, <1>2
<1>6. \A n \in first .. N : n \in 1 .. N
  BY <1>1, <1>2
<1>7. own2 = own \cup (IF line.kind \in kinds THEN {N + 1} ELSE {})
  BY <1>1, <1>3, <1>5, <1>6
<1>8. own2 \in SUBSET (1 .. N + 1) /\ N + 1 \notin 1 .. N
  BY <1>1, <1>2, <1>3
<1>9. CASE line.kind \in kinds
  <2>1. N + 1 \in own2
    BY <1>7, <1>9
  <2> HIDE DEF own2, own
  <2>2. Max(own2) = N + 1
    BY <1>1, <1>8, <2>1, MaxOf
  <2>3. QED
    BY <1>4, <1>9, <2>1, <2>2 DEF N, lines
<1>10. CASE line.kind \notin kinds
  <2>1. own2 = own
    BY <1>7, <1>10
  <2> HIDE DEF own2, own
  <2>2. QED
    BY <1>4, <1>10, <2>1
<1>11. QED
  BY <1>9, <1>10

LEMMA LongerKinds ==
  ASSUME NEW lines, NEW new, NEW line, Longer(lines, new, line)
  PROVE  /\ \A n \in CallsIn(new) : \/ n \in CallsIn(lines) /\ new[n] = lines[n]
                                    \/ n = Len(lines) + 1 /\ line.kind = "tool_call"
         /\ \A n \in PatchesIn(new) : \/ n \in PatchesIn(lines) /\ new[n] = lines[n]
                                      \/ n = Len(lines) + 1 /\ line.kind = "patch_apply_end"
         /\ \A n \in OutputsIn(new) : \/ n \in OutputsIn(lines) /\ new[n] = lines[n]
                                      \/ n = Len(lines) + 1 /\ line.kind = "tool_output"
         /\ new[Len(lines) + 1] = line
         /\ Len(lines) \in Nat /\ \A n \in DOMAIN lines : n \in Nat /\ n < Len(lines) + 1
<1>1. /\ Len(lines) \in Nat /\ DOMAIN lines = 1 .. Len(lines)
      /\ DOMAIN new = 1 .. Len(lines) + 1
      /\ \A i \in 1 .. Len(lines) : new[i] = lines[i]
      /\ new[Len(lines) + 1] = line
  BY DEF Longer
<1>2. \A n \in DOMAIN new : n \in DOMAIN lines \/ n = Len(lines) + 1
  BY <1>1
<1>3. QED
  BY <1>1, <1>2 DEF CallsIn, PatchesIn, OutputsIn

(* A line more: what it adds is a new call, a first result, or a patch of  *)
(* the turn at work, or of a subagent.                                     *)
LEMMA WorkLonger ==
  ASSUME NEW lines, NEW new, NEW line, Longer(lines, new, line), WorkOk(lines), WorkLine(line),
         line.kind = "tool_call" => \A c \in CallsIn(lines) : lines[c].call # line.call,
         line.kind = "tool_output" => \A o \in OutputsIn(lines) : lines[o].call # line.call,
         line.kind = "patch_apply_end" =>
            \A c, d \in CallsIn(lines) :
               c < d /\ lines[c].turn = line.turn => lines[d].turn = line.turn
  PROVE  WorkOk(new)
<1> DEFINE N == Len(lines)
<1>1. /\ \A n \in CallsIn(new) : \/ n \in CallsIn(lines) /\ new[n] = lines[n]
                                 \/ n = N + 1 /\ line.kind = "tool_call"
      /\ \A n \in PatchesIn(new) : \/ n \in PatchesIn(lines) /\ new[n] = lines[n]
                                   \/ n = N + 1 /\ line.kind = "patch_apply_end"
      /\ \A n \in OutputsIn(new) : \/ n \in OutputsIn(lines) /\ new[n] = lines[n]
                                   \/ n = N + 1 /\ line.kind = "tool_output"
      /\ new[N + 1] = line
      /\ N \in Nat /\ \A n \in DOMAIN lines : n \in Nat /\ n < N + 1
  BY LongerKinds
<1>2. \A n \in CallsIn(lines) \cup PatchesIn(lines) : n \in DOMAIN lines
  BY DEF CallsIn, PatchesIn
<1>3. \A n \in DOMAIN new : WorkLine(new[n])
  <2>1. \A n \in DOMAIN new : (n \in DOMAIN lines /\ new[n] = lines[n]) \/ new[n] = line
    BY DEF Longer
  <2>2. QED
    BY <2>1 DEF WorkOk
<1> HIDE DEF N
<1>4. \A c, d \in CallsIn(new) : new[c].call = new[d].call => c = d
  BY <1>1 DEF WorkOk
<1>5. \A o, u \in OutputsIn(new) : new[o].call = new[u].call => o = u
  BY <1>1 DEF WorkOk
<1>6. ASSUME NEW c \in CallsIn(new), NEW d \in CallsIn(new), NEW p \in PatchesIn(new),
             c < d, d < p, new[c].turn = new[p].turn
      PROVE  new[d].turn = new[p].turn
  <2>1. p \in PatchesIn(lines) /\ new[p] = lines[p] => p \in Nat /\ p < N + 1
    BY <1>1, <1>2
  <2>2. p \in Nat /\ p <= N + 1
    BY <1>1, <2>1
  <2>3. d \in CallsIn(lines) /\ new[d] = lines[d] /\ d \in Nat /\ d < N + 1
    BY <1>1, <1>2, <1>6, <2>2
  <2>4. c \in CallsIn(lines) /\ new[c] = lines[c]
    BY <1>1, <1>6, <2>3
  <2>5. CASE p \in PatchesIn(lines) /\ new[p] = lines[p]
    BY <1>6, <2>3, <2>4, <2>5 DEF WorkOk
  <2>6. CASE p = N + 1 /\ line.kind = "patch_apply_end"
    BY <1>1, <1>6, <2>3, <2>4, <2>6
  <2>7. QED
    BY <1>1, <2>5, <2>6
<1>7. QED
  BY <1>3, <1>4, <1>5, <1>6 DEF WorkOk

(* What a fork replays is work of the same kind.                           *)
LEMMA ReplayWork ==
  ASSUME NEW lines, IsSeq(lines), WorkOk(lines), CallTurns("parent", lines),
         NEW k \in 2 .. Len(lines) + 1, NEW head, head.kind = "session_meta"
  PROVE  LET new == <<head>> \o SubSeq(lines, k, Len(lines))
         IN WorkOk(new) /\ CallTurns("fork", new)
<1> DEFINE new == <<head>> \o SubSeq(lines, k, Len(lines))
           M == Len(lines) - k + 2
           Origin(n) == k + n - 2
<1>1. /\ M \in Nat /\ DOMAIN new = 1 .. M /\ new[1] = head
      /\ \A n \in DOMAIN new : n = 1 \/ n \in 2 .. M
      /\ \A n \in 2 .. M : Origin(n) \in DOMAIN lines /\ new[n] = lines[Origin(n)]
  BY ReplayLines
<1>2. k \in Nat
  <2>1. Len(lines) \in Nat
    BY AppendSeq
  <2>2. QED
    BY <2>1
<1> HIDE DEF new, M
<1>3. \A n \in DOMAIN new :
         n \in Nat /\ (n # 1 => Origin(n) \in DOMAIN lines /\ new[n] = lines[Origin(n)])
  BY <1>1
<1>4. \A m, n \in DOMAIN new : (Origin(m) = Origin(n) => m = n) /\ (m < n => Origin(m) < Origin(n))
  BY <1>2, <1>3
<1> HIDE DEF Origin
<1>5. /\ \A n \in CallsIn(new) :
            n \in DOMAIN new /\ Origin(n) \in CallsIn(lines) /\ new[n] = lines[Origin(n)]
      /\ \A n \in PatchesIn(new) :
            n \in DOMAIN new /\ Origin(n) \in PatchesIn(lines) /\ new[n] = lines[Origin(n)]
      /\ \A n \in OutputsIn(new) :
            n \in DOMAIN new /\ Origin(n) \in OutputsIn(lines) /\ new[n] = lines[Origin(n)]
  BY <1>1, <1>3 DEF CallsIn, PatchesIn, OutputsIn
<1>6. \A n \in DOMAIN new : WorkLine(new[n])
  <2>1. WorkLine(head)
    BY DEF WorkLine
  <2>2. QED
    BY <1>1, <1>3, <2>1 DEF WorkOk
<1>7. \A c, d \in CallsIn(new) : new[c].call = new[d].call => c = d
  BY <1>4, <1>5 DEF WorkOk
<1>8. \A o, u \in OutputsIn(new) : new[o].call = new[u].call => o = u
  BY <1>4, <1>5 DEF WorkOk
<1>9. ASSUME NEW c \in CallsIn(new), NEW d \in CallsIn(new), NEW p \in PatchesIn(new),
             c < d, d < p, new[c].turn = new[p].turn
      PROVE  new[d].turn = new[p].turn
  <2>1. Origin(c) < Origin(d) /\ Origin(d) < Origin(p)
    BY <1>4, <1>5, <1>9
  <2>2. QED
    BY <1>5, <1>9, <2>1 DEF WorkOk
<1>10. CallTurns("fork", new)
  BY <1>5 DEF CallTurns
<1>11. QED
  BY <1>6, <1>7, <1>8, <1>9, <1>10 DEF WorkOk, new

LEMMA OtherTurns ==
  ASSUME NEW f \in Rollouts, TurnsOk(f), journal'[f] = journal[f],
         f = "fork" => replayed' = replayed
  PROVE  TurnsOk(f)'
<1>1. OwnLines(f)' = OwnLines(f)
  BY DEF OwnLines
<1>2. LastOwn(f, {"task_started", "task_complete"})' = LastOwn(f, {"task_started", "task_complete"})
  BY <1>1 DEF LastOwn
<1>3. TurnOf(f)' = TurnOf(f) /\ LastOwn(f, TaskMarks)' = LastOwn(f, TaskMarks)
  BY <1>2 DEF TurnOf, TaskMarks
<1>4. QED
  BY <1>3 DEF TurnsOk

(* The turn at work began at its mark.                                     *)
LEMMA TurnAtMark ==
  ASSUME CodexInv, NEW file \in Rollouts, TurnOf(file) # None
  PROVE  LET n == LastOwn(file, TaskMarks)
         IN /\ TurnOf(file) = <<file, n>> /\ n \in DOMAIN journal[file] /\ n \in Nat
<1> DEFINE n == LastOwn(file, TaskMarks)
<1>1. n # 0 /\ TurnOf(file) = <<file, n>>
  BY DEF TurnOf, TaskMarks
<1>2. n \in DOMAIN journal[file]
  BY <1>1, LastOwnLine
<1>3. DOMAIN journal[file] = 1 .. Len(journal[file]) /\ Len(journal[file]) \in Nat
  BY AppendSeq DEF CodexInv, JournalOk, LinesOk
<1>4. QED
  BY <1>1, <1>2, <1>3

LEMMA TurnsLonger ==
  ASSUME CodexInv, ChurnInv, NEW file \in Rollouts, NEW line,
         Longer(journal[file], journal'[file], line), replayed' = replayed,
         line.kind = "tool_call" => TurnOf(file) # None /\ line.turn = TurnOf(file)
  PROVE  TurnsOk(file)'
<1> DEFINE lines == journal[file]
           new == journal'[file]
           N == Len(lines)
           n == LastOwn(file, TaskMarks)
<1>1. /\ \A c \in CallsIn(new) : \/ c \in CallsIn(lines) /\ new[c] = lines[c]
                                 \/ c = N + 1 /\ line.kind = "tool_call"
      /\ new[N + 1] = line
      /\ N \in Nat /\ \A c \in DOMAIN lines : c \in Nat /\ c < N + 1
  BY LongerKinds
<1>2. TurnOf(file) # None =>
        TurnOf(file) = <<file, n>> /\ n \in DOMAIN lines /\ n \in Nat /\ n < N + 1
  BY <1>1, TurnAtMark
<1>3. n' = IF line.kind \in TaskMarks THEN N + 1 ELSE n
  BY LastOwnWrite
<1>4. CallTurns(file, lines) /\ (TurnOf(file) # None => SinceMark(lines, TurnOf(file), n))
  BY DEF ChurnInv, TurnsOk
<1>5. TurnOf(file) = IF n # 0 /\ lines[n].kind = "task_started" THEN <<file, n>> ELSE None
  BY DEF TurnOf, TaskMarks
<1>6. TurnOf(file)' = IF n' # 0 /\ new[n'].kind = "task_started" THEN <<file, n'>> ELSE None
  BY DEF TurnOf, TaskMarks
<1>7. n # 0 => n \in DOMAIN lines /\ new[n] = lines[n]
  <2>1. n # 0 => n \in DOMAIN lines
    BY LastOwnLine
  <2>2. \A i \in DOMAIN lines : new[i] = lines[i]
    BY DEF Longer
  <2>3. QED
    BY <2>1, <2>2
<1> HIDE DEF n, N
<1>8. CallTurns(file, new)
  <2> SUFFICES ASSUME NEW c \in CallsIn(new)
               PROVE  /\ file = "parent" => new[c].turn[1] = "parent"
                      /\ new[c].turn[1] = file => new[c].turn[2] < c
    BY DEF CallTurns
  <2>1. CASE c \in CallsIn(lines) /\ new[c] = lines[c]
    BY <1>4, <2>1 DEF CallTurns
  <2>2. CASE c = N + 1 /\ line.kind = "tool_call"
    <3>1. new[c].turn = <<file, n>> /\ n < c
      BY <1>1, <1>2, <2>2
    <3>2. QED
      BY <3>1
  <2>3. QED
    BY <1>1, <2>1, <2>2
<1>9. CASE line.kind \in TaskMarks
  <2>1. \A c \in CallsIn(new) : ~(c > N + 1)
    <3>1. \A c \in CallsIn(lines) : c \in DOMAIN lines
      BY DEF CallsIn
    <3>2. QED
      BY <1>1, <3>1
  <2>2. SinceMark(new, TurnOf(file)', n')
    BY <1>3, <1>9, <2>1 DEF SinceMark
  <2>3. QED
    BY <1>8, <2>2 DEF TurnsOk, n
<1>10. CASE line.kind \notin TaskMarks
  <2>1. n' = n
    BY <1>3, <1>10
  <2>2. TurnOf(file)' = TurnOf(file)
    BY <1>5, <1>6, <1>7, <2>1
  <2>3. TurnOf(file) # None => SinceMark(new, TurnOf(file), n)
    BY <1>1, <1>4 DEF SinceMark
  <2>4. QED
    BY <1>8, <2>1, <2>2, <2>3 DEF TurnsOk, n
<1>11. QED
  BY <1>9, <1>10

(* Once a turn has a call, the calls that follow are of that turn too, for *)
(* as long as it is at work.                                               *)
LEMMA TurnHolds ==
  ASSUME CodexInv, ChurnInv, NEW file \in Rollouts, NEW turn,
         \/ TurnOf(file) # None /\ turn = TurnOf(file)
         \/ turn = <<"subagent", 0>>,
         NEW c \in CallsIn(journal[file]), NEW d \in CallsIn(journal[file]), c < d,
         journal[file][c].turn = turn
  PROVE  journal[file][d].turn = turn
<1> DEFINE lines == journal[file]
           n == LastOwn(file, TaskMarks)
<1>1. lines[c].turn \in Rollouts \X Nat /\ CallTurns(file, lines)
  BY DEF ChurnInv, WorkOk, WorkLine, CallsIn, TurnsOk
<1>2. turn # <<"subagent", 0>>
  BY <1>1 DEF Rollouts
<1>3. TurnOf(file) # None /\ turn = TurnOf(file)
  BY <1>2
<1>4. turn = <<file, n>> /\ n \in Nat
  BY <1>3, TurnAtMark
<1>5. SinceMark(lines, turn, n)
  BY <1>3 DEF ChurnInv, TurnsOk
<1> HIDE DEF n, lines
<1>6. c \in Nat /\ d \in Nat
  <2>1. DOMAIN lines = 1 .. Len(lines) /\ Len(lines) \in Nat
    BY AppendSeq DEF CodexInv, JournalOk, LinesOk, lines
  <2>2. c \in DOMAIN lines /\ d \in DOMAIN lines
    BY DEF CallsIn, lines
  <2>3. QED
    BY <2>1, <2>2
<1>7. n < c
  BY <1>1, <1>4 DEF CallTurns, lines
<1>8. d > n
  BY <1>4, <1>6, <1>7
<1>9. QED
  BY <1>5, <1>8 DEF SinceMark, lines

WorkFields(line) ==
    /\ line.kind = "tool_call" => {"call", "turn", "patches", "lines"} \subseteq DOMAIN line
    /\ line.kind = "patch_apply_end" => {"turn", "ok", "lines"} \subseteq DOMAIN line
    /\ line.kind = "tool_output" => {"call", "failed"} \subseteq DOMAIN line

(* A line more of a rollout, of whatever kind.                             *)
LEMMA WriteWork ==
  ASSUME CodexInv, ChurnInv, NEW file \in Rollouts, NEW line, Write(file, line),
         "kind" \in DOMAIN line, WorkFields(line), WorkLine(line),
         line.kind = "tool_call" =>
            /\ TurnOf(file) # None /\ line.turn = TurnOf(file)
            /\ \A c \in CallsIn(journal[file]) : journal[file][c].call # line.call,
         line.kind = "tool_output" =>
            \A o \in OutputsIn(journal[file]) : journal[file][o].call # line.call,
         line.kind = "patch_apply_end" =>
            \/ TurnOf(file) # None /\ line.turn = TurnOf(file)
            \/ line.turn = <<"subagent", 0>>
  PROVE  ChurnInv'
<1> DEFINE stamped == [ts |-> Now(file)] ++ line
           lines == journal[file]
           new == Append(lines, stamped)
<1>1. DOMAIN journal = Rollouts /\ IsSeq(lines)
  BY DEF CodexInv, JournalOk, LinesOk
<1>2. journal' = [journal EXCEPT ![file] = new] /\ replayed' = replayed
  BY DEF Write, Journal
<1>3. Longer(lines, new, stamped)
  BY <1>1, AppendLonger
<1> HIDE DEF new
<1>4. journal'[file] = new /\ \A f \in Rollouts \ {file} : journal'[f] = journal[f]
  BY <1>1, <1>2
<1>5. stamped.kind = line.kind
      /\ \A x \in {"call", "turn", "patches", "lines", "ok", "failed"} :
           x \in DOMAIN line => stamped[x] = line[x]
  <2>1. \A x \in DOMAIN line : x # "ts" => stamped[x] = line[x]
    BY DEF ++
  <2> HIDE DEF stamped
  <2>2. QED
    BY <2>1
<1> HIDE DEF stamped
<1>6. /\ line.kind = "tool_call" => stamped.call = line.call /\ stamped.turn = line.turn
                                    /\ stamped.patches = line.patches /\ stamped.lines = line.lines
      /\ line.kind = "patch_apply_end" => stamped.turn = line.turn /\ stamped.ok = line.ok
                                          /\ stamped.lines = line.lines
      /\ line.kind = "tool_output" => stamped.call = line.call /\ stamped.failed = line.failed
  BY <1>5 DEF WorkFields
<1>7. WorkLine(stamped)
  BY <1>5, <1>6 DEF WorkLine
<1>8. WorkOk(lines)
  BY DEF ChurnInv
<1>9. ASSUME line.kind = "patch_apply_end", NEW c \in CallsIn(lines), NEW d \in CallsIn(lines),
             c < d, lines[c].turn = line.turn
      PROVE  lines[d].turn = line.turn
  BY <1>9, TurnHolds
<1>10. WorkOk(new)
  BY <1>3, <1>5, <1>6, <1>7, <1>8, <1>9, WorkLonger
<1>11. TurnsOk(file)'
  BY <1>2, <1>3, <1>4, <1>5, <1>6, TurnsLonger
<1>12. \A f \in Rollouts : WorkOk(journal'[f]) /\ TurnsOk(f)'
  <2>1. ASSUME NEW f \in Rollouts \ {file} PROVE WorkOk(journal'[f]) /\ TurnsOk(f)'
    <3>1. WorkOk(journal[f]) /\ TurnsOk(f)
      BY DEF ChurnInv
    <3>2. QED
      BY <1>2, <1>4, <3>1, OtherTurns
  <2>2. QED
    BY <1>4, <1>10, <1>11, <2>1
<1>13. replayed' <= Len(journal'["fork"])
  <2>1. CASE file = "fork"
    <3>1. Len(new) = Len(lines) + 1 /\ Len(lines) \in Nat
      BY <1>3 DEF Longer
    <3>2. replayed \in Nat /\ replayed <= Len(lines)
      BY <2>1 DEF ChurnInv, CodexInv
    <3>3. QED
      BY <1>2, <1>4, <2>1, <3>1, <3>2
  <2>2. CASE file # "fork"
    <3>1. journal'["fork"] = journal["fork"]
      BY <1>4, <2>2 DEF Rollouts
    <3>2. QED
      BY <1>2, <3>1 DEF ChurnInv
  <2>3. QED
    BY <2>1, <2>2
<1>14. QED
  BY <1>12, <1>13 DEF ChurnInv

(* The first lines of a rollout.                                           *)
LEMMA FirstWork ==
  ASSUME CodexInv, ChurnInv, NEW file \in Rollouts, NEW lines, Journal(file, lines),
         WorkOk(lines), CallTurns(file, lines),
         file = "parent" => replayed' = replayed /\ CallsIn(lines) = {},
         file = "fork" => replayed' = Len(lines) /\ Len(lines) \in Nat
  PROVE  ChurnInv'
<1>1. journal'[file] = lines /\ \A f \in Rollouts \ {file} : journal'[f] = journal[f]
  BY DEF Journal, CodexInv
<1>2. file \in {"parent", "fork"}
  BY DEF Rollouts
<1>3. TurnsOk(file)'
  <2>1. CASE file = "parent"
    <3>1. \A turn, n : SinceMark(lines, turn, n)
      BY <2>1 DEF SinceMark
    <3>2. QED
      BY <1>1, <3>1 DEF TurnsOk
  <2>2. CASE file = "fork"
    <3>1. OwnLines(file)' = {}
      BY <1>1, <2>2 DEF OwnLines
    <3>2. LastOwn(file, {"task_started", "task_complete"})' = 0
      BY <3>1 DEF LastOwn
    <3>3. TurnOf(file)' = None
      BY <3>2 DEF TurnOf
    <3>4. QED
      BY <1>1, <3>3 DEF TurnsOk
  <2>3. QED
    BY <1>2, <2>1, <2>2
<1>4. \A f \in Rollouts : WorkOk(journal'[f]) /\ TurnsOk(f)'
  <2>1. ASSUME NEW f \in Rollouts \ {file} PROVE WorkOk(journal'[f]) /\ TurnsOk(f)'
    <3>1. WorkOk(journal[f]) /\ TurnsOk(f)
      BY DEF ChurnInv
    <3>2. f = "fork" => replayed' = replayed
      BY <1>2
    <3>3. QED
      BY <1>1, <3>1, <3>2, OtherTurns
  <2>2. QED
    BY <1>1, <1>3, <2>1
<1>5. replayed' <= Len(journal'["fork"])
  <2>1. CASE file = "fork"
    BY <1>1, <2>1
  <2>2. CASE file = "parent"
    <3>1. journal'["fork"] = journal["fork"]
      BY <1>1, <2>2 DEF Rollouts
    <3>2. QED
      BY <2>2, <3>1 DEF ChurnInv
  <2>3. QED
    BY <1>2, <2>1, <2>2
<1>6. QED
  BY <1>4, <1>5 DEF ChurnInv

(* A line that is no work.                                                 *)
LEMMA IdleWork ==
  ASSUME CodexInv, ChurnInv, NEW file \in Rollouts, NEW line, Write(file, line),
         "kind" \in DOMAIN line,
         line.kind \notin {"tool_call", "patch_apply_end", "tool_output"}
  PROVE  ChurnInv'
<1>1. line.kind # "tool_call" /\ line.kind # "patch_apply_end" /\ line.kind # "tool_output"
  OBVIOUS
<1>2. WorkFields(line) /\ WorkLine(line)
  BY <1>1 DEF WorkFields, WorkLine
<1>3. QED
  BY <1>1, <1>2, WriteWork

(* The calls of a journal are made in its thread, and of each one there is *)
(* a line.                                                                 *)
LEMMA CallOfLine ==
  ASSUME ChurnInv, NEW file \in Rollouts
  PROVE  /\ \A c \in CallsIn(journal[file]) :
              journal[file][c].call \in {l.call : l \in CallLines(file)}
         /\ {l.call : l \in CallLines(file)} \subseteq Calls
         /\ \A o \in OutputsIn(journal[file]) :
              journal[file][o].call \in {l.call : l \in OutputLines(file)}
<1> DEFINE lines == journal[file]
<1>1. \A c \in CallsIn(lines) : lines[c] \in CallLines(file)
  BY DEF CallsIn, CallLines, ToSet
<1>2. \A o \in OutputsIn(lines) : lines[o] \in OutputLines(file)
  BY DEF OutputsIn, OutputLines, ToSet
<1>3. \A l \in CallLines(file) : l.call \in Calls
  BY DEF CallLines, ToSet, ChurnInv, WorkOk, WorkLine
<1>4. QED
  BY <1>1, <1>2, <1>3

LEMMA ChurnStep ==
  ASSUME CodexInv, ChurnInv, CodexNext
  PROVE  ChurnInv'
<1>1. CASE Begin
  <2>1. PICK head \in {"session_meta", "world_state"} :
          Journal("parent", <<[kind |-> head, session |-> "s", ts |-> 1]>>)
    BY <1>1 DEF Begin
  <2> DEFINE line == [kind |-> head, session |-> "s", ts |-> 1]
             lines == <<line>>
  <2>2. /\ line.kind # "tool_call" /\ line.kind # "patch_apply_end"
        /\ line.kind # "tool_output"
    OBVIOUS
  <2>3. Journal("parent", lines)
    BY <2>1
  <2> HIDE DEF line
  <2>4. DOMAIN lines = {1} /\ lines[1] = line
    OBVIOUS
  <2> HIDE DEF lines
  <2>5. CallsIn(lines) = {} /\ OutputsIn(lines) = {} /\ PatchesIn(lines) = {}
    BY <2>2, <2>4 DEF CallsIn, OutputsIn, PatchesIn
  <2>6. WorkOk(lines) /\ CallTurns("parent", lines)
    BY <2>2, <2>4, <2>5 DEF WorkOk, WorkLine, CallTurns
  <2>7. replayed' = replayed /\ "parent" \in Rollouts
    BY <1>1 DEF Begin, Rollouts
  <2>8. QED
    BY <2>3, <2>5, <2>6, <2>7, FirstWork
<1>2. CASE Fork
  <2> DEFINE old == journal["parent"]
             head == [kind |-> "session_meta", session |-> "s", ts |-> 1]
  <2>1. PICK k \in 2 .. Len(old) + 1 : /\ Journal("fork", <<head>> \o SubSeq(old, k, Len(old)))
                                       /\ replayed' = Len(SubSeq(old, k, Len(old))) + 1
    BY <1>2 DEF Fork
  <2> DEFINE replay == SubSeq(old, k, Len(old))
             lines == <<head>> \o replay
  <2>2. IsSeq(old) /\ "parent" \in Rollouts /\ "fork" \in Rollouts
    BY DEF CodexInv, JournalOk, LinesOk, Rollouts
  <2>3. WorkOk(old) /\ CallTurns("parent", old)
    BY <2>2 DEF ChurnInv, TurnsOk
  <2>4. head.kind = "session_meta"
    OBVIOUS
  <2> HIDE DEF head, old
  <2>5. WorkOk(lines) /\ CallTurns("fork", lines)
    BY <2>2, <2>3, <2>4, ReplayWork
  <2>6. Len(lines) = Len(replay) + 1 /\ Len(lines) \in Nat
    <3>1. PICK T : old \in Seq(T)
      BY <2>2 DEF IsSeq
    <3>2. replay \in Seq(T)
      <4>1. k \in Nat /\ k >= 1
        <5>1. Len(old) \in Nat
          BY <3>1
        <5>2. QED
          BY <5>1
      <4>2. \A i \in k .. Len(old) : old[i] \in T
        BY <3>1, <4>1
      <4>3. QED
        BY <3>1, <4>1, <4>2
    <3> HIDE DEF replay
    <3>3. QED
      BY <3>2
  <2>7. Journal("fork", lines) /\ replayed' = Len(lines)
    BY <2>1, <2>6
  <2> HIDE DEF lines
  <2>8. QED
    BY <2>2, <2>5, <2>6, <2>7, FirstWork
<1>3. ASSUME NEW file \in Rollouts, Request(file)
      PROVE  ChurnInv'
  <2>1. PICK usage \in Requests : Write(file, Reading(Plus(counter[file], usage), usage))
    BY <1>3 DEF Request
  <2>2. /\ "kind" \in DOMAIN Reading(Plus(counter[file], usage), usage)
        /\ Reading(Plus(counter[file], usage), usage).kind = "token_count"
    BY DEF Reading
  <2>3. QED
    BY <2>1, <2>2, IdleWork
<1>4. ASSUME NEW file \in Rollouts, Repeat(file)
      PROVE  ChurnInv'
  <2> DEFINE n == LastOwn(file, {"token_count"})
             lines == journal[file]
             line == [lines[n] EXCEPT !.limit = "primary"]
  <2>1. n # 0 /\ Write(file, line)
    BY <1>4 DEF Repeat, Mark
  <2>2. n \in DOMAIN lines /\ IsReading(lines[n])
    BY <2>1, LastOwnReading
  <2>3. "kind" \in DOMAIN lines[n]
    BY <2>2 DEF CodexInv, JournalOk, LinesOk, LineOk
  <2>4. "kind" \in DOMAIN line /\ line.kind = "token_count"
    BY <2>2, <2>3 DEF IsReading
  <2> HIDE DEF line
  <2>5. QED
    BY <2>1, <2>4, IdleWork
<1>5. ASSUME NEW file \in Rollouts, Declare(file)
      PROVE  ChurnInv'
  <2>1. PICK model \in Models \ {DeclaredBy(file)} :
          Mark(file, [kind |-> "turn_context", model |-> model])
    BY <1>5 DEF Declare
  <2>2. Write(file, [kind |-> "turn_context", model |-> model])
    BY <2>1 DEF Mark
  <2>3. QED
    BY <2>2, IdleWork
<1>6. ASSUME NEW file \in Rollouts,
             TaskStarted(file) \/ TaskComplete(file) \/ AgentMessage(file)
      PROVE  ChurnInv'
  <2>1. PICK kind \in {"task_started", "task_complete", "agent_message"} :
          Mark(file, [kind |-> kind])
    BY <1>6 DEF TaskStarted, TaskComplete, AgentMessage
  <2>2. Write(file, [kind |-> kind])
    BY <2>1 DEF Mark
  <2>3. QED
    BY <2>2, IdleWork
<1>7. ASSUME NEW file \in Rollouts, Call(file)
      PROVE  ChurnInv'
  <2> DEFINE made == UNION {{l.call : l \in CallLines(f)} : f \in Rollouts}
             unused == Calls \ made
             id == CHOOSE c \in unused : TRUE
             Line(patches) == [kind |-> "tool_call", call |-> id,
                               turn |-> TurnOf(file), patches |-> patches, lines |-> 2]
  <2>1. TurnOf(file) # None /\ unused # {} /\ \E patches \in BOOLEAN : Work(file, Line(patches))
    BY <1>7 DEF Call
  <2>2. PICK patches \in BOOLEAN : Work(file, Line(patches))
    BY <2>1
  <2> DEFINE line == Line(patches)
  <2>3. id \in Calls /\ \A f \in Rollouts : id \notin {l.call : l \in CallLines(f)}
    <3>1. id \in unused
      BY <2>1
    <3> HIDE DEF id
    <3>2. id \in Calls /\ id \notin made
      BY <3>1
    <3>3. QED
      BY <3>2
  <2>4. TurnOf(file) \in Rollouts \X Nat
    BY <2>1, TurnAtMark
  <2> HIDE DEF id, unused, made
  <2>5. /\ DOMAIN line = {"kind", "call", "turn", "patches", "lines"}
        /\ line.kind = "tool_call" /\ line.call = id /\ line.turn = TurnOf(file)
        /\ line.patches = patches /\ line.lines = 2
    OBVIOUS
  <2>6. Write(file, line)
    BY <2>2 DEF Work
  <2> HIDE DEF line
  <2>7. WorkFields(line) /\ WorkLine(line) /\ "kind" \in DOMAIN line
    BY <2>3, <2>4, <2>5 DEF WorkFields, WorkLine
  <2>8. \A c \in CallsIn(journal[file]) : journal[file][c].call # line.call
    BY <2>3, <2>5, CallOfLine
  <2>9. QED
    BY <2>1, <2>5, <2>6, <2>7, <2>8, WriteWork
<1>8. ASSUME NEW file \in Rollouts, Output(file)
      PROVE  ChurnInv'
  <2> DEFINE Line(call, failed) == [kind |-> "tool_output", call |-> call, failed |-> failed]
  <2>1. PICK call \in {l.call : l \in CallLines(file)} \ {l.call : l \in OutputLines(file)},
             failed \in BOOLEAN : Work(file, Line(call, failed))
    BY <1>8 DEF Output
  <2> DEFINE line == Line(call, failed)
  <2>2. /\ DOMAIN line = {"kind", "call", "failed"}
        /\ line.kind = "tool_output" /\ line.call = call /\ line.failed = failed
    OBVIOUS
  <2>3. Write(file, line)
    BY <2>1 DEF Work
  <2> HIDE DEF line
  <2>4. call \in Calls
    BY <2>1, CallOfLine
  <2>5. WorkFields(line) /\ WorkLine(line) /\ "kind" \in DOMAIN line
    BY <2>2, <2>4 DEF WorkFields, WorkLine
  <2>6. \A o \in OutputsIn(journal[file]) : journal[file][o].call # line.call
    BY <2>1, <2>2, CallOfLine
  <2>7. QED
    BY <2>2, <2>3, <2>5, <2>6, WriteWork
<1>9. ASSUME NEW file \in Rollouts, Applied(file)
      PROVE  ChurnInv'
  <2> DEFINE Line(turn, ok) ==
               [kind |-> "patch_apply_end", turn |-> turn, ok |-> ok, lines |-> 1]
  <2>1. PICK turn \in {TurnOf(file), <<"subagent", 0>>} \ {None}, ok \in BOOLEAN :
          Work(file, Line(turn, ok))
    BY <1>9 DEF Applied
  <2> DEFINE line == Line(turn, ok)
  <2>2. /\ DOMAIN line = {"kind", "turn", "ok", "lines"}
        /\ line.kind = "patch_apply_end" /\ line.turn = turn /\ line.ok = ok /\ line.lines = 1
    OBVIOUS
  <2>3. Write(file, line)
    BY <2>1 DEF Work
  <2> HIDE DEF line
  <2>4. WorkFields(line) /\ WorkLine(line) /\ "kind" \in DOMAIN line
    BY <2>2 DEF WorkFields, WorkLine
  <2>5. \/ TurnOf(file) # None /\ line.turn = TurnOf(file)
        \/ line.turn = <<"subagent", 0>>
    BY <2>1, <2>2
  <2>6. QED
    BY <2>2, <2>3, <2>4, <2>5, WriteWork
<1>10. QED
  BY <1>1, <1>2, <1>3, <1>4, <1>5, <1>6, <1>7, <1>8, <1>9 DEF CodexNext

-----------------------------------------------------------------------------
(* The rows of a parse.                                                    *)

Tooling == {"tools", "results", "patchTarget"}

SameTooling(st, new) ==
    /\ Tooling \subseteq DOMAIN new
    /\ new.tools = st.tools /\ new.results = st.results /\ new.patchTarget = st.patchTarget

LEMMA TurnsKeepTooling ==
  ASSUME NEW st, Tooling \subseteq DOMAIN st, NEW n, NEW ts, NEW uuid, NEW model, NEW toks
  PROVE  /\ SameTooling(st, CloseTurn(st, n))
         /\ SameTooling(st, TurnBoundary(st, n, ts)) /\ SameTooling(st, EndTurn(st, n))
         /\ SameTooling(st, AppendUsage(st, n, ts, uuid, model, toks))
<1> DEFINE closed == CloseTurn(st, n)
<1>1. SameTooling(st, closed)
  BY DEF SameTooling, CloseTurn, Tooling
<1>2. SameTooling(st, TurnBoundary(st, n, ts))
  <2> DEFINE started == StartTurn(closed, n, ts)
  <2>1. TurnBoundary(st, n, ts) = [started EXCEPT !.anchor = ts]
    BY DEF TurnBoundary
  <2>2. SameTooling(st, started)
    <3> HIDE DEF closed
    <3>1. QED
      BY <1>1 DEF SameTooling, StartTurn, Tooling
  <2> HIDE DEF started
  <2>3. QED
    BY <2>1, <2>2 DEF SameTooling, Tooling
<1>3. SameTooling(st, EndTurn(st, n))
  <2>1. EndTurn(st, n) = st \/ EndTurn(st, n) = [closed EXCEPT !.anchor = None]
    BY DEF EndTurn
  <2> HIDE DEF closed
  <2>2. QED
    BY <1>1, <2>1 DEF SameTooling, Tooling
<1>4. SameTooling(st, AppendUsage(st, n, ts, uuid, model, toks))
  BY DEF SameTooling, AppendUsage, Tooling
<1>5. QED
  BY <1>1, <1>2, <1>3, <1>4

LEMMA TokenKeepsTooling ==
  ASSUME NEW st, Tooling \subseteq DOMAIN st, NEW file, NEW n, NEW line
  PROVE  SameTooling(st, TokenCount(RateLimit(st, n, line), file, n, line))
<1> DEFINE limited == RateLimit(st, n, line)
           delta == Minus(line.total, Baseline(limited, line))
           seen == [limited EXCEPT !.prevUsage = line.total]
           subscribed == limited.subscription \/ line.plan
           booked == [seen EXCEPT !.subscription = subscribed]
           billed == AppendUsage(booked, n, line.ts, RecordUuid(limited, file, n, line.total),
                                 ModelInForce(limited),
                                 Partition(delta)
                                   ++ [long |-> ~subscribed /\ delta.input > LongContext])
           new == TokenCount(limited, file, n, line)
<1>1. new = IF \A k \in UsageKeys : delta[k] <= 0 THEN seen ELSE billed
  BY DEF TokenCount
<1>2. SameTooling(st, limited)
  BY DEF SameTooling, RateLimit, Tooling
<1> HIDE DEF limited
<1>3. SameTooling(st, seen)
  BY <1>2 DEF SameTooling, Tooling
<1> HIDE DEF seen
<1>4. SameTooling(st, booked)
  BY <1>3 DEF SameTooling, Tooling
<1> HIDE DEF booked
<1>5. SameTooling(booked, billed)
  BY <1>4, TurnsKeepTooling DEF SameTooling
<1> HIDE DEF billed, new
<1>6. new = seen \/ new = billed
  BY <1>1
<1>7. SameTooling(st, new)
  BY <1>3, <1>4, <1>5, <1>6 DEF SameTooling
<1>8. QED
  BY <1>7 DEF new, limited

(* Only calls, results and patches move the rows.                          *)
LEMMA IdleKeepsTooling ==
  ASSUME NEW st, Tooling \subseteq DOMAIN st, NEW file, NEW n, NEW line,
         line.kind \notin {"tool_call", "patch_apply_end", "tool_output"}
  PROVE  SameTooling(st, Dispatch(st, file, n, line))
<1>1. SameTooling(st, SessionMeta(st, line)) /\ SameTooling(st, [st EXCEPT !.model = line.model])
  BY DEF SameTooling, SessionMeta, Tooling
<1>2. SameTooling(st, st) /\ SameTooling(st, [st EXCEPT !.text = @ + 1])
  BY DEF SameTooling, Tooling
<1>3. CASE line.kind = "session_meta"
  BY <1>1, <1>3 DEF Dispatch, DeclaresModel
<1>4. CASE line.kind = "turn_context"
  BY <1>1, <1>4 DEF Dispatch, DeclaresModel
<1>5. CASE line.kind = "token_count"
  BY <1>5, TokenKeepsTooling DEF Dispatch, DeclaresModel
<1>6. CASE line.kind = "task_started"
  BY <1>6, TurnsKeepTooling DEF Dispatch, DeclaresModel
<1>7. CASE line.kind \in {"task_complete", "turn_aborted"}
  BY <1>7, TurnsKeepTooling DEF Dispatch, DeclaresModel
<1>8. CASE line.kind = "agent_message"
  BY <1>2, <1>8 DEF Dispatch, DeclaresModel
<1>9. CASE line.kind \notin Aside \cup Telling
  BY <1>2, <1>9 DEF Dispatch, DeclaresModel, Aside, Telling
<1>10. QED
  BY <1>3, <1>4, <1>5, <1>6, <1>7, <1>8, <1>9 DEF Aside, Telling

(* The calls of a patch's turn that could have applied it.                 *)
CallersOf(lines, p) ==
    {c \in CallsIn(lines) : c < p /\ lines[c].patches /\ lines[c].turn = lines[p].turn}

Orphan(lines, p) == lines[p].kind = "patch_apply_end" /\ CallersOf(lines, p) = {}

HasCaller(lines, p) == lines[p].kind = "patch_apply_end" /\ CallersOf(lines, p) # {}
AppliedBy(lines, p, c) == HasCaller(lines, p) /\ Max(CallersOf(lines, p)) = c

(* The lines up to n that have a row, that patch, that settle, and those   *)
(* whose patch goes to the row of line c.                                  *)
HasRow(lines, k) == lines[k].kind = "tool_call" \/ Orphan(lines, k)
Patcher(lines, k) == lines[k].kind = "tool_call" /\ lines[k].patches

RowsTo(lines, n) == {k \in 1 .. n : HasRow(lines, k)}
PatchersTo(lines, n) == {k \in 1 .. n : Patcher(lines, k)}
OutputsTo(lines, n) == {k \in 1 .. n : lines[k].kind = "tool_output"}
OwedTo(lines, n, c) == {p \in 1 .. n : AppliedBy(lines, p, c) /\ lines[p].ok}

RowKeys == {"call", "turn", "lines", "error"}

RowOk(row, lines, n, k) ==
    /\ RowKeys \subseteq DOMAIN row
    /\ lines[k].kind = "tool_call" => /\ row.call = lines[k].call
                                      /\ row.lines = 2 + Cardinality(OwedTo(lines, n, k))
    /\ lines[k].kind # "tool_call" => /\ row.call = None /\ row.turn = lines[k].turn
                                      /\ row.lines = IF lines[k].ok THEN 1 ELSE 0

(* Each such line has its own row.                                         *)
RowsOk(tools, lines, n, w) ==
    /\ IsSeq(tools)
    /\ w \in [DOMAIN tools -> RowsTo(lines, n)]
    /\ \A i, j \in DOMAIN tools : w[i] = w[j] => i = j
    /\ \A k \in RowsTo(lines, n) : \E i \in DOMAIN tools : w[i] = k
    /\ \A i \in DOMAIN tools : RowOk(tools[i], lines, n, w[i])

(* The target is the row of the last call that patches.                    *)
TargetOk(target, tools, lines, n, w) ==
    IF PatchersTo(lines, n) = {} THEN target = None
    ELSE /\ target # None /\ target.row \in DOMAIN tools
         /\ w[target.row] = Max(PatchersTo(lines, n))
         /\ target.turn = lines[Max(PatchersTo(lines, n))].turn

SettledBy(results, lines, n) ==
    /\ DOMAIN results = Calls
    /\ \A o \in OutputsTo(lines, n) : results[lines[o].call] = lines[o].failed
    /\ \A c \in Calls : (\A o \in OutputsTo(lines, n) : lines[o].call # c) => results[c] = None

Churned(st, lines, n, w) ==
    /\ Tooling \subseteq DOMAIN st
    /\ RowsOk(st.tools, lines, n, w)
    /\ TargetOk(st.patchTarget, st.tools, lines, n, w)
    /\ SettledBy(st.results, lines, n)

LEMMA OneMore ==
  ASSUME NEW n \in Nat
  PROVE  /\ n + 1 \notin 1 .. n /\ n + 1 \in 1 .. n + 1
         /\ \A k : k \in 1 .. n + 1 <=> k \in 1 .. n \/ k = n + 1
OBVIOUS

LEMMA RowsToStep ==
  ASSUME NEW lines, NEW n \in Nat
  PROVE  /\ RowsTo(lines, n + 1) = IF HasRow(lines, n + 1) THEN RowsTo(lines, n) \cup {n + 1}
                                   ELSE RowsTo(lines, n)
         /\ PatchersTo(lines, n + 1) =
              IF Patcher(lines, n + 1) THEN PatchersTo(lines, n) \cup {n + 1}
              ELSE PatchersTo(lines, n)
         /\ OutputsTo(lines, n + 1) =
              IF lines[n + 1].kind = "tool_output" THEN OutputsTo(lines, n) \cup {n + 1}
              ELSE OutputsTo(lines, n)
<1>1. RowsTo(lines, n + 1) = IF HasRow(lines, n + 1) THEN RowsTo(lines, n) \cup {n + 1}
                             ELSE RowsTo(lines, n)
  BY OneMore DEF RowsTo
<1>2. PatchersTo(lines, n + 1) =
        IF Patcher(lines, n + 1) THEN PatchersTo(lines, n) \cup {n + 1} ELSE PatchersTo(lines, n)
  BY OneMore DEF PatchersTo
<1>3. OutputsTo(lines, n + 1) =
        IF lines[n + 1].kind = "tool_output" THEN OutputsTo(lines, n) \cup {n + 1}
        ELSE OutputsTo(lines, n)
  BY OneMore DEF OutputsTo
<1>4. QED
  BY <1>1, <1>2, <1>3

LEMMA OwedToStep ==
  ASSUME NEW lines, NEW n \in Nat, NEW c
  PROVE  OwedTo(lines, n + 1, c) = IF AppliedBy(lines, n + 1, c) /\ lines[n + 1].ok
                                   THEN OwedTo(lines, n, c) \cup {n + 1} ELSE OwedTo(lines, n, c)
BY OneMore DEF OwedTo

(* The rows stand as they are for a line that has none, and that owes none *)
(* of them lines.                                                          *)
LEMMA RowsStand ==
  ASSUME NEW lines, NEW n \in Nat, NEW tools, NEW w, RowsOk(tools, lines, n, w),
         ~HasRow(lines, n + 1), ~HasCaller(lines, n + 1)
  PROVE  RowsOk(tools, lines, n + 1, w)
<1>1. RowsTo(lines, n + 1) = RowsTo(lines, n)
  BY RowsToStep
<1>2. \A c : OwedTo(lines, n + 1, c) = OwedTo(lines, n, c)
  BY OwedToStep DEF AppliedBy
<1>3. QED
  BY <1>1, <1>2 DEF RowsOk, RowOk

(* A new row.                                                              *)
RowAdded(tools, row, lines, n, w, v) ==
    /\ RowsOk(Append(tools, row), lines, n + 1, v)
    /\ \A i \in DOMAIN tools : v[i] = w[i]
    /\ v[Len(tools) + 1] = n + 1

LEMMA RowsAdd ==
  ASSUME NEW lines, NEW n \in Nat, NEW tools, NEW w, RowsOk(tools, lines, n, w),
         HasRow(lines, n + 1), ~HasCaller(lines, n + 1),
         NEW row, RowOk(row, lines, n + 1, n + 1)
  PROVE  \E v : RowAdded(tools, row, lines, n, w, v)
<1> DEFINE L == Len(tools)
           new == Append(tools, row)
           v == [i \in 1 .. L + 1 |-> IF i \in 1 .. L THEN w[i] ELSE n + 1]
<1>1. /\ L \in Nat /\ DOMAIN tools = 1 .. L /\ IsSeq(new) /\ DOMAIN new = 1 .. L + 1
      /\ \A i \in 1 .. L : new[i] = tools[i]
      /\ new[L + 1] = row
  BY AppendSeq DEF RowsOk
<1>2. RowsTo(lines, n + 1) = RowsTo(lines, n) \cup {n + 1}
  BY RowsToStep
<1>3. \A c : OwedTo(lines, n + 1, c) = OwedTo(lines, n, c)
  BY OwedToStep DEF AppliedBy
<1>4. n + 1 \notin RowsTo(lines, n)
  BY OneMore DEF RowsTo
<1> HIDE DEF new, L
<1>5. /\ \A i \in 1 .. L : i \in 1 .. L + 1 /\ i # L + 1
      /\ \A i \in 1 .. L + 1 : i \in 1 .. L \/ i = L + 1
      /\ L + 1 \in 1 .. L + 1 /\ L + 1 \notin 1 .. L
  BY <1>1, OneMore
<1>6. DOMAIN v = 1 .. L + 1 /\ v[L + 1] = n + 1 /\ \A i \in 1 .. L : v[i] = w[i]
  BY <1>5
<1>7. v \in [1 .. L + 1 -> RowsTo(lines, n + 1)]
  BY <1>1, <1>2 DEF RowsOk
<1> HIDE DEF v
<1>8. \A i \in 1 .. L : w[i] \in RowsTo(lines, n)
  BY <1>1 DEF RowsOk
<1>9. \A i, j \in 1 .. L + 1 : v[i] = v[j] => i = j
  <2>1. \A i, j \in 1 .. L : w[i] = w[j] => i = j
    BY <1>1 DEF RowsOk
  <2>2. QED
    BY <1>4, <1>5, <1>6, <1>8, <2>1
<1>10. \A k \in RowsTo(lines, n + 1) : \E i \in 1 .. L + 1 : v[i] = k
  <2> SUFFICES ASSUME NEW k \in RowsTo(lines, n + 1) PROVE \E i \in 1 .. L + 1 : v[i] = k
    OBVIOUS
  <2>1. CASE k = n + 1
    BY <1>5, <1>6, <2>1
  <2>2. CASE k \in RowsTo(lines, n)
    <3>1. PICK i \in 1 .. L : w[i] = k
      BY <1>1, <2>2 DEF RowsOk
    <3>2. QED
      BY <1>5, <1>6, <3>1
  <2>3. QED
    BY <1>2, <2>1, <2>2
<1>11. \A i \in 1 .. L + 1 : RowOk(new[i], lines, n + 1, v[i])
  <2>1. \A i \in 1 .. L : RowOk(tools[i], lines, n + 1, w[i])
    BY <1>1, <1>3 DEF RowsOk, RowOk
  <2>2. QED
    BY <1>1, <1>5, <1>6, <2>1
<1>12. RowsOk(new, lines, n + 1, v)
  BY <1>1, <1>7, <1>9, <1>10, <1>11 DEF RowsOk
<1>13. RowAdded(tools, row, lines, n, w, v)
  BY <1>1, <1>6, <1>12 DEF RowAdded, new, L
<1>14. QED
  BY <1>13

(* A line that is neither call, patch nor result.                          *)
LEMMA IdleRows ==
  ASSUME NEW lines, NEW n \in Nat, NEW st, NEW w, Churned(st, lines, n, w), NEW file,
         lines[n + 1].kind \notin {"tool_call", "patch_apply_end", "tool_output"}
  PROVE  Churned(Dispatch(st, file, n + 1, lines[n + 1]), lines, n + 1, w)
<1> DEFINE new == Dispatch(st, file, n + 1, lines[n + 1])
<1>1. SameTooling(st, new)
  BY IdleKeepsTooling DEF Churned
<1> HIDE DEF new
<1>2. /\ ~HasRow(lines, n + 1) /\ ~Patcher(lines, n + 1) /\ lines[n + 1].kind # "tool_output"
      /\ ~HasCaller(lines, n + 1)
  BY DEF HasRow, Patcher, Orphan, HasCaller
<1>3. RowsOk(st.tools, lines, n + 1, w)
  BY <1>2, RowsStand DEF Churned
<1>4. /\ PatchersTo(lines, n + 1) = PatchersTo(lines, n)
      /\ OutputsTo(lines, n + 1) = OutputsTo(lines, n)
  BY <1>2, RowsToStep
<1>5. TargetOk(st.patchTarget, st.tools, lines, n + 1, w) /\ SettledBy(st.results, lines, n + 1)
  BY <1>4 DEF Churned, TargetOk, SettledBy
<1>6. Churned(new, lines, n + 1, w)
  BY <1>1, <1>3, <1>5 DEF Churned, SameTooling
<1>7. QED
  BY <1>6 DEF new

(* A result.                                                               *)
LEMMA OutputRows ==
  ASSUME NEW lines, WorkOk(lines), NEW n \in Nat, DOMAIN lines = 1 .. Len(lines),
         Len(lines) \in Nat, n + 1 \in DOMAIN lines,
         NEW st, NEW w, Churned(st, lines, n, w), NEW file, lines[n + 1].kind = "tool_output"
  PROVE  Churned(Dispatch(st, file, n + 1, lines[n + 1]), lines, n + 1, w)
<1> DEFINE line == lines[n + 1]
           new == Settle(st, line.call, line.failed)
<1>1. line.call \in Calls /\ line.call # None
  BY NoneAssumption DEF WorkOk, WorkLine
<1>2. new = [st EXCEPT !.results[line.call] = line.failed]
  BY <1>1 DEF Settle
<1>3. Dispatch(st, file, n + 1, line) = new
  BY DEF Dispatch, DeclaresModel
<1>4. /\ ~HasRow(lines, n + 1) /\ ~Patcher(lines, n + 1)
      /\ ~HasCaller(lines, n + 1)
  BY DEF HasRow, Patcher, Orphan, HasCaller
<1>5. RowsOk(st.tools, lines, n + 1, w)
  BY <1>4, RowsStand DEF Churned
<1>6. PatchersTo(lines, n + 1) = PatchersTo(lines, n)
  BY <1>4, RowsToStep
<1>7. OutputsTo(lines, n + 1) = OutputsTo(lines, n) \cup {n + 1}
  BY RowsToStep
<1>8. TargetOk(st.patchTarget, st.tools, lines, n + 1, w)
  BY <1>6 DEF Churned, TargetOk
<1>9. \A o \in OutputsTo(lines, n) : lines[o].call # line.call
  <2>1. \A o \in OutputsTo(lines, n) : o \in OutputsIn(lines) /\ o # n + 1
    BY DEF OutputsTo, OutputsIn
  <2>2. n + 1 \in OutputsIn(lines)
    BY DEF OutputsIn
  <2>3. QED
    BY <2>1, <2>2 DEF WorkOk
<1> DEFINE results == [st.results EXCEPT ![line.call] = line.failed]
<1>10. /\ Tooling \subseteq DOMAIN new /\ new.tools = st.tools
       /\ new.patchTarget = st.patchTarget /\ new.results = results
  <2> HIDE DEF line
  <2>1. QED
    BY <1>2 DEF Churned, Tooling
<1> HIDE DEF new, line
<1>11. /\ DOMAIN results = Calls /\ results[line.call] = line.failed
       /\ \A c \in Calls : c # line.call => results[c] = st.results[c]
  BY <1>1 DEF Churned, SettledBy
<1> HIDE DEF results
<1>12. \A o \in OutputsTo(lines, n) : lines[o].call \in Calls
  <2>1. \A o \in OutputsTo(lines, n) : o \in DOMAIN lines /\ lines[o].kind = "tool_output"
    BY DEF OutputsTo
  <2>2. QED
    BY <2>1 DEF WorkOk, WorkLine
<1>13. \A o \in OutputsTo(lines, n + 1) : results[lines[o].call] = lines[o].failed
  BY <1>7, <1>9, <1>11, <1>12 DEF Churned, SettledBy, line
<1>14. \A c \in Calls : (\A o \in OutputsTo(lines, n + 1) : lines[o].call # c) => results[c] = None
  BY <1>7, <1>11 DEF Churned, SettledBy, line
<1>15. SettledBy(results, lines, n + 1)
  BY <1>11, <1>13, <1>14 DEF SettledBy
<1>16. Churned(new, lines, n + 1, w)
  BY <1>5, <1>8, <1>10, <1>15 DEF Churned
<1>17. QED
  BY <1>3, <1>16 DEF line

LEMMA AddedTool ==
  ASSUME NEW st, Tooling \subseteq DOMAIN st, NEW call, NEW turn, NEW lines
  PROVE  LET new == AppendTool(st, call, turn, lines)
         IN /\ Tooling \subseteq DOMAIN new
            /\ new.results = st.results /\ new.patchTarget = st.patchTarget
            /\ new.tools = Append(st.tools, [call |-> call, turn |-> turn,
                                             lines |-> lines, error |-> None])
<1> DEFINE tools == Append(st.tools, [call |-> call, turn |-> turn,
                                      lines |-> lines, error |-> None])
<1>1. AppendTool(st, call, turn, lines) = [st EXCEPT !.tools = tools]
  BY DEF AppendTool
<1> HIDE DEF tools
<1>2. QED
  BY <1>1 DEF Tooling, tools

(* A call.                                                                 *)
LEMMA CallRows ==
  ASSUME NEW lines, WorkOk(lines), NEW n \in Nat, DOMAIN lines = 1 .. Len(lines),
         Len(lines) \in Nat, n + 1 \in DOMAIN lines,
         NEW st, NEW w, Churned(st, lines, n, w), NEW file, lines[n + 1].kind = "tool_call"
  PROVE  \E v : Churned(Dispatch(st, file, n + 1, lines[n + 1]), lines, n + 1, v)
<1> DEFINE line == lines[n + 1]
           called == AppendTool(st, line.call, line.turn, line.lines)
           row == [call |-> line.call, turn |-> line.turn, lines |-> line.lines, error |-> None]
           tools == Append(st.tools, row)
           L == Len(st.tools)
           new == CodexToolCall(st, line)
<1>1. Dispatch(st, file, n + 1, line) = new
  BY DEF Dispatch, DeclaresModel
<1>2. /\ Tooling \subseteq DOMAIN called
      /\ called.results = st.results /\ called.patchTarget = st.patchTarget
      /\ called.tools = tools
  BY AddedTool DEF Churned
<1>3. /\ HasRow(lines, n + 1) /\ (Patcher(lines, n + 1) <=> line.patches)
      /\ line.kind # "tool_output"
      /\ ~HasCaller(lines, n + 1)
  BY DEF HasRow, Patcher, HasCaller
<1>4. OwedTo(lines, n + 1, n + 1) = {}
  <2> SUFFICES ASSUME NEW p \in 1 .. n + 1, AppliedBy(lines, p, n + 1) PROVE FALSE
    BY DEF OwedTo
  <2> DEFINE S == CallersOf(lines, p)
  <2>1. S # {} /\ Max(S) = n + 1
    BY DEF AppliedBy, HasCaller
  <2>2. S \in SUBSET (1 .. Len(lines)) /\ \A c \in S : c < p
    BY DEF CallersOf, CallsIn
  <2> HIDE DEF S
  <2>3. n + 1 \in S
    BY <2>1, <2>2, MaxAmong
  <2>4. QED
    BY <2>2, <2>3
<1>5. RowOk(row, lines, n + 1, n + 1)
  <2>1. /\ RowKeys \subseteq DOMAIN row /\ row.call = line.call /\ row.lines = line.lines
    BY DEF RowKeys
  <2>2. line.lines = 2
    BY DEF WorkOk, WorkLine
  <2> HIDE DEF row
  <2>3. Cardinality(OwedTo(lines, n + 1, n + 1)) = 0
    BY <1>4, FS_EmptySet
  <2>4. QED
    BY <2>1, <2>2, <2>3 DEF RowOk
<1> HIDE DEF row
<1>6. RowsOk(st.tools, lines, n, w)
  BY DEF Churned
<1>7. PICK v : /\ RowsOk(tools, lines, n + 1, v)
               /\ \A i \in DOMAIN st.tools : v[i] = w[i]
               /\ v[L + 1] = n + 1
  <2>1. \E v : RowAdded(st.tools, row, lines, n, w, v)
    <3> HIDE DEF line
    <3>1. QED
      BY <1>3, <1>5, <1>6, RowsAdd
  <2>2. QED
    BY <2>1 DEF RowAdded
<1>8. /\ L \in Nat /\ DOMAIN st.tools = 1 .. L /\ DOMAIN tools = 1 .. L + 1
      /\ Len(tools) = L + 1
  <2>1. Longer(st.tools, tools, row)
    BY <1>6, AppendLonger DEF RowsOk
  <2>2. QED
    BY <2>1 DEF Longer
<1>9. SettledBy(st.results, lines, n + 1)
  <2>1. OutputsTo(lines, n + 1) = OutputsTo(lines, n)
    BY <1>3, RowsToStep
  <2>2. QED
    BY <2>1 DEF Churned, SettledBy
<1> HIDE DEF called, tools, L
<1>10. CASE line.patches
  <2> DEFINE target == [row |-> L + 1, turn |-> line.turn]
  <2>1. new = [called EXCEPT !.patchTarget = target]
    BY <1>2, <1>8, <1>10 DEF CodexToolCall, called
  <2>2. target # None
    <3>1. line.turn \in Rollouts \X Nat
      BY DEF WorkOk, WorkLine
    <3>2. target \in [row : Nat, turn : Rollouts \X Nat]
      <4> HIDE DEF line
      <4>1. QED
        BY <1>8, <3>1
    <3> HIDE DEF target
    <3>3. QED
      BY <3>2, CodexAssumption
  <2>3. target.row = L + 1 /\ target.turn = line.turn
    OBVIOUS
  <2> HIDE DEF target
  <2>4. /\ Tooling \subseteq DOMAIN new /\ new.tools = tools /\ new.results = st.results
        /\ new.patchTarget = target
    <3> HIDE DEF new
    <3>1. QED
      BY <1>2, <2>1 DEF Tooling
  <2>5. PatchersTo(lines, n + 1) # {} /\ Max(PatchersTo(lines, n + 1)) = n + 1
    <3>1. PatchersTo(lines, n + 1) = PatchersTo(lines, n) \cup {n + 1}
      BY <1>3, <1>10, RowsToStep
    <3>2. PatchersTo(lines, n + 1) \in SUBSET (1 .. n + 1) /\ n + 1 \notin 1 .. n
      BY OneMore DEF PatchersTo
    <3>3. QED
      BY <3>1, <3>2, MaxOf
  <2>6. TargetOk(target, tools, lines, n + 1, v)
    BY <1>7, <1>8, <2>2, <2>3, <2>5 DEF TargetOk
  <2> HIDE DEF new
  <2>7. Churned(new, lines, n + 1, v)
    BY <1>7, <1>9, <2>4, <2>6 DEF Churned
  <2>8. QED
    BY <1>1, <2>7
<1>11. CASE ~line.patches
  <2>1. new = called
    BY <1>11 DEF CodexToolCall, called
  <2>2. PatchersTo(lines, n + 1) = PatchersTo(lines, n)
    BY <1>3, <1>11, RowsToStep
  <2>3. TargetOk(st.patchTarget, st.tools, lines, n, w)
    BY DEF Churned
  <2>4. \A i \in DOMAIN st.tools : i \in DOMAIN tools
    BY <1>8
  <2>5. TargetOk(st.patchTarget, tools, lines, n + 1, v)
    BY <1>7, <2>2, <2>3, <2>4 DEF TargetOk
  <2> HIDE DEF new
  <2>6. Churned(new, lines, n + 1, v)
    BY <1>2, <1>7, <1>9, <2>1, <2>5 DEF Churned
  <2>7. QED
    BY <1>1, <2>6
<1>12. QED
  BY <1>10, <1>11

LEMMA PutSeq ==
  ASSUME NEW s, IsSeq(s), NEW i \in DOMAIN s, NEW e
  PROVE  IsSeq([s EXCEPT ![i] = e])
<1>1. PICK S : s \in Seq(S)
  BY DEF IsSeq
<1>2. Len(s) \in Nat /\ s \in [1 .. Len(s) -> S]
  BY <1>1
<1>3. [s EXCEPT ![i] = e] \in [1 .. Len(s) -> S \cup {e}]
  BY <1>2
<1>4. [s EXCEPT ![i] = e] \in Seq(S \cup {e})
  BY <1>2, <1>3
<1>5. QED
  BY <1>4 DEF IsSeq

LastPut(s, d) == [s EXCEPT ![Len(s)] = d]

LEMMA ReplaceLast ==
  ASSUME NEW s, IsSeq(s), NEW e, NEW d
  PROVE  LastPut(Append(s, e), d) = Append(s, d)
<1> DEFINE L == Len(s)
           a == Append(s, e)
           b == Append(s, d)
<1>1. Longer(s, a, e) /\ Longer(s, b, d)
  BY AppendLonger
<1>2. IsSeq(a) /\ IsSeq(b)
  BY AppendSeq
<1>3. a = [i \in DOMAIN a |-> a[i]] /\ b = [i \in DOMAIN b |-> b[i]]
  <2>1. \A t, T : t \in Seq(T) => t = [i \in DOMAIN t |-> t[i]]
    OBVIOUS
  <2> HIDE DEF a, b
  <2>2. QED
    BY <1>2, <2>1 DEF IsSeq
<1> HIDE DEF a, b
<1>4. /\ L \in Nat /\ Len(a) = L + 1 /\ DOMAIN a = 1 .. L + 1 /\ DOMAIN b = 1 .. L + 1
      /\ \A i \in 1 .. L : a[i] = s[i] /\ b[i] = s[i]
      /\ b[L + 1] = d
  BY <1>1 DEF Longer
<1>5. \A i \in 1 .. L + 1 : b[i] = IF i = L + 1 THEN d ELSE a[i]
  BY <1>4, OneMore
<1>6. [a EXCEPT ![L + 1] = d] = [i \in 1 .. L + 1 |-> b[i]]
  BY <1>3, <1>4, <1>5
<1>7. QED
  BY <1>3, <1>4, <1>6 DEF a, b, LastPut

(* A patch is of the last call that patches, or of no call.                *)
LEMMA CallerIsLast ==
  ASSUME NEW lines, WorkOk(lines), NEW n \in Nat, DOMAIN lines = 1 .. Len(lines),
         Len(lines) \in Nat, n + 1 \in DOMAIN lines, lines[n + 1].kind = "patch_apply_end"
  PROVE  LET P == PatchersTo(lines, n)
         IN IF P # {} /\ lines[Max(P)].turn = lines[n + 1].turn
            THEN HasCaller(lines, n + 1) /\ Max(CallersOf(lines, n + 1)) = Max(P)
                 /\ Max(P) \in P
            ELSE Orphan(lines, n + 1)
<1> DEFINE P == PatchersTo(lines, n)
           S == CallersOf(lines, n + 1)
           m == Max(P)
<1>1. P \in SUBSET (1 .. n)
  BY DEF PatchersTo
<1>2. P # {} => m \in P /\ \A c \in P : c <= m
  <2> HIDE DEF P
  <2>1. QED
    BY <1>1, MaxAmong
<1>3. \A c \in P : /\ c \in CallsIn(lines) /\ lines[c].patches /\ c \in Nat /\ c < n + 1
  BY DEF PatchersTo, Patcher, CallsIn
<1>4. \A c : c \in S <=> c \in P /\ lines[c].turn = lines[n + 1].turn
  BY DEF PatchersTo, Patcher, CallsIn, CallersOf
<1> HIDE DEF P, S, m
<1>5. CASE P # {} /\ lines[m].turn = lines[n + 1].turn
  <2>1. m \in S /\ \A c \in S : c <= m
    BY <1>2, <1>4, <1>5
  <2>2. S \in SUBSET (1 .. n)
    BY <1>1, <1>4
  <2>3. Max(S) = m
    <3>1. Max(S) \in S /\ \A c \in S : c <= Max(S)
      BY <2>1, <2>2, MaxAmong
    <3>2. m \in Nat /\ Max(S) \in Nat
      <4>1. \A c \in S : c \in Nat
        BY <2>2
      <4>2. QED
        BY <2>1, <3>1, <4>1
    <3>3. QED
      BY <2>1, <3>1, <3>2
  <2>4. QED
    BY <1>2, <1>5, <2>1, <2>3 DEF HasCaller, P, S, m
<1>6. CASE ~(P # {} /\ lines[m].turn = lines[n + 1].turn)
  <2>1. ASSUME NEW c \in S PROVE FALSE
    <3>1. c \in P /\ lines[c].turn = lines[n + 1].turn
      BY <1>4
    <3>2. m \in P /\ c <= m /\ lines[m].turn # lines[n + 1].turn
      BY <1>2, <1>6, <3>1
    <3>3. c < m /\ m < n + 1
      BY <1>3, <3>1, <3>2
    <3>4. n + 1 \in PatchesIn(lines) /\ c \in CallsIn(lines) /\ m \in CallsIn(lines)
      BY <1>3, <3>1, <3>2 DEF PatchesIn
    <3>5. QED
      BY <3>1, <3>2, <3>3, <3>4 DEF WorkOk
  <2>2. QED
    BY <1>6, <2>1 DEF Orphan, P, S, m
<1>7. QED
  BY <1>5, <1>6 DEF P, m

(* A patch without a caller.                                               *)
LEMMA OrphanRows ==
  ASSUME NEW lines, WorkOk(lines), NEW n \in Nat, n + 1 \in DOMAIN lines,
         NEW st, NEW w, Churned(st, lines, n, w), lines[n + 1].kind = "patch_apply_end",
         Orphan(lines, n + 1),
         ~(st.patchTarget # None /\ st.patchTarget.turn = lines[n + 1].turn)
  PROVE  \E v : Churned(Patch(st, lines[n + 1]), lines, n + 1, v)
<1> DEFINE line == lines[n + 1]
           more == IF line.ok THEN line.lines ELSE 0
           first == [call |-> None, turn |-> line.turn, lines |-> more, error |-> None]
           row == [first EXCEPT !.error = ~line.ok]
           own == AppendTool(st, None, line.turn, more)
           old == Append(st.tools, first)
           tools == Append(st.tools, row)
           L == Len(st.tools)
           new == Patch(st, line)
<1>1. new = [own EXCEPT !.tools[Len(own.tools)].error = ~line.ok]
  BY DEF Patch
<1>2. more = IF line.ok THEN 1 ELSE 0
  BY DEF WorkOk, WorkLine
<1>3. /\ Tooling \subseteq DOMAIN own
      /\ own.results = st.results /\ own.patchTarget = st.patchTarget
      /\ own.tools = old
  BY AddedTool DEF Churned
<1>4. RowsOk(st.tools, lines, n, w) /\ IsSeq(st.tools)
  BY DEF Churned, RowsOk
<1>5. /\ L \in Nat /\ DOMAIN st.tools = 1 .. L /\ DOMAIN tools = 1 .. L + 1
      /\ Len(old) = L + 1 /\ old[L + 1] = first
  <2>1. Longer(st.tools, tools, row) /\ Longer(st.tools, old, first)
    BY <1>4, AppendLonger
  <2> HIDE DEF tools, old
  <2>2. QED
    BY <2>1 DEF Longer
<1>6. /\ RowKeys \subseteq DOMAIN row /\ row.call = None /\ row.turn = line.turn /\ row.lines = more
  <2> HIDE DEF line, more
  <2>1. QED
    BY DEF RowKeys
<1>7. RowOk(row, lines, n + 1, n + 1)
  <2> HIDE DEF row, more
  <2>1. QED
    BY <1>2, <1>6 DEF RowOk
<1>8. /\ HasRow(lines, n + 1) /\ ~Patcher(lines, n + 1) /\ line.kind # "tool_output"
      /\ ~HasCaller(lines, n + 1)
  BY DEF HasRow, Patcher, HasCaller, Orphan
<1> HIDE DEF first, row, more, own, L, old
<1>9. [old EXCEPT ![L + 1].error = ~line.ok] = tools
  <2>1. LastPut(old, row) = tools
    BY <1>4, ReplaceLast DEF old
  <2>2. [old EXCEPT ![L + 1].error = ~line.ok] = [old EXCEPT ![L + 1] = row]
    BY <1>5 DEF row
  <2>3. QED
    BY <1>5, <2>1, <2>2 DEF LastPut
<1>10. /\ Tooling \subseteq DOMAIN new /\ new.tools = tools /\ new.results = st.results
       /\ new.patchTarget = st.patchTarget
  <2> DEFINE put == [own.tools EXCEPT ![Len(own.tools)].error = ~line.ok]
  <2>1. new = [own EXCEPT !.tools = put]
    BY <1>1
  <2>2. put = tools
    BY <1>3, <1>5, <1>9
  <2> HIDE DEF put, new, tools
  <2>3. QED
    BY <1>3, <2>1, <2>2 DEF Tooling
<1>11. PICK v : /\ RowsOk(tools, lines, n + 1, v)
                /\ \A i \in DOMAIN st.tools : v[i] = w[i]
                /\ v[L + 1] = n + 1
  <2>1. \E v : RowAdded(st.tools, row, lines, n, w, v)
    <3> HIDE DEF line
    <3>1. QED
      BY <1>4, <1>7, <1>8, RowsAdd
  <2>2. QED
    BY <2>1 DEF RowAdded, L
<1>12. /\ OutputsTo(lines, n + 1) = OutputsTo(lines, n)
       /\ PatchersTo(lines, n + 1) = PatchersTo(lines, n)
  BY <1>8, RowsToStep
<1>13. SettledBy(st.results, lines, n + 1)
  BY <1>12 DEF Churned, SettledBy
<1> HIDE DEF tools, new
<1>14. TargetOk(st.patchTarget, tools, lines, n + 1, v)
  <2>1. TargetOk(st.patchTarget, st.tools, lines, n, w)
    BY DEF Churned
  <2>2. \A i \in DOMAIN st.tools : i \in DOMAIN tools
    BY <1>5
  <2>3. QED
    BY <1>11, <1>12, <2>1, <2>2 DEF TargetOk
<1>15. Churned(new, lines, n + 1, v)
  BY <1>10, <1>11, <1>13, <1>14 DEF Churned
<1>16. QED
  BY <1>15 DEF new, line

(* A patch that goes to the row of its call.                               *)
LEMMA CalledRows ==
  ASSUME NEW lines, WorkOk(lines), NEW n \in Nat, n + 1 \in DOMAIN lines,
         NEW st, NEW w, Churned(st, lines, n, w), lines[n + 1].kind = "patch_apply_end",
         HasCaller(lines, n + 1), PatchersTo(lines, n) # {},
         Max(PatchersTo(lines, n)) \in PatchersTo(lines, n),
         Max(CallersOf(lines, n + 1)) = Max(PatchersTo(lines, n)),
         st.patchTarget # None /\ st.patchTarget.turn = lines[n + 1].turn
  PROVE  Churned(Patch(st, lines[n + 1]), lines, n + 1, w)
<1> DEFINE line == lines[n + 1]
           more == IF line.ok THEN line.lines ELSE 0
           m == Max(PatchersTo(lines, n))
           r == st.patchTarget.row
           row == [st.tools[r] EXCEPT !.lines = @ + more]
           tools == [st.tools EXCEPT ![r] = row]
           new == Patch(st, line)
<1>1. new = [st EXCEPT !.tools = tools]
  BY DEF Patch
<1>2. more = IF line.ok THEN 1 ELSE 0
  BY DEF WorkOk, WorkLine
<1>3. r \in DOMAIN st.tools /\ w[r] = m
  BY DEF Churned, TargetOk
<1>4. RowsOk(st.tools, lines, n, w) /\ IsSeq(st.tools)
  BY DEF Churned, RowsOk
<1>5. lines[m].kind = "tool_call"
  BY DEF PatchersTo, Patcher
<1>6. /\ ~HasRow(lines, n + 1) /\ ~Patcher(lines, n + 1) /\ line.kind # "tool_output"
      /\ \A c : AppliedBy(lines, n + 1, c) <=> c = m
  BY DEF HasRow, Patcher, HasCaller, Orphan, AppliedBy
<1> HIDE DEF m, r, new, more
<1>7. /\ RowsTo(lines, n + 1) = RowsTo(lines, n) /\ OutputsTo(lines, n + 1) = OutputsTo(lines, n)
      /\ PatchersTo(lines, n + 1) = PatchersTo(lines, n)
  BY <1>6, RowsToStep
<1>8. \A c : c # m => OwedTo(lines, n + 1, c) = OwedTo(lines, n, c)
  BY <1>6, OwedToStep
<1>9. Cardinality(OwedTo(lines, n + 1, m)) = Cardinality(OwedTo(lines, n, m)) + more
      /\ Cardinality(OwedTo(lines, n, m)) \in Nat
  <2> DEFINE S == OwedTo(lines, n, m)
  <2>1. IsFiniteSet(S) /\ n + 1 \notin S
    <3>1. IsFiniteSet(1 .. n) /\ S \in SUBSET (1 .. n)
      BY FS_Interval DEF OwedTo
    <3>2. QED
      BY <3>1, FS_Subset, OneMore
  <2>2. OwedTo(lines, n + 1, m) = IF line.ok THEN S \cup {n + 1} ELSE S
    BY <1>6, OwedToStep
  <2> HIDE DEF S
  <2>3. Cardinality(S) \in Nat /\ Cardinality(S \cup {n + 1}) = Cardinality(S) + 1
    BY <2>1, FS_CardinalityType, FS_AddElement
  <2>4. QED
    BY <1>2, <2>2, <2>3 DEF S
<1> HIDE DEF line
<1>10. /\ RowKeys \subseteq DOMAIN row /\ row.call = st.tools[r].call
       /\ row.lines = st.tools[r].lines + more
  <2>1. RowKeys \subseteq DOMAIN st.tools[r]
    BY <1>3, <1>4 DEF RowsOk, RowOk
  <2>2. QED
    BY <2>1 DEF RowKeys
<1> HIDE DEF row
<1>11. RowOk(row, lines, n + 1, m)
  <2>1. /\ st.tools[r].call = lines[m].call
        /\ st.tools[r].lines = 2 + Cardinality(OwedTo(lines, n, m))
    BY <1>3, <1>4, <1>5 DEF RowsOk, RowOk
  <2>2. row.lines = 2 + Cardinality(OwedTo(lines, n + 1, m))
    <3>1. more \in Nat
      BY <1>2
    <3>2. \A a, b \in Nat : (2 + a) + b = 2 + (a + b)
      OBVIOUS
    <3>3. QED
      BY <1>9, <1>10, <2>1, <3>1, <3>2
  <2>3. QED
    BY <1>5, <1>10, <2>1, <2>2 DEF RowOk
<1>12. /\ IsSeq(tools) /\ DOMAIN tools = DOMAIN st.tools /\ tools[r] = row
       /\ \A i \in DOMAIN st.tools : i # r => tools[i] = st.tools[i]
  <2>1. IsSeq(tools)
    BY <1>3, <1>4, PutSeq
  <2>2. QED
    BY <1>3, <2>1
<1> HIDE DEF tools
<1>13. \A i \in DOMAIN tools : RowOk(tools[i], lines, n + 1, w[i])
  <2> SUFFICES ASSUME NEW i \in DOMAIN tools PROVE RowOk(tools[i], lines, n + 1, w[i])
    OBVIOUS
  <2>1. CASE i = r
    BY <1>3, <1>11, <1>12, <2>1
  <2>2. CASE i # r
    <3>1. w[i] # m /\ RowOk(st.tools[i], lines, n, w[i])
      BY <1>3, <1>4, <1>12, <2>2 DEF RowsOk
    <3>2. QED
      BY <1>8, <1>12, <2>2, <3>1 DEF RowOk
  <2>3. QED
    BY <2>1, <2>2
<1>14. RowsOk(tools, lines, n + 1, w)
  BY <1>4, <1>7, <1>12, <1>13 DEF RowsOk
<1>15. TargetOk(st.patchTarget, tools, lines, n + 1, w) /\ SettledBy(st.results, lines, n + 1)
  BY <1>7, <1>12 DEF Churned, TargetOk, SettledBy
<1>16. /\ Tooling \subseteq DOMAIN new /\ new.tools = tools /\ new.results = st.results
       /\ new.patchTarget = st.patchTarget
  BY <1>1 DEF Churned, Tooling
<1>17. Churned(new, lines, n + 1, w)
  BY <1>14, <1>15, <1>16 DEF Churned
<1>18. QED
  BY <1>17 DEF new, line

LEMMA PatchRows ==
  ASSUME NEW lines, WorkOk(lines), NEW n \in Nat, DOMAIN lines = 1 .. Len(lines),
         Len(lines) \in Nat, n + 1 \in DOMAIN lines,
         NEW st, NEW w, Churned(st, lines, n, w), NEW file,
         lines[n + 1].kind = "patch_apply_end"
  PROVE  \E v : Churned(Dispatch(st, file, n + 1, lines[n + 1]), lines, n + 1, v)
<1> DEFINE P == PatchersTo(lines, n)
           target == st.patchTarget
<1>1. Dispatch(st, file, n + 1, lines[n + 1]) = Patch(st, lines[n + 1])
  BY DEF Dispatch, DeclaresModel
<1>2. IF P = {} THEN target = None ELSE target # None /\ target.turn = lines[Max(P)].turn
  BY DEF Churned, TargetOk
<1>3. IF P # {} /\ lines[Max(P)].turn = lines[n + 1].turn
      THEN /\ HasCaller(lines, n + 1) /\ Max(CallersOf(lines, n + 1)) = Max(P)
           /\ Max(P) \in P
      ELSE Orphan(lines, n + 1)
  BY CallerIsLast
<1>4. CASE P # {} /\ lines[Max(P)].turn = lines[n + 1].turn
  <2>1. Churned(Patch(st, lines[n + 1]), lines, n + 1, w)
    BY <1>2, <1>3, <1>4, CalledRows
  <2>2. QED
    BY <1>1, <2>1
<1>5. CASE ~(P # {} /\ lines[Max(P)].turn = lines[n + 1].turn)
  <2>1. \E v : Churned(Patch(st, lines[n + 1]), lines, n + 1, v)
    BY <1>2, <1>3, <1>5, OrphanRows
  <2>2. QED
    BY <1>1, <2>1
<1>6. QED
  BY <1>4, <1>5

LEMMA ScanChurns ==
  ASSUME NEW lines, IsSeq(lines), WorkOk(lines), NEW file
  PROVE  \E w : Churned(CodexScan(file, lines), lines, Len(lines), w)
<1> DEFINE N == Len(lines)
<1>1. N \in Nat /\ DOMAIN lines = 1 .. N
  BY AppendSeq
<1>2. PICK G : IsScan(G, file, lines, N)
  BY <1>1, ScanByLine
<1>3. /\ G[0] = NewCodexParse(lines) /\ G[N] = CodexScan(file, lines)
      /\ \A n \in 0 .. N - 1 : G[n + 1] = Dispatch(G[n], file, n + 1, lines[n + 1])
  BY <1>2 DEF IsScan
<1> DEFINE S == {n \in Nat : n <= N => \E w : Churned(G[n], lines, n, w)}
<1>4. 0 \in S
  <2> DEFINE st == NewCodexParse(lines)
  <2>1. /\ Tooling \subseteq DOMAIN st /\ st.tools = <<>> /\ st.patchTarget = None
        /\ st.results = [c \in Calls |-> None]
    BY DEF NewCodexParse, Tooling, NewParse
  <2> HIDE DEF st
  <2>2. /\ RowsTo(lines, 0) = {} /\ PatchersTo(lines, 0) = {} /\ OutputsTo(lines, 0) = {}
    BY DEF RowsTo, PatchersTo, OutputsTo
  <2>3. SettledBy(st.results, lines, 0)
    BY <2>1, <2>2 DEF SettledBy
  <2>4. TargetOk(st.patchTarget, st.tools, lines, 0, <<>>)
    BY <2>1, <2>2 DEF TargetOk
  <2>5. RowsOk(st.tools, lines, 0, <<>>)
    <3>1. <<>> \in Seq({}) /\ DOMAIN <<>> = {}
      OBVIOUS
    <3>2. <<>> \in [{} -> {}]
      OBVIOUS
    <3>3. IsSeq(<<>>)
      BY <3>1 DEF IsSeq
    <3>4. QED
      BY <2>1, <2>2, <3>1, <3>2, <3>3 DEF RowsOk
  <2>6. Churned(st, lines, 0, <<>>)
    BY <2>1, <2>3, <2>4, <2>5 DEF Churned
  <2>7. QED
    BY <1>3, <2>6 DEF st
<1>5. ASSUME NEW n \in S
      PROVE  n + 1 \in S
  <2> SUFFICES ASSUME n + 1 <= N PROVE \E w : Churned(G[n + 1], lines, n + 1, w)
    OBVIOUS
  <2>1. n \in Nat /\ n \in 0 .. N - 1 /\ n + 1 \in DOMAIN lines
    BY <1>1
  <2>2. PICK w : Churned(G[n], lines, n, w)
    BY <1>1, <2>1
  <2>3. G[n + 1] = Dispatch(G[n], file, n + 1, lines[n + 1])
    BY <1>3, <2>1
  <2> HIDE DEF S
  <2>4. CASE lines[n + 1].kind \notin {"tool_call", "patch_apply_end", "tool_output"}
    BY <2>1, <2>2, <2>3, <2>4, IdleRows
  <2>5. CASE lines[n + 1].kind = "tool_output"
    BY <1>1, <2>1, <2>2, <2>3, <2>5, OutputRows
  <2>6. CASE lines[n + 1].kind = "tool_call"
    BY <1>1, <2>1, <2>2, <2>3, <2>6, CallRows
  <2>7. CASE lines[n + 1].kind = "patch_apply_end"
    BY <1>1, <2>1, <2>2, <2>3, <2>7, PatchRows
  <2>8. QED
    BY <2>4, <2>5, <2>6, <2>7
<1>6. S \in SUBSET Nat
  OBVIOUS
<1> HIDE DEF S
<1>7. S = Nat
  BY <1>4, <1>5, <1>6, Induct
<1>8. \E w : Churned(G[N], lines, N, w)
  BY <1>1, <1>7 DEF S
<1>9. QED
  BY <1>3, <1>8

-----------------------------------------------------------------------------
(* The rows of a turn that are of no call.                                 *)

IsAlone(row, turn) == row.call = None /\ row.turn = turn

AloneLines(s, turn) ==
    FoldLeft(LAMBDA sum, row : IF row.call = None /\ row.turn = turn
                               THEN sum + row.lines ELSE sum, 0, s)

AloneSum(s, turn, h, x) ==
    IF x = {} THEN 0
    ELSE IF IsAlone(s[Max(x)], turn) THEN h[x \ {Max(x)}] + s[Max(x)].lines
    ELSE h[x \ {Max(x)}]

AloneSums(s, turn, h) == h = [x \in SUBSET DOMAIN s |-> AloneSum(s, turn, h, x)]

LEMMA AloneIsSums ==
  ASSUME NEW s, NEW turn
  PROVE  AloneLines(s, turn) = (CHOOSE h : AloneSums(s, turn, h))[DOMAIN s]
BY DEF AloneLines, FoldLeft, MapThenFoldSet, AloneSums, AloneSum, IsAlone

AloneOnes(s, turn, n) == {i \in 1 .. n : IsAlone(s[i], turn) /\ s[i].lines = 1}

LEMMA AloneAddsUp ==
  ASSUME NEW s, IsSeq(s), NEW turn,
         \A i \in DOMAIN s : IsAlone(s[i], turn) => s[i].lines \in {0, 1}
  PROVE  AloneLines(s, turn) = Cardinality(AloneOnes(s, turn, Len(s)))
<1> DEFINE N == Len(s)
           Worth(i) == IF IsAlone(s[i], turn) THEN s[i].lines ELSE 0
           step == [p \in Int \X (1 .. N) |-> p[1] + Worth(p[2])]
           D == SUBSET (1 .. N)
<1>1. N \in Nat /\ DOMAIN s = 1 .. N
  BY AppendSeq
<1>2. \A i \in 1 .. N : Worth(i) \in Int
  BY <1>1
<1> HIDE DEF N, Worth
<1>3. step \in [Int \X (1 .. N) -> Int] /\ 0 \in Int
  BY <1>2
<1>4. \A v \in Int, j \in 1 .. N : step[<<v, j>>] = v + Worth(j)
  OBVIOUS
<1> HIDE DEF step
<1>5. PICK f : IsFold(N, Int, 0, step, f)
  BY <1>1, <1>3, FoldExists
<1>6. /\ f \in [D -> Int]
      /\ \A x \in D : f[x] = IF x = {} THEN 0 ELSE step[<<f[x \ {Max(x)}], Max(x)>>]
  BY <1>5 DEF IsFold
<1>7. \A x \in D : f[x] = AloneSum(s, turn, f, x)
  <2> SUFFICES ASSUME NEW x \in D, x # {} PROVE f[x] = AloneSum(s, turn, f, x)
    BY <1>6 DEF AloneSum
  <2>1. x \ {Max(x)} \in D /\ Max(x) \in 1 .. N
    BY <1>1, MaxAmong
  <2>2. f[x \ {Max(x)}] \in Int
    BY <1>6, <2>1
  <2>3. f[x] = f[x \ {Max(x)}] + Worth(Max(x))
    BY <1>4, <1>6, <2>1, <2>2
  <2>4. CASE IsAlone(s[Max(x)], turn)
    <3>1. Worth(Max(x)) = s[Max(x)].lines
      BY <2>4 DEF Worth
    <3>2. QED
      BY <2>3, <2>4, <3>1 DEF AloneSum
  <2>5. CASE ~IsAlone(s[Max(x)], turn)
    <3>1. Worth(Max(x)) = 0
      BY <2>5 DEF Worth
    <3>2. \A v \in Int : v + 0 = v
      OBVIOUS
    <3>3. f[x] = f[x \ {Max(x)}]
      BY <2>2, <2>3, <3>1, <3>2
    <3>4. QED
      BY <2>5, <3>3 DEF AloneSum
  <2>6. QED
    BY <2>4, <2>5
<1>8. AloneSums(s, turn, f)
  <2>1. f = [x \in D |-> f[x]]
    BY <1>6
  <2>2. QED
    BY <1>1, <1>7, <2>1 DEF AloneSums
<1> DEFINE h == CHOOSE g : AloneSums(s, turn, g)
<1>9. AloneSums(s, turn, h) /\ AloneLines(s, turn) = h[1 .. N]
  BY <1>1, <1>8, AloneIsSums
<1> HIDE DEF h
<1>10. \A x \in D : h[x] = AloneSum(s, turn, h, x)
  BY <1>1, <1>9 DEF AloneSums
<1> DEFINE Ones(n) == AloneOnes(s, turn, n)
           S == {n \in Nat : n <= N => h[1 .. n] = Cardinality(Ones(n))}
<1>11. 0 \in S
  <2>1. 1 .. 0 = {} /\ {} \in D
    OBVIOUS
  <2>2. h[{}] = 0
    BY <1>10, <2>1 DEF AloneSum
  <2>3. Ones(0) = {}
    BY <2>1 DEF AloneOnes
  <2> HIDE DEF Ones
  <2>4. QED
    BY <2>1, <2>2, <2>3, FS_EmptySet
<1>12. ASSUME NEW n \in S
       PROVE  n + 1 \in S
  <2> SUFFICES ASSUME n + 1 <= N PROVE h[1 .. n + 1] = Cardinality(Ones(n + 1))
    OBVIOUS
  <2>1. n \in Nat /\ n + 1 \in 1 .. N /\ h[1 .. n] = Cardinality(Ones(n))
    BY <1>1
  <2> HIDE DEF S
  <2>2. 1 .. n + 1 \in D /\ 1 .. n + 1 # {}
    <3>1. n + 1 \in 1 .. n + 1 /\ \A x \in 1 .. n + 1 : x \in 1 .. N
      BY <1>1, <2>1
    <3>2. QED
      BY <3>1
  <2>3. Max(1 .. n + 1) = n + 1 /\ (1 .. n + 1) \ {n + 1} = 1 .. n
    BY <2>1, MaxOf
  <2>4. h[1 .. n + 1] = IF IsAlone(s[n + 1], turn) THEN h[1 .. n] + s[n + 1].lines
                        ELSE h[1 .. n]
    BY <1>10, <2>2, <2>3 DEF AloneSum
  <2>5. IsFiniteSet(Ones(n)) /\ Cardinality(Ones(n)) \in Nat /\ n + 1 \notin Ones(n)
    <3>1. Ones(n) \in SUBSET (1 .. n) /\ IsFiniteSet(1 .. n)
      BY <2>1, FS_Interval DEF AloneOnes
    <3>2. QED
      BY <2>1, <3>1, FS_Subset, FS_CardinalityType, OneMore
  <2>6. Ones(n + 1) = IF IsAlone(s[n + 1], turn) /\ s[n + 1].lines = 1 THEN Ones(n) \cup {n + 1}
                      ELSE Ones(n)
    BY <2>1, OneMore DEF AloneOnes
  <2> HIDE DEF Ones
  <2>7. Cardinality(Ones(n) \cup {n + 1}) = Cardinality(Ones(n)) + 1
    BY <2>5, FS_AddElement
  <2>8. IsAlone(s[n + 1], turn) => s[n + 1].lines \in {0, 1}
    BY <1>1, <2>1
  <2>9. QED
    BY <2>1, <2>4, <2>5, <2>6, <2>7, <2>8
<1>13. S \in SUBSET Nat
  OBVIOUS
<1> HIDE DEF S
<1>14. S = Nat
  BY <1>11, <1>12, <1>13, Induct
<1>15. h[1 .. N] = Cardinality(Ones(N))
  BY <1>1, <1>14 DEF S
<1>16. QED
  BY <1>9, <1>15 DEF N

LEMMA SameSize ==
  ASSUME NEW S, NEW T, IsFiniteSet(S), NEW f, f \in [S -> T],
         \A i, j \in S : f[i] = f[j] => i = j, \A t \in T : \E i \in S : f[i] = t
  PROVE  IsFiniteSet(T) /\ Cardinality(T) = Cardinality(S)
<1>1. f \in Surjection(S, T)
  BY DEF Surjection
<1>2. f \in Injection(S, T)
  BY DEF Injection, IsInjective
<1>3. QED
  BY <1>1, <1>2, FS_Surjection

LEMMA FinishTools ==
  ASSUME NEW st, Tooling \subseteq DOMAIN st, NEW n
  PROVE  FinishParse(st, n).tools = ResolveToolErrors(st.tools, st.results)
<1> DEFINE closed == CloseTurn(st, n)
<1>1. SameTooling(st, closed)
  BY TurnsKeepTooling
<1> HIDE DEF closed
<1>2. FinishParse(st, n).tools = ResolveToolErrors(closed.tools, closed.results)
  BY DEF FinishParse, closed
<1>3. QED
  BY <1>1, <1>2 DEF SameTooling

FailedAt(lines, c) ==
    \E o \in OutputsIn(lines) : lines[o].call = lines[c].call /\ lines[o].failed

(* A row, once its call is settled.                                        *)
EndRow(row, lines, k) ==
    /\ lines[k].kind = "tool_call" =>
          /\ row.call = lines[k].call
          /\ row.lines = IF FailedAt(lines, k) THEN 0
                         ELSE 2 + Cardinality(OwedTo(lines, Len(lines), k))
    /\ lines[k].kind # "tool_call" =>
          /\ row.call = None /\ row.turn = lines[k].turn
          /\ row.lines = IF lines[k].ok THEN 1 ELSE 0

LEMMA EndOfRow ==
  ASSUME NEW lines, WorkOk(lines), DOMAIN lines = 1 .. Len(lines), Len(lines) \in Nat,
         NEW results, SettledBy(results, lines, Len(lines)),
         NEW k \in DOMAIN lines, NEW tool, RowOk(tool, lines, Len(lines), k)
  PROVE  EndRow(ResolvedTool(tool, results), lines, k)
<1> DEFINE N == Len(lines)
           row == ResolvedTool(tool, results)
           r == results[tool.call]
<1>1. OutputsTo(lines, N) = OutputsIn(lines)
  BY DEF OutputsTo, OutputsIn
<1>2. RowKeys \subseteq DOMAIN tool
  BY DEF RowOk
<1>3. CASE lines[k].kind = "tool_call"
  <2>1. /\ tool.call = lines[k].call /\ tool.lines = 2 + Cardinality(OwedTo(lines, N, k))
        /\ tool.call \in Calls /\ tool.call # None
    BY <1>3, NoneAssumption DEF RowOk, WorkOk, WorkLine
  <2>2. \A o \in OutputsIn(lines) : lines[o].call = tool.call => r = lines[o].failed
    BY <1>1 DEF SettledBy
  <2>3. \A o \in OutputsIn(lines) : lines[o].failed \in BOOLEAN
    BY DEF OutputsIn, WorkOk, WorkLine
  <2>4. r # None => \E o \in OutputsIn(lines) : lines[o].call = tool.call
    BY <1>1, <2>1 DEF SettledBy
  <2>5. None \notin BOOLEAN
    BY CodexAssumption
  <2> HIDE DEF r
  <2>6. CASE r = None
    <3>1. row = tool
      BY <2>6 DEF ResolvedTool, r
    <3>2. \A o \in OutputsIn(lines) : lines[o].call # tool.call
      BY <2>2, <2>3, <2>5, <2>6
    <3>3. ~FailedAt(lines, k)
      BY <2>1, <3>2 DEF FailedAt
    <3> HIDE DEF row
    <3>4. EndRow(row, lines, k)
      BY <1>3, <2>1, <3>1, <3>3 DEF EndRow
    <3>5. QED
      BY <3>4 DEF row
  <2>7. CASE r # None
    <3>1. PICK o \in OutputsIn(lines) : lines[o].call = tool.call
      BY <2>4, <2>7
    <3>2. r \in BOOLEAN
      BY <2>2, <2>3, <3>1
    <3>3. row = [tool EXCEPT !.error = r, !.lines = IF r THEN 0 ELSE @]
      BY <2>1, <2>7 DEF ResolvedTool, r
    <3>4. CASE r = TRUE
      <4>1. FailedAt(lines, k)
        BY <2>1, <2>2, <3>1, <3>4 DEF FailedAt
      <4>2. row = [tool EXCEPT !.error = r, !.lines = 0]
        BY <3>3, <3>4
      <4> HIDE DEF row
      <4>3. row.call = tool.call /\ row.lines = 0
        BY <1>2, <4>2 DEF RowKeys
      <4>4. EndRow(row, lines, k)
        BY <1>3, <2>1, <4>1, <4>3 DEF EndRow
      <4>5. QED
        BY <4>4 DEF row
    <3>5. CASE r = FALSE
      <4>1. ~FailedAt(lines, k)
        BY <2>1, <2>2, <3>5 DEF FailedAt
      <4>2. row = [tool EXCEPT !.error = r, !.lines = @]
        BY <3>3, <3>5
      <4> HIDE DEF row
      <4>3. row.call = tool.call /\ row.lines = tool.lines
        BY <1>2, <4>2 DEF RowKeys
      <4>4. EndRow(row, lines, k)
        BY <1>3, <2>1, <4>1, <4>3 DEF EndRow
      <4>5. QED
        BY <4>4 DEF row
    <3>6. QED
      BY <3>2, <3>4, <3>5
  <2>8. QED
    BY <2>6, <2>7
<1>4. CASE lines[k].kind # "tool_call"
  <2>1. tool.call = None
    BY <1>4 DEF RowOk
  <2>2. row = tool
    BY <2>1 DEF ResolvedTool
  <2> HIDE DEF row
  <2>3. EndRow(row, lines, k)
    BY <1>4, <2>2 DEF EndRow, RowOk
  <2>4. QED
    BY <2>3 DEF row
<1>5. QED
  BY <1>3, <1>4

(* The rows that a parse returns, and the lines they are of.               *)
EndRows(rows, lines, w) ==
    /\ IsSeq(rows)
    /\ w \in [DOMAIN rows -> RowsTo(lines, Len(lines))]
    /\ \A i, j \in DOMAIN rows : w[i] = w[j] => i = j
    /\ \A k \in RowsTo(lines, Len(lines)) : \E i \in DOMAIN rows : w[i] = k
    /\ \A i \in DOMAIN rows : EndRow(rows[i], lines, w[i])

LEMMA ParseRows ==
  ASSUME NEW lines, IsSeq(lines), WorkOk(lines), NEW file
  PROVE  \E w : EndRows(CodexParse(file, lines).tools, lines, w)
<1> DEFINE N == Len(lines)
           st == CodexScan(file, lines)
           tools == st.tools
           results == st.results
           rows == ResolveToolErrors(tools, results)
<1>1. N \in Nat /\ DOMAIN lines = 1 .. N
  BY AppendSeq
<1>2. PICK w : Churned(st, lines, N, w)
  BY ScanChurns
<1> HIDE DEF st
<1>3. CodexParse(file, lines).tools = rows
  BY <1>2, FinishTools DEF CodexParse, Churned, st
<1>4. RowsOk(tools, lines, N, w) /\ SettledBy(results, lines, N)
  BY <1>2 DEF Churned
<1> HIDE DEF tools, results
<1>5. DOMAIN tools = 1 .. Len(tools) /\ Len(tools) \in Nat
  BY <1>4, AppendSeq DEF RowsOk
<1>6. /\ DOMAIN rows = DOMAIN tools
      /\ \A i \in DOMAIN tools : rows[i] = ResolvedTool(tools[i], results)
  BY DEF ResolveToolErrors
<1>7. IsSeq(rows)
  <2> DEFINE T == {ResolvedTool(tools[i], results) : i \in DOMAIN tools}
  <2>1. rows = [i \in 1 .. Len(tools) |-> ResolvedTool(tools[i], results)]
    BY <1>5 DEF ResolveToolErrors
  <2>2. \A i \in 1 .. Len(tools) : ResolvedTool(tools[i], results) \in T
    BY <1>5
  <2> HIDE DEF rows, T
  <2>3. rows \in Seq(T)
    BY <1>5, <2>1, <2>2
  <2>4. QED
    BY <2>3 DEF IsSeq
<1> HIDE DEF rows
<1>8. \A i \in DOMAIN tools : EndRow(rows[i], lines, w[i])
  <2> SUFFICES ASSUME NEW i \in DOMAIN tools PROVE EndRow(rows[i], lines, w[i])
    OBVIOUS
  <2>1. w[i] \in DOMAIN lines /\ RowOk(tools[i], lines, N, w[i])
    <3>1. w[i] \in RowsTo(lines, N)
      BY <1>4 DEF RowsOk
    <3>2. QED
      BY <1>1, <1>4, <3>1 DEF RowsOk, RowsTo
  <2>2. EndRow(ResolvedTool(tools[i], results), lines, w[i])
    BY <1>1, <1>4, <2>1, EndOfRow
  <2>3. QED
    BY <1>6, <2>2
<1>9. EndRows(rows, lines, w)
  BY <1>4, <1>6, <1>7, <1>8 DEF EndRows, RowsOk
<1>10. QED
  BY <1>3, <1>9

-----------------------------------------------------------------------------
(* Every line that was changed is in a row, once.                         *)

LEMMA RowsChurn ==
  ASSUME CodexInv, ChurnInv
  PROVE  ChurnByTurn
<1> SUFFICES ASSUME NEW file \in Rollouts
             PROVE  LET lines == journal[file]
                        calls == CallsIn(lines)
                        patches == PatchesIn(lines)
                        Worth(ps) == Cardinality({p \in ps : lines[p].ok})
                        Failed(c) == \E o \in OutputLines(file) :
                                        o.call = lines[c].call /\ o.failed
                        rows == parsed[file].tools
                        RowOf(c) == CHOOSE row \in ToSet(rows) : row.call = lines[c].call
                    IN /\ \A c \in calls :
                            RowOf(c).lines =
                              IF Failed(c) THEN 0
                              ELSE 2 + Worth({p \in patches : CallersOf(lines, p) # {}
                                                              /\ Max(CallersOf(lines, p)) = c})
                       /\ Len(rows) = Cardinality(calls)
                            + Cardinality({p \in patches : CallersOf(lines, p) = {}})
                       /\ \A turn \in {lines[p].turn : p \in patches} :
                            AloneLines(rows, turn)
                              = Worth({p \in patches : /\ lines[p].turn = turn
                                                       /\ CallersOf(lines, p) = {}})
  BY DEF ChurnByTurn, CallsIn, PatchesIn, CallersOf, AloneLines
<1> DEFINE lines == journal[file]
           N == Len(lines)
           rows == parsed[file].tools
           orphans == {p \in PatchesIn(lines) : CallersOf(lines, p) = {}}
           RowOf(c) == CHOOSE row \in ToSet(rows) : row.call = lines[c].call
           Failed(c) == \E o \in OutputLines(file) : o.call = lines[c].call /\ o.failed
<1>1. IsSeq(lines) /\ WorkOk(lines) /\ parsed[file] = CodexParse(file, lines)
  BY DEF CodexInv, JournalOk, LinesOk, ChurnInv
<1>2. N \in Nat /\ DOMAIN lines = 1 .. N
  BY <1>1, AppendSeq
<1>3. PICK w : EndRows(rows, lines, w)
  BY <1>1, ParseRows
<1>4. \A c : Failed(c) <=> FailedAt(lines, c)
  BY DEF OutputLines, OutputsIn, FailedAt, ToSet
<1> HIDE DEF Failed, lines, rows, N
<1>5. /\ DOMAIN rows = 1 .. Len(rows) /\ Len(rows) \in Nat
      /\ ToSet(rows) = {rows[i] : i \in DOMAIN rows}
  BY <1>3, AppendSeq DEF EndRows, ToSet
<1>6. RowsTo(lines, N) = CallsIn(lines) \cup orphans
  BY <1>2 DEF RowsTo, HasRow, Orphan, CallsIn, PatchesIn
<1>7. \A k \in orphans : k \notin CallsIn(lines)
  BY DEF CallsIn, PatchesIn
<1>8. \A i \in DOMAIN rows : /\ w[i] \in RowsTo(lines, N) /\ EndRow(rows[i], lines, w[i])
  BY <1>3 DEF EndRows, N
<1>9. \A c \in CallsIn(lines) : /\ c \in DOMAIN lines /\ lines[c].kind = "tool_call"
                                /\ lines[c].call \in Calls /\ lines[c].call # None
  BY <1>1, NoneAssumption DEF CallsIn, WorkOk, WorkLine
<1>10. \A k \in RowsTo(lines, N) : lines[k].kind = "tool_call" <=> k \in CallsIn(lines)
  BY <1>2 DEF RowsTo, CallsIn
<1>11. ASSUME NEW c \in CallsIn(lines)
       PROVE  RowOf(c).lines =
                IF Failed(c) THEN 0
                ELSE 2 + Cardinality({p \in {q \in PatchesIn(lines) :
                                               CallersOf(lines, q) # {}
                                               /\ Max(CallersOf(lines, q)) = c} : lines[p].ok})
  <2>1. PICK i \in DOMAIN rows : w[i] = c
    BY <1>3, <1>6 DEF EndRows, N
  <2>2. EndRow(rows[i], lines, c) /\ lines[c].kind = "tool_call"
    BY <1>8, <1>9, <2>1
  <2>3. rows[i].call = lines[c].call
    BY <2>2 DEF EndRow
  <2>4. \A j \in DOMAIN rows : rows[j].call = lines[c].call => j = i
    <3> SUFFICES ASSUME NEW j \in DOMAIN rows, rows[j].call = lines[c].call PROVE j = i
      OBVIOUS
    <3>1. w[j] \in RowsTo(lines, N) /\ EndRow(rows[j], lines, w[j])
      BY <1>8
    <3>2. lines[w[j]].kind = "tool_call"
      BY <1>9, <3>1 DEF EndRow
    <3>3. w[j] \in CallsIn(lines) /\ lines[w[j]].call = lines[c].call
      BY <1>10, <3>1, <3>2 DEF EndRow
    <3>4. w[j] = c
      BY <1>1, <3>3 DEF WorkOk
    <3>5. QED
      BY <1>3, <2>1, <3>4 DEF EndRows
  <2>5. /\ rows[i] \in ToSet(rows)
        /\ \A row \in ToSet(rows) : row.call = lines[c].call => row = rows[i]
    BY <1>5, <2>4
  <2>6. RowOf(c) = rows[i]
    BY <2>3, <2>5
  <2> HIDE DEF RowOf
  <2>7. OwedTo(lines, N, c) =
          {p \in {q \in PatchesIn(lines) : CallersOf(lines, q) # {}
                                           /\ Max(CallersOf(lines, q)) = c} : lines[p].ok}
    BY <1>2 DEF OwedTo, AppliedBy, HasCaller, PatchesIn
  <2>8. QED
    BY <1>4, <2>2, <2>6, <2>7 DEF EndRow, N
<1>12. Len(rows) = Cardinality(CallsIn(lines)) + Cardinality(orphans)
  <2> DEFINE S == DOMAIN rows
             T == RowsTo(lines, N)
  <2>1. IsFiniteSet(S) /\ Cardinality(S) = Len(rows)
    <3> DEFINE L == Len(rows)
    <3> HIDE DEF L
    <3>1. L \in Nat /\ S = 1 .. L
      BY <1>5 DEF L
    <3> HIDE DEF S
    <3>2. IsFiniteSet(1 .. L) /\ Cardinality(1 .. L) = IF 1 > L THEN 0 ELSE L - 1 + 1
      BY <3>1, FS_Interval
    <3>3. Cardinality(S) = L
      BY <3>1, <3>2
    <3>4. QED
      BY <3>1, <3>2, <3>3 DEF L
  <2>2. Cardinality(T) = Len(rows)
    <3>1. /\ w \in [S -> T] /\ \A i, j \in S : w[i] = w[j] => i = j
          /\ \A k \in T : \E i \in S : w[i] = k
      BY <1>3 DEF EndRows, N
    <3> HIDE DEF S, T
    <3>2. Cardinality(T) = Cardinality(S)
      BY <2>1, <3>1, SameSize
    <3>3. QED
      BY <2>1, <3>2
  <2>3. IsFiniteSet(CallsIn(lines)) /\ IsFiniteSet(orphans)
    <3>1. IsFiniteSet(1 .. N) /\ CallsIn(lines) \in SUBSET (1 .. N) /\ orphans \in SUBSET (1 .. N)
      BY <1>2, FS_Interval DEF CallsIn, PatchesIn
    <3>2. QED
      BY <3>1, FS_Subset
  <2> HIDE DEF orphans
  <2>4. CallsIn(lines) \cap orphans = {}
    BY <1>7
  <2>5. /\ Cardinality(CallsIn(lines) \cup orphans) =
            Cardinality(CallsIn(lines)) + Cardinality(orphans)
              - Cardinality(CallsIn(lines) \cap orphans)
        /\ Cardinality(CallsIn(lines)) \in Nat /\ Cardinality(orphans) \in Nat
    BY <2>3, FS_Union, FS_CardinalityType
  <2>6. Cardinality(CallsIn(lines) \cap orphans) = 0
    BY <2>4, FS_EmptySet
  <2>7. \A a, b \in Nat : a + b - 0 = a + b
    OBVIOUS
  <2>8. QED
    BY <1>6, <2>2, <2>5, <2>6, <2>7
<1>13. ASSUME NEW turn
       PROVE  AloneLines(rows, turn) =
                Cardinality({p \in {q \in PatchesIn(lines) : /\ lines[q].turn = turn
                                                             /\ CallersOf(lines, q) = {}} :
                               lines[p].ok})
  <2> DEFINE T == {p \in {q \in PatchesIn(lines) : /\ lines[q].turn = turn
                                                   /\ CallersOf(lines, q) = {}} : lines[p].ok}
             S == AloneOnes(rows, turn, Len(rows))
  <2>1. \A k \in T : k \in orphans /\ k \in RowsTo(lines, N) /\ lines[k].kind # "tool_call"
    BY <1>6 DEF PatchesIn
  <2>2. \A k \in RowsTo(lines, N) :
           k \in T <=> lines[k].kind # "tool_call" /\ lines[k].turn = turn /\ lines[k].ok
    BY <1>6, <2>1 DEF CallsIn
  <2> HIDE DEF T, S
  <2>3. \A i \in DOMAIN rows : IsAlone(rows[i], turn) => rows[i].lines \in {0, 1}
    BY <1>8, <1>9, <1>10 DEF EndRow, IsAlone
  <2>4. AloneLines(rows, turn) = Cardinality(S)
    BY <1>3, <2>3, AloneAddsUp DEF EndRows, S
  <2>5. \A i \in DOMAIN rows : i \in S <=> w[i] \in T
    <3> SUFFICES ASSUME NEW i \in DOMAIN rows PROVE i \in S <=> w[i] \in T
      OBVIOUS
    <3> DEFINE k == w[i]
    <3>1. k \in RowsTo(lines, N) /\ EndRow(rows[i], lines, k)
      BY <1>8
    <3>2. i \in S <=> IsAlone(rows[i], turn) /\ rows[i].lines = 1
      BY <1>5 DEF S, AloneOnes
    <3> HIDE DEF k
    <3>3. CASE lines[k].kind = "tool_call"
      <4>1. rows[i].call # None
        BY <1>9, <1>10, <3>1, <3>3 DEF EndRow
      <4>2. QED
        BY <2>2, <3>1, <3>2, <3>3, <4>1 DEF IsAlone, k
    <3>4. CASE lines[k].kind # "tool_call"
      <4>1. /\ rows[i].call = None /\ rows[i].turn = lines[k].turn
            /\ rows[i].lines = IF lines[k].ok THEN 1 ELSE 0
        BY <3>1, <3>4 DEF EndRow
      <4>2. QED
        BY <2>2, <3>1, <3>2, <3>4, <4>1 DEF IsAlone, k
    <3>5. QED
      BY <3>3, <3>4
  <2> DEFINE f == [i \in S |-> w[i]]
  <2>6. S \in SUBSET (1 .. Len(rows)) /\ IsFiniteSet(1 .. Len(rows))
    BY <1>5, FS_Interval DEF S, AloneOnes
  <2>7. IsFiniteSet(S)
    BY <2>6, FS_Subset
  <2>8. f \in [S -> T] /\ \A i, j \in S : f[i] = f[j] => i = j
    BY <1>3, <1>5, <2>5, <2>6 DEF EndRows
  <2>9. \A k \in T : \E i \in S : f[i] = k
    <3> SUFFICES ASSUME NEW k \in T PROVE \E i \in S : f[i] = k
      OBVIOUS
    <3>1. PICK i \in DOMAIN rows : w[i] = k
      BY <1>3, <2>1 DEF EndRows, N
    <3>2. i \in S
      BY <2>5, <3>1
    <3>3. QED
      BY <3>1, <3>2
  <2> HIDE DEF f
  <2>10. Cardinality(T) = Cardinality(S)
    BY <2>7, <2>8, <2>9, SameSize
  <2>11. QED
    BY <2>4, <2>10 DEF T
<1>14. QED
  BY <1>11, <1>12, <1>13 DEF Failed, rows, lines

-----------------------------------------------------------------------------
(* Every transcript.                                                       *)

ParseInv == KimiInv /\ CodexInv

LEMMA ParseInit == Init => ParseInv
<1> SUFFICES ASSUME Init PROVE ParseInv
  OBVIOUS
<1>1. KimiInv
  <2>1. wire = NewParse /\ log = <<>>
    BY DEF Init, KimiInit
  <2>2. /\ Fields \subseteq DOMAIN NewParse /\ NewParse.records = <<>> /\ NewParse.turns = <<>>
        /\ NewParse.turn = None /\ NewParse.anchor = None /\ NewParse.text = 0
    BY DEF NewParse, Fields
  <2>3. Len(log) = 0 /\ log \in Seq(LogLine)
    BY <2>1
  <2>4. QED
    BY <2>1, <2>2, <2>3, FollowsNothing DEF KimiInv
<1>2. CodexInv
  <2>1. /\ journal = [f \in Rollouts |-> <<>>] /\ replayed = 0
        /\ parsed = [f \in Rollouts |-> CodexParse(f, <<>>)]
        /\ counter = [f \in Rollouts |-> Nothing]
    BY DEF Init, CodexInit
  <2>2. Nothing \in Readings
    BY DEF Nothing, Readings
  <2>3. <<>> \in Seq({}) /\ DOMAIN <<>> = {}
    OBVIOUS
  <2>4. LinesOk(<<>>)
    BY <2>3 DEF LinesOk, IsSeq
  <2>5. QED
    BY <2>1, <2>2, <2>3, <2>4 DEF CodexInv, JournalOk
<1>3. QED
  BY <1>1, <1>2 DEF ParseInv

LEMMA ParseNext == ParseInv /\ [Next]_vars => ParseInv'
<1> SUFFICES ASSUME ParseInv, [Next]_vars PROVE ParseInv'
  OBVIOUS
<1>1. UNCHANGED kimiVars => KimiInv'
  BY DEF ParseInv, KimiInv, kimiVars
<1>2. UNCHANGED <<wire, log>> => KimiInv'
  BY DEF ParseInv, KimiInv
<1>3. UNCHANGED codexVars => CodexInv'
  BY DEF ParseInv, CodexInv, JournalOk, codexVars
<1>4. CASE Detect
  BY <1>2, <1>3, <1>4 DEF Detect, ParseInv
<1>5. CASE KimiNext /\ UNCHANGED codexVars
  BY <1>3, <1>5, KimiStep DEF ParseInv
<1>6. CASE CodexNext /\ UNCHANGED kimiVars
  BY <1>1, <1>6, CodexStep DEF ParseInv
<1>7. CASE UNCHANGED vars
  BY <1>1, <1>3, <1>7 DEF vars, kimiVars, codexVars, ParseInv
<1>8. QED
  BY <1>4, <1>5, <1>6, <1>7 DEF Next

(* Every parse is the end of a state that follows the file's log.          *)
LEMMA ParsesFollow ==
  ASSUME ParseInv, NEW p \in Parses
  PROVE  /\ Len(p.log) \in Nat /\ DOMAIN p.log = 1 .. Len(p.log)
         /\ \E st, n : Follows(st, p.log, Len(p.log)) /\ p.result = FinishParse(st, n)
<1>1. CASE p = [result |-> KimiParsed, log |-> log]
  <2>1. Follows(wire, log, Len(log)) /\ Len(log) \in Nat /\ DOMAIN log = 1 .. Len(log)
    BY DEF ParseInv, KimiInv
  <2> DEFINE n == IF format = "legacy" THEN None ELSE Len(log)
  <2>2. p.log = log /\ p.result = FinishParse(wire, n)
    BY <1>1, <2>1 DEF KimiParsed
  <2> HIDE DEF n
  <2>3. QED
    BY <2>1, <2>2
<1>2. CASE p \in {[result |-> parsed[f], log |-> LogOf(f)] : f \in Rollouts}
  <2>1. PICK f \in Rollouts : p = [result |-> parsed[f], log |-> LogOf(f)]
    BY <1>2
  <2> DEFINE lines == journal[f]
             n == Len(lines)
  <2>2. LinesOk(lines) /\ parsed[f] = CodexParse(f, lines)
    BY DEF ParseInv, CodexInv, JournalOk
  <2>3. n \in Nat /\ DOMAIN lines = 1 .. n
    BY <2>2, AppendSeq DEF LinesOk
  <2>4. LogOf(f) = LogOfLines(lines)
    BY DEF LogOf, LogOfLines
  <2>5. Follows(CodexScan(f, lines), LogOfLines(lines), n)
    BY <2>2, ScanFollows
  <2>6. Len(LogOfLines(lines)) = n /\ DOMAIN LogOfLines(lines) = 1 .. n
    BY <2>3 DEF LogOfLines
  <2>7. p.log = LogOfLines(lines) /\ p.result = FinishParse(CodexScan(f, lines), n)
    BY <2>1, <2>2, <2>4 DEF CodexParse
  <2> HIDE DEF lines, n
  <2>8. QED
    BY <2>3, <2>5, <2>6, <2>7
<1>3. QED
  BY <1>1, <1>2 DEF Parses

(* A reply's latency runs from the last prompt, unless that was answered   *)
(* or a turn has ended since, and its text is what its turn said, whatever *)
(* lines a transcript has and whatever their stamps.                       *)
(* (parse_common.py, the anchor)                                           *)
THEOREM LatencyIsOwn == Spec => []LatencyFromOwnPrompt
<1>1. ParseInv => LatencyFromOwnPrompt
  <2> SUFFICES ASSUME ParseInv, NEW p \in Parses PROVE TimedByLog(p.result, p.log)
    BY DEF LatencyFromOwnPrompt
  <2>1. PICK st, n : Follows(st, p.log, Len(p.log)) /\ p.result = FinishParse(st, n)
    BY ParsesFollow
  <2>2. QED
    BY <2>1, FollowsTimed
<1>2. QED
  BY ParseInit, ParseNext, <1>1, PTL DEF Spec

(* The context trace has one point for each turn that billed a context,    *)
(* its last, in order, and the deltas up to each add up to its context:    *)
(* in every format, for any number of turns and records.                   *)
(* (parse_common.py, _ctx_turns_from_turns)                                *)
THEOREM TraceIsOfTurns == Spec => []TraceOnePerTurn
<1>1. ParseInv => TraceOnePerTurn
  <2> SUFFICES ASSUME ParseInv, NEW p \in Parses PROVE TracedByLog(p.result, p.log)
    BY DEF TraceOnePerTurn
  <2>1. /\ Len(p.log) \in Nat /\ DOMAIN p.log = 1 .. Len(p.log)
        /\ \E st, n : Follows(st, p.log, Len(p.log)) /\ p.result = FinishParse(st, n)
    BY ParsesFollow
  <2>2. PICK st, n : Follows(st, p.log, Len(p.log)) /\ p.result = FinishParse(st, n)
    BY <2>1
  <2>3. QED
    BY <2>1, <2>2, FollowsTraced
<1>2. QED
  BY ParseInit, ParseNext, <1>1, PTL DEF Spec

LEMMA BillInit == Init => BillInv
<1> SUFFICES ASSUME Init PROVE BillInv
  OBVIOUS
<1>1. journal = [f \in Rollouts |-> <<>>] /\ asked = {}
  BY DEF Init, CodexInit
<1>2. "fork" \in Rollouts /\ \A f \in Rollouts : DOMAIN journal[f] = {} /\ journal["fork"] = <<>>
  BY <1>1 DEF Rollouts
<1>3. \A f \in Rollouts : HistoryOk(journal[f]) /\ Accounted(journal[f], asked, counter[f])
  BY <1>2 DEF HistoryOk, Accounted
<1>4. QED
  BY <1>1, <1>2, <1>3 DEF BillInv

LEMMA BillNext == ParseInv /\ BillInv /\ [Next]_vars => BillInv'
<1> SUFFICES ASSUME ParseInv, BillInv, [Next]_vars PROVE BillInv'
  OBVIOUS
<1>1. UNCHANGED <<journal, asked, counter>> => BillInv'
  BY DEF BillInv
<1>2. CASE CodexNext
  BY <1>2, BillStep DEF ParseInv
<1>3. QED
  BY <1>1, <1>2 DEF Next, Detect, vars, codexVars

(* However the rollouts of a thread share their history, each request is   *)
(* billed as what it used, under its model, and the rows of one identity   *)
(* agree: for any models, any plan, and journals of any length.            *)
(* (parse_codex.py, traps 1, 2, 4 and 5)                                   *)
THEOREM EachRequestBilled == Spec => []BilledOnce
<1>1. ParseInv /\ BillInv => BilledOnce
  BY BillsAreAsked DEF ParseInv
<1>2. QED
  BY ParseInit, ParseNext, BillInit, BillNext, <1>1, PTL DEF Spec

LEMMA ChurnInit == Init => ChurnInv
<1> SUFFICES ASSUME Init PROVE ChurnInv
  OBVIOUS
<1>1. journal = [f \in Rollouts |-> <<>>] /\ replayed = 0
  BY DEF Init, CodexInit
<1>2. "fork" \in Rollouts /\ \A f \in Rollouts : journal[f] = <<>>
  BY <1>1 DEF Rollouts
<1>3. DOMAIN <<>> = {} /\ Len(<<>>) = 0
  OBVIOUS
<1>4. CallsIn(<<>>) = {} /\ OutputsIn(<<>>) = {} /\ PatchesIn(<<>>) = {}
  BY <1>3 DEF CallsIn, OutputsIn, PatchesIn
<1>5. \A f \in Rollouts : WorkOk(journal[f]) /\ TurnsOk(f)
  BY <1>2, <1>3, <1>4 DEF WorkOk, TurnsOk, CallTurns, SinceMark
<1>6. QED
  BY <1>1, <1>2, <1>3, <1>5 DEF ChurnInv

LEMMA ChurnNext == ParseInv /\ ChurnInv /\ [Next]_vars => ChurnInv'
<1> SUFFICES ASSUME ParseInv, ChurnInv, [Next]_vars PROVE ChurnInv'
  OBVIOUS
<1>1. ASSUME UNCHANGED codexVars PROVE ChurnInv'
  <2>1. \A f \in Rollouts : TurnsOk(f)'
    BY <1>1, OtherTurns DEF ChurnInv, codexVars
  <2>2. QED
    BY <1>1, <2>1 DEF ChurnInv, codexVars
<1>2. CASE CodexNext
  BY <1>2, ChurnStep DEF ParseInv
<1>3. QED
  BY <1>1, <1>2 DEF Next, Detect, vars, codexVars

(* Lines changed are neither lost nor counted twice, however calls, their  *)
(* results and the patches of their turns come, in a rollout or a fork of  *)
(* it: for journals of any length and any number of calls.                 *)
(* (parse_codex.py, _codex_patch; parse_common.py, _resolve_tool_errors)   *)
THEOREM ChurnOfTurns == Spec => []ChurnByTurn
<1>1. ParseInv /\ ChurnInv => ChurnByTurn
  BY RowsChurn DEF ParseInv
<1>2. QED
  BY ParseInit, ParseNext, ChurnInit, ChurnNext, <1>1, PTL DEF Spec
=============================================================================
