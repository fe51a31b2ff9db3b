------------------------------ MODULE MCPanels ------------------------------
(* An instance of Panels for TLC.                                          *)
EXTENDS Panels

CONSTANTS s1, s2, s3, s4, p1, p2, p3, p4, m1, m2, mx

Rates(f, c, r, o) == [fresh |-> f, create |-> c, read |-> r, output |-> o]
Tokens(f, c, r, o) == [fresh |-> f, create |-> c, read |-> r, output |-> o]

(* m1 got cheaper at 6, m2 at 7; mx is in no table.                        *)
Current == [m \in {m1, m2} |-> IF m = m1 THEN Rates(2, 0, 1, 4) ELSE Rates(3, 4, 1, 5)]
Windows == [m \in {m1, m2} |->
              IF m = m1 THEN <<[until |-> 6, rates |-> Rates(4, 0, 2, 6)]>>
              ELSE <<[until |-> 7, rates |-> Rates(5, 6, 2, 9)]>>]
Cheapest == Rates(1, 1, 1, 1)

Order == <<m1, m2, mx>>
BinWidths == <<1, 2, 4>>

Row(id, s, p, m, ts, toks, long) ==
    [id |-> id, session |-> s, project |-> p, model |-> m, ts |-> ts,
     toks |-> toks, long |-> long, cost |-> ComputeCost(m, toks, long, ts)]

Call(id, p, m, ts, lines) ==
    [id |-> id, project |-> p, model |-> m, ts |-> ts, lines |-> lines]

File(rows, uses) == [records |-> rows, calls |-> uses]

(* One session spans hours and models, two share a beginning, a cut falls  *)
(* on a request, and one file is a fork that adds no request and repeats   *)
(* the calls of another.  Of one session and one project no time is known, *)
(* and of another session not before its second file comes.                *)
Transcripts ==
    {File({Row(1, s1, p1, m1, 4, Tokens(1, 0, 2, 1), FALSE),
           Row(2, s1, p1, m2, 5, Tokens(2, 1, 0, 1), TRUE)},
          {Call(1, p1, m1, 4, 1), Call(2, p1, m2, 5, 2)}),
     File({}, {Call(3, p1, m1, 4, 1), Call(4, p1, m2, 5, 2)}),
     File({Row(3, s2, p2, m1, 6, Tokens(1, 0, 1, 1), FALSE)}, {Call(5, p2, m1, 6, 3)}),
     File({Row(4, s3, p3, mx, 6, Tokens(1, 0, 0, 0), FALSE),
           Row(5, s3, p3, m2, 8, Tokens(3, 0, 1, 2), FALSE)},
          {Call(6, p3, m2, 8, 4), Call(7, p3, m2, None, 5)}),
     File({Row(6, s3, p3, m1, None, Tokens(1, 0, 0, 0), FALSE)}, {}),
     File({Row(7, s2, p2, m1, 3, Tokens(0, 0, 1, 1), FALSE)}, {}),
     File({Row(8, s4, p4, m2, None, Tokens(2, 0, 0, 1), FALSE)}, {})}
=============================================================================
