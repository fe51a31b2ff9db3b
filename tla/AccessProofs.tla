---------------------------- MODULE AccessProofs ----------------------------
(***************************************************************************)
(* Who a cookie is good for, what each role is answered, and how often an  *)
(* address may fail, for any number of browsers and users.                 *)
(*                                                                         *)
(* The argument for cookies: secrets are drawn once and have one owner, so *)
(* that what revokes one user's secret is not another's; a secret that is  *)
(* in a row, or that the guests have, was not revoked; and a cookie whose  *)
(* secret is not the one in force holds a revoked one.                     *)
(*                                                                         *)
(* The argument for the limit: an address's list holds every failure of    *)
(* the window that ends now, and a login under way was let in with fewer   *)
(* than the limit there; the clock only drops failures out of the window,  *)
(* and a new failure falls in no window that ended before it.              *)
(***************************************************************************)
EXTENDS Access, FiniteSetTheorems, TLAPS

Row == [secret : Nat, password : Nat]
Token == [user : Users \cup {Guest}, issued : Nat, secret : Nat \ {0}]
Login == [client : Clients, user : Users, password : Nat, config : Row]

TypeOK ==
    /\ now \in Nat /\ secrets \in Nat /\ guestSecret \in Nat \ {0}
    /\ config \in [Users -> Row \cup {Nothing}]
    /\ login \in Login \cup {Nothing}
    /\ jar \in [Clients -> Token \cup {Nothing}]
    /\ revoked \subseteq Nat
    /\ overtaken \subseteq Users

(* The secret in a user's row, and the one in the hands of a login.        *)
InRow(u) == IF config[u] = Nothing THEN 0 ELSE config[u].secret
Held(u) == IF login = Nothing THEN 0
           ELSE IF login.user = u THEN login.config.secret ELSE 0

(* Every secret there is has been drawn.                                   *)
Drawn ==
    /\ guestSecret <= secrets
    /\ \A u \in Users : InRow(u) <= secrets /\ Held(u) <= secrets
    /\ \A s \in revoked : s <= secrets
    /\ \A c \in Clients : jar[c] # Nothing => jar[c].issued <= now

(* And has one owner.                                                      *)
OneOwner ==
    /\ \A u \in Users : guestSecret \notin {InRow(u), Held(u)}
    /\ \A u, v \in Users :
          u # v => /\ InRow(u) # 0 => InRow(u) # InRow(v)
                   /\ Held(u) # 0 => Held(u) # InRow(v)

(* What is in force was not taken away.                                    *)
InForce ==
    /\ guestSecret \notin revoked
    /\ \A u \in Users \ overtaken : InRow(u) # 0 => InRow(u) \notin revoked

(* A cookie has the secret in force, or one that was taken away.           *)
Accounted ==
    \A c \in Clients :
        jar[c] # Nothing /\ jar[c].user \notin overtaken =>
            \/ jar[c].secret \in revoked
            \/ jar[c].user = Guest /\ jar[c].secret = guestSecret
            \/ jar[c].user # Guest /\ jar[c].secret = InRow(jar[c].user)

CookieInv == TypeOK /\ Drawn /\ OneOwner /\ InForce /\ Accounted

-----------------------------------------------------------------------------
LEMMA InitCookies == Init => CookieInv
<1> SUFFICES ASSUME Init PROVE CookieInv
  OBVIOUS
<1>1. config \in [Users -> Row]
  BY DEF Init, Row
<1>2. \A u \in Users : InRow(u) = 0 /\ Held(u) = 0
  BY <1>1 DEF Init, InRow, Held, Row
<1>3. TypeOK
  BY <1>1 DEF Init, TypeOK
<1>4. QED
  BY <1>2, <1>3 DEF Init, CookieInv, Drawn, OneOwner, InForce, Accounted

(* Another program changes a row: it keeps the secret or takes it away.    *)
LEMMA EditCookies ==
  ASSUME CookieInv, NEW u \in Users, NEW row \in Edits(u), Edit(u, row)
  PROVE  CookieInv'
<1>1. row \in Row \cup {Nothing}
  BY DEF Edits, CookieInv, TypeOK, Row
<1>2. TypeOK'
  BY <1>1 DEF Edit, CookieInv, TypeOK, Row
<1>3. \A v \in Users : Held(v)' = Held(v) /\ (v # u => InRow(v)' = InRow(v))
  BY DEF Edit, Held, InRow, CookieInv, TypeOK
<1>4. InRow(u)' \in {0, InRow(u)}
  BY AccessAssumption DEF Edit, Edits, InRow, CookieInv, TypeOK
<1>5. /\ revoked \subseteq revoked'
      /\ revoked' \subseteq revoked \cup ({InRow(u)} \ {0, InRow(u)'})
  BY DEF Edit, InRow, CookieInv, TypeOK
<1>6. InRow(u) \in {0, InRow(u)'} \cup revoked'
  BY DEF Edit, InRow, CookieInv, TypeOK
<1>7. UNCHANGED <<now, secrets, guestSecret, jar, overtaken>>
  BY DEF Edit
<1>8. \A v \in Users : InRow(v) \in Nat /\ Held(v) \in Nat /\ InRow(v)' \in Nat
  BY <1>2 DEF CookieInv, TypeOK, InRow, Held, Row, Login
<1>9. Drawn'
  <2>1. \A v \in Users : InRow(v)' <= secrets /\ Held(v)' <= secrets
    BY <1>3, <1>4, <1>8 DEF CookieInv, Drawn, TypeOK
  <2>2. \A s \in revoked' : s <= secrets
    BY <1>5, <1>8 DEF CookieInv, Drawn
  <2>3. QED
    BY <1>7, <2>1, <2>2 DEF CookieInv, Drawn
<1>10. OneOwner'
  <2>1. guestSecret # 0
    BY DEF CookieInv, TypeOK
  <2>2. QED
    BY <1>3, <1>4, <1>7, <2>1 DEF CookieInv, OneOwner
<1>11. InForce'
  BY <1>3, <1>4, <1>5, <1>7 DEF CookieInv, InForce, OneOwner
<1>12. Accounted'
  BY <1>3, <1>5, <1>6, <1>7 DEF CookieInv, Accounted, TypeOK, Token
<1>13. QED
  BY <1>2, <1>9, <1>10, <1>11, <1>12 DEF CookieInv

(* A new process has a new secret for its guests.                          *)
LEMMA RestartCookies ==
  ASSUME CookieInv, Restart
  PROVE  CookieInv'
<1>1. /\ secrets' = secrets + 1 /\ guestSecret' = secrets + 1
      /\ revoked' = revoked \cup {guestSecret}
      /\ UNCHANGED <<now, config, jar, overtaken>>
  BY DEF Restart
<1>2. TypeOK'
  BY <1>1 DEF Restart, CookieInv, TypeOK
<1>3. \A v \in Users : Held(v)' = 0 /\ InRow(v)' = InRow(v)
  BY DEF Restart, Held, InRow
<1>4. \A v \in Users : InRow(v) \in Nat
  BY DEF CookieInv, TypeOK, InRow, Row
<1>5. Drawn'
  BY <1>1, <1>3, <1>4 DEF CookieInv, Drawn, TypeOK
<1>6. OneOwner'
  BY <1>1, <1>3, <1>4 DEF CookieInv, OneOwner, Drawn, TypeOK
<1>7. InForce'
  BY <1>1, <1>3 DEF CookieInv, InForce, Drawn, OneOwner, TypeOK
<1>8. Accounted'
  BY <1>1, <1>3 DEF CookieInv, Accounted, TypeOK, Token
<1>9. QED
  BY <1>2, <1>5, <1>6, <1>7, <1>8 DEF CookieInv

(* A login takes a copy of the user's row.                                 *)
LEMMA PostCookies ==
  ASSUME CookieInv, NEW c \in Clients, NEW u \in Users, NEW p \in 1 .. 2, LoginPost(c, u, p)
  PROVE  CookieInv'
<1>1. UNCHANGED <<now, secrets, guestSecret, config, jar, revoked, overtaken>>
  BY DEF LoginPost, logs
<1>2. login' = Nothing \/ /\ config[u] \in Row
                          /\ login' = [client |-> c, user |-> u, password |-> p,
                                       config |-> config[u]]
  BY DEF LoginPost, CookieInv, TypeOK
<1>3. login' \in Login \cup {Nothing}
  BY <1>2 DEF Login
<1>4. \A v \in Users : InRow(v)' = InRow(v) /\ InRow(v) \in Nat
  BY <1>1 DEF InRow, CookieInv, TypeOK, Row
<1>5. \A v \in Users : Held(v)' = 0 \/ (v = u /\ Held(v)' = InRow(v))
  <2>1. CASE login' = Nothing
    BY <2>1 DEF Held
  <2>2. CASE login' # Nothing
    <3>1. config[u] \in Row /\ config[u] # Nothing
      BY <1>2, <2>2, AccessAssumption DEF Row
    <3>2. InRow(u) = config[u].secret
      BY <3>1 DEF InRow
    <3>3. login'.user = u /\ login'.config.secret = InRow(u)
      BY <1>2, <2>2, <3>2
    <3>4. QED
      BY <2>2, <3>3 DEF Held
  <2>3. QED
    BY <2>1, <2>2
<1>6. TypeOK'
  BY <1>1, <1>3 DEF CookieInv, TypeOK
<1>7. Drawn'
  BY <1>1, <1>4, <1>5 DEF CookieInv, Drawn, TypeOK
<1>8. OneOwner'
  <2>1. guestSecret # 0
    BY DEF CookieInv, TypeOK
  <2>2. QED
    BY <1>1, <1>4, <1>5, <2>1 DEF CookieInv, OneOwner
<1>9. InForce' /\ Accounted'
  BY <1>1, <1>4 DEF CookieInv, InForce, Accounted, TypeOK, Token
<1>10. QED
  BY <1>6, <1>7, <1>8, <1>9 DEF CookieInv

(* A login that succeeds writes the row back and hands out its secret.     *)
LEMMA SignedInCookies ==
  ASSUME CookieInv, SignedIn
  PROVE  CookieInv'
<1>1. login # Nothing /\ login \in Login
  BY DEF SignedIn, CookieInv, TypeOK
<1>2. PICK u \in Users, c \in Clients, row \in Row :
        u = login.user /\ c = login.client /\ row = login.config
  BY <1>1 DEF Login
<1>3. PICK secret \in Nat \ {0} :
        /\ secret = SessionSecret(row)
        /\ \/ secret = Held(u) /\ Held(u) # 0
           \/ secret = secrets + 1 /\ Held(u) = 0
  BY <1>1, <1>2 DEF SessionSecret, Held, CookieInv, TypeOK, Row
<1>4. /\ config' = IF config[u] = Nothing THEN config
                   ELSE [config EXCEPT ![u] = [row EXCEPT !.secret = secret]]
      /\ jar' = [jar EXCEPT ![c] = [user |-> u, issued |-> now, secret |-> secret]]
      /\ overtaken' = overtaken \cup (IF config[u] = row THEN {} ELSE {u})
      /\ secrets' = IF secret > secrets THEN secret ELSE secrets
  BY <1>2, <1>3 DEF SignedIn
<1>5. login' = Nothing /\ UNCHANGED <<now, guestSecret, revoked>>
  BY DEF SignedIn
<1>6. Held(u) = row.secret
  BY <1>1, <1>2 DEF Held
<1>8. [row EXCEPT !.secret = secret] \in Row
  BY <1>2, <1>3 DEF Row
<1>9. TypeOK'
  <2>1. secrets' \in Nat
    BY <1>3, <1>4 DEF CookieInv, TypeOK
  <2>2. config' \in [Users -> Row \cup {Nothing}]
    BY <1>4, <1>8 DEF CookieInv, TypeOK
  <2>3. jar' \in [Clients -> Token \cup {Nothing}]
    BY <1>1, <1>3, <1>4 DEF CookieInv, TypeOK, Token
  <2>4. QED
    BY <1>1, <1>4, <1>5, <2>1, <2>2, <2>3 DEF CookieInv, TypeOK
<1>10. \A v \in Users : InRow(v) \in Nat /\ Held(v) \in Nat
  BY DEF CookieInv, TypeOK, InRow, Held, Row, Login
<1>11. \A v \in Users : v # u => InRow(v)' = InRow(v)
  BY <1>4 DEF InRow, CookieInv, TypeOK
<1>12. InRow(u)' = IF config[u] = Nothing THEN 0 ELSE secret
  <2>1. CASE config[u] = Nothing
    BY <1>4, <2>1 DEF InRow
  <2>2. CASE config[u] # Nothing
    <3>1. config'[u] = [row EXCEPT !.secret = secret]
      BY <1>1, <1>4, <2>2 DEF CookieInv, TypeOK
    <3>2. config'[u] # Nothing
      BY <1>8, <3>1, AccessAssumption DEF Row
    <3>3. config'[u].secret = secret
      BY <1>1, <3>1 DEF Row
    <3>4. QED
      BY <2>2, <3>2, <3>3 DEF InRow
  <2>3. QED
    BY <2>1, <2>2
<1>13. \A v \in Users : Held(v)' = 0
  BY <1>5 DEF Held
<1>14. /\ secret <= secrets' /\ secrets <= secrets'
       /\ secrets \in Nat /\ secrets' \in Nat
  BY <1>3, <1>4 DEF CookieInv, TypeOK
<1>15. /\ secret # guestSecret
       /\ \A v \in Users \ {u} : secret # InRow(v)
  BY <1>1, <1>3, <1>10 DEF CookieInv, OneOwner, Drawn, TypeOK
<1>16. Drawn'
  <2>1. \A v \in Users : InRow(v)' <= secrets'
    BY <1>1, <1>3, <1>10, <1>11, <1>12, <1>14 DEF CookieInv, Drawn
  <2>2. \A s \in revoked : s <= secrets'
    BY <1>14 DEF CookieInv, Drawn, TypeOK
  <2>3. \A d \in Clients : jar'[d] # Nothing => jar'[d].issued <= now
    BY <1>1, <1>4 DEF CookieInv, Drawn, TypeOK
  <2>4. guestSecret <= secrets'
    BY <1>14 DEF CookieInv, Drawn, TypeOK
  <2>5. QED
    BY <1>5, <1>13, <1>14, <2>1, <2>2, <2>3, <2>4 DEF Drawn
<1>17. OneOwner'
  <2>1. guestSecret # 0
    BY DEF CookieInv, TypeOK
  <2>2. QED
    BY <1>1, <1>5, <1>11, <1>12, <1>13, <1>15, <2>1 DEF CookieInv, OneOwner
<1>18. u \in overtaken' \/ /\ config[u] = row /\ config[u] # Nothing
                           /\ Held(u) = InRow(u)
  BY <1>4, <1>6, AccessAssumption DEF InRow, Row
<1>19. secret \notin revoked \/ u \in overtaken'
  BY <1>1, <1>3, <1>4, <1>18 DEF CookieInv, InForce, Drawn, TypeOK
<1>20. InForce'
  BY <1>1, <1>4, <1>5, <1>11, <1>12, <1>19 DEF CookieInv, InForce
<1>21. Accounted'
  <2> SUFFICES ASSUME NEW d \in Clients, NEW tok \in Token,
                      tok = jar'[d], tok # Nothing, tok.user \notin overtaken'
               PROVE  \/ tok.secret \in revoked
                      \/ tok.user = Guest /\ tok.secret = guestSecret
                      \/ tok.user # Guest /\ tok.secret = InRow(tok.user)'
    BY <1>5, <1>9 DEF Accounted, TypeOK
  <2>1. CASE d = c
    <3>1. tok.user = u /\ tok.secret = secret
      BY <1>4, <2>1 DEF CookieInv, TypeOK
    <3>2. QED
      BY <1>12, <1>18, <3>1, AccessAssumption
  <2>2. CASE d # c
    <3>1. tok = jar[d] /\ jar[d] # Nothing
      BY <1>4, <2>2 DEF CookieInv, TypeOK
    <3>2. tok.user \notin overtaken
      BY <1>4
    <3>3. \/ tok.secret \in revoked
          \/ tok.user = Guest /\ tok.secret = guestSecret
          \/ tok.user # Guest /\ tok.secret = InRow(tok.user)
      BY <3>1, <3>2 DEF CookieInv, Accounted
    <3>4. CASE tok.user = u /\ tok.secret = InRow(u)
      BY <1>3, <1>12, <1>18, <3>4, AccessAssumption DEF Token
    <3>5. CASE tok.user # u \/ tok.secret # InRow(u)
      BY <1>11, <3>3, <3>5, AccessAssumption DEF Token
    <3>6. QED
      BY <3>4, <3>5
  <2>3. QED
    BY <2>1, <2>2
<1>22. QED
  BY <1>9, <1>16, <1>17, <1>20, <1>21 DEF CookieInv

(* Whatever leaves the rows, the secrets and the login alone keeps it.     *)
LEMMA IdleCookies ==
  ASSUME CookieInv,
         UNCHANGED <<config, secrets, guestSecret, login, revoked, overtaken>>,
         now' \in Nat, now <= now',
         jar' \in [Clients -> Token \cup {Nothing}],
         \A c \in Clients :
            \/ jar'[c] \in {jar[c], Nothing}
            \/ jar'[c] = [user |-> Guest, issued |-> now, secret |-> guestSecret]
  PROVE  CookieInv'
<1>1. \A v \in Users : InRow(v)' = InRow(v) /\ Held(v)' = Held(v)
  BY DEF InRow, Held
<1>2. TypeOK'
  BY DEF CookieInv, TypeOK
<1>3. Drawn'
  BY <1>1 DEF CookieInv, Drawn, TypeOK, Token
<1>4. OneOwner' /\ InForce'
  BY <1>1 DEF CookieInv, OneOwner, InForce
<1>5. Accounted'
  BY <1>1 DEF CookieInv, Accounted, TypeOK, Token
<1>6. QED
  BY <1>2, <1>3, <1>4, <1>5 DEF CookieInv

LEMMA NextCookies == CookieInv /\ [Next]_vars => CookieInv'
<1> SUFFICES ASSUME CookieInv, [Next]_vars PROVE CookieInv'
  OBVIOUS
<1>1. now \in Nat /\ jar \in [Clients -> Token \cup {Nothing}]
  BY DEF CookieInv, TypeOK
<1>2. CASE Tick
  BY <1>1, <1>2, IdleCookies DEF Tick, logs
<1>3. CASE \E u \in Users : \E row \in Edits(u) : Edit(u, row)
  BY <1>3, EditCookies
<1>4. CASE Restart
  BY <1>4, RestartCookies
<1>5. ASSUME NEW c \in Clients, NEW u \in Users, NEW p \in 1 .. 2, LoginPost(c, u, p)
      PROVE  CookieInv'
  BY <1>5, PostCookies
<1>6. ASSUME NEW c \in Clients, LoginGuest(c)
      PROVE  CookieInv'
  <2>1. [user |-> Guest, issued |-> now, secret |-> guestSecret] \in Token
    BY <1>1 DEF CookieInv, TypeOK, Token
  <2>2. QED
    BY <1>1, <1>6, <2>1, IdleCookies DEF LoginGuest, logs
<1>7. ASSUME NEW c \in Clients, Logout(c)
      PROVE  CookieInv'
  BY <1>1, <1>7, IdleCookies DEF Logout, logs
<1>8. ASSUME NEW c \in Clients, NEW r \in Requests, Request(c, r)
      PROVE  CookieInv'
  BY <1>1, <1>8, IdleCookies DEF Request, logs
<1>9. CASE WrongPassword
  <2>1. login' = Nothing
        /\ UNCHANGED <<now, config, secrets, guestSecret, jar, revoked, overtaken>>
    BY <1>9 DEF WrongPassword
  <2>2. \A v \in Users : InRow(v)' = InRow(v) /\ Held(v)' = 0
    BY <2>1 DEF InRow, Held
  <2>3. TypeOK'
    BY <2>1 DEF CookieInv, TypeOK
  <2>4. Drawn'
    BY <2>1, <2>2 DEF CookieInv, Drawn, TypeOK
  <2>5. OneOwner' /\ InForce' /\ Accounted'
    BY <2>1, <2>2 DEF CookieInv, OneOwner, InForce, Accounted, TypeOK, Token
  <2>6. QED
    BY <2>3, <2>4, <2>5 DEF CookieInv
<1>10. CASE SignedIn
  BY <1>10, SignedInCookies
<1>11. CASE UNCHANGED vars
  BY <1>1, <1>11, IdleCookies DEF vars, web, logs
<1>12. QED
  BY <1>2, <1>3, <1>4, <1>5, <1>6, <1>7, <1>8, <1>9, <1>10, <1>11 DEF Next

LEMMA CookiesGood == CookieInv => GoodUntilRevoked
<1> SUFFICES ASSUME CookieInv, NEW c \in Clients,
                    jar[c] # Nothing, jar[c].user \notin overtaken
             PROVE  Resolve(jar[c]) # Nothing <=>
                    (now - jar[c].issued <= MaxAge /\ jar[c].secret \notin revoked)
  BY DEF GoodUntilRevoked
<1> DEFINE force == IF jar[c].user = Guest THEN guestSecret ELSE InRow(jar[c].user)
<1>1. jar[c] \in Token
  BY DEF CookieInv, TypeOK
<1>2. jar[c].issued \in Nat /\ jar[c].secret # 0 /\ jar[c].user # Nothing
      /\ (jar[c].user # Guest => jar[c].user \in Users)
  BY <1>1, AccessAssumption DEF Token
<1>3. jar[c].issued <= now + Slack
  BY <1>2, AccessAssumption DEF CookieInv, Drawn, TypeOK
<1>4. Resolve(jar[c]) # Nothing
        <=> (force # 0 /\ now - jar[c].issued <= MaxAge /\ jar[c].secret = force)
  BY <1>2, <1>3 DEF Resolve, VerifyToken, InRow
<1>5. jar[c].secret \in revoked \/ jar[c].secret = force
  BY DEF CookieInv, Accounted
<1>6. force # 0 => force \notin revoked
  BY <1>2 DEF CookieInv, InForce
<1>7. QED
  BY <1>2, <1>4, <1>5, <1>6

(* A cookie is good for exactly as long as it is young and nobody took its *)
(* secret away: of any number of browsers and users, after any number of   *)
(* logins, edits by other programs and restarts.                           *)
(* (session.py, resolve_session_user_id; login.py, login_post)             *)
THEOREM CookiesGoodUntilRevoked == Spec => []GoodUntilRevoked
<1>1. Spec => []CookieInv
  BY InitCookies, NextCookies, PTL DEF Spec
<1>2. QED
  BY <1>1, CookiesGood, PTL

-----------------------------------------------------------------------------
(* The argument for answers: what the cache holds is a whole payload,      *)
(* whoever asked first.                                                    *)
Whole == cached \in {{}, {"totals", "cost_by_project"}}

LEMMA WholeAlways == Spec => []Whole
<1>1. Init => Whole
  BY DEF Init, Whole
<1>2. Whole /\ [Next]_vars => Whole'
  <2> SUFFICES ASSUME Whole, [Next]_vars PROVE Whole'
    OBVIOUS
  <2>1. ASSUME NEW c \in Clients, NEW r \in Requests, Request(c, r)
        PROVE  Whole'
    BY <2>1 DEF Request, Route, DashboardRoute, About, Whole
  <2>2. CASE UNCHANGED cached \/ cached' = {}
    BY <2>2 DEF Whole
  <2>3. QED
    BY <2>1, <2>2 DEF Next, vars, web, Tick, Edit, Restart, LoginPost, LoginGuest,
       Logout, WrongPassword, SignedIn
<1>3. QED
  BY <1>1, <1>2, PTL DEF Spec

(* A filtered request is a read of the API.                                *)
LEMMA RequestKinds ==
  ASSUME NEW r \in Requests
  PROVE  /\ r.path \in Api \cup Public \cup Pages \cup Admin
         /\ r.filtered \in BOOLEAN
         /\ r.filtered => r.path \in Api
BY DEF Requests, Api, Public, Pages, Admin

LEMMA WholeAnswers == CookieInv /\ Whole => AnsweredByRole
<1> SUFFICES ASSUME CookieInv, Whole, NEW c \in Clients, NEW r \in Requests,
                    NEW user, user = Resolve(jar[c]), r.path \notin Admin
             PROVE  Answer(r, user) =
                        IF user = Nothing THEN {}
                        ELSE IF user \in Users THEN About(r)
                        ELSE IF GuestDenied(r) THEN {}
                        ELSE About(r) \ {"cost_by_project"}
  BY DEF AnsweredByRole
<1>1. user \in Users \cup {Guest, Nothing}
  BY DEF CookieInv, TypeOK, Token, Resolve
<1>2. Guest # Nothing /\ Nothing \notin Users /\ Guest \notin Users
  BY AccessAssumption
<1>3. CASE r.path \in Public \cup Pages
  <2>1. About(r) = {} /\ r.path # "dashboard"
    BY <1>3, RequestKinds DEF About, Public, Pages, Api
  <2>2. Answer(r, user) = {}
    BY <2>1 DEF Answer
  <2>3. QED
    BY <2>1, <2>2
<1>4. CASE r.path \in Api
  <2>1. r.path \notin Public \cup Admin /\ CheckOrigin(r)
    BY <1>4 DEF CheckOrigin, Public, Admin, Api
  <2>2. Middleware(r, user) = IF user = Nothing THEN 401
                              ELSE IF user = Guest /\ GuestDenied(r) THEN 403 ELSE 0
    BY <1>4, <2>1 DEF Middleware
  <2>3. CASE user = Nothing
    BY <2>2, <2>3 DEF Answer
  <2>4. CASE user = Guest /\ GuestDenied(r)
    BY <1>2, <2>2, <2>4 DEF Answer
  <2>5. CASE user \in Users \/ (user = Guest /\ ~GuestDenied(r))
    <3>1. Middleware(r, user) = 0
      BY <1>2, <2>2, <2>5
    <3>2. CASE r.path = "dashboard"
      <4>1. cached = {} \/ cached = {"totals", "cost_by_project"}
        BY DEF Whole
      <4>2. ~r.filtered => About(r) = {"totals", "cost_by_project"}
        BY <3>2 DEF About
      <4>3. (IF r.filtered \/ cached = {} THEN About(r) ELSE cached) = About(r)
        BY <4>1, <4>2, RequestKinds
      <4>4. QED
        BY <1>2, <2>5, <3>1, <3>2, <4>3 DEF Answer, Route, DashboardRoute
    <3>3. CASE r.path # "dashboard"
      <4>1. Answer(r, user) = About(r)
        BY <3>1, <3>3 DEF Answer
      <4>2. "cost_by_project" \notin About(r)
        BY <3>3, <1>4 DEF About, Api
      <4>3. About(r) \ {"cost_by_project"} = About(r)
        BY <4>2
      <4>4. QED
        BY <1>2, <2>5, <4>1, <4>3
    <3>4. QED
      BY <3>2, <3>3
  <2>6. QED
    BY <1>1, <2>3, <2>4, <2>5
<1>5. QED
  BY <1>3, <1>4, RequestKinds

(* The shared cache entry stays whole and each role reads its own part of  *)
(* it: a user all, a guest all but the cost by project, nobody else        *)
(* anything, for any number of browsers and whoever filled it.             *)
(* (session.py, auth_middleware; api_dashboard.py, dashboard_route)        *)
THEOREM RolesAnswered == Spec => []AnsweredByRole
<1>1. Spec => []CookieInv
  BY InitCookies, NextCookies, PTL DEF Spec
<1>2. QED
  BY <1>1, WholeAlways, WholeAnswers, PTL
-----------------------------------------------------------------------------
(* The failures of an address within the window that ends at t.            *)
Within(S, c, t) == {f \in S : f.client = c /\ f.at \in (t - Window + 1) .. t}

Failures == [client : Clients, at : Nat, nth : Nat]

LimitInv ==
    /\ now \in Nat
    /\ login # Nothing => login.client \in Clients
    /\ failed \subseteq Failures /\ IsFiniteSet(failed)
    /\ \A f \in failed : f.at <= now /\ f.nth < Cardinality(failed)
    /\ attempts \in [Clients -> SUBSET failed]
    /\ \A c \in Clients : Recent(attempts[c]) = Within(failed, c, now)
    /\ login # Nothing => Cardinality(Within(failed, login.client, now)) < MaxFailures
    /\ \A c \in Clients : \A t \in Int :
          t <= now => Cardinality(Within(failed, c, t)) <= MaxFailures

(* They are finitely many, and a part of them is no more.                  *)
LEMMA WithinFinite ==
  ASSUME IsFiniteSet(failed), NEW c, NEW t
  PROVE  /\ IsFiniteSet(Within(failed, c, t)) /\ Cardinality(Within(failed, c, t)) \in Nat
         /\ \A S \in SUBSET Within(failed, c, t) :
               IsFiniteSet(S) /\ Cardinality(S) \in Nat
               /\ Cardinality(S) <= Cardinality(Within(failed, c, t))
<1>1. Within(failed, c, t) \subseteq failed
  BY DEF Within
<1>2. IsFiniteSet(Within(failed, c, t))
  BY <1>1, FS_Subset
<1>3. QED
  BY <1>2, FS_Subset, FS_CardinalityType

LEMMA InitLimit == Init => LimitInv
<1> SUFFICES ASSUME Init PROVE LimitInv
  OBVIOUS
<1>1. IsFiniteSet({}) /\ Cardinality({}) = 0
  BY FS_EmptySet
<1>2. \A c, t : Within(failed, c, t) = {}
  BY DEF Init, Within
<1>3. \A c \in Clients : attempts[c] = {} /\ Recent(attempts[c]) = {}
  BY DEF Init, Recent
<1>4. MaxFailures \in Nat
  BY AccessAssumption
<1>5. /\ now = 0 /\ login = Nothing /\ failed = {}
      /\ attempts \in [Clients -> SUBSET {}]
  BY DEF Init
<1>6. \A c \in Clients : \A t \in Int : Cardinality(Within(failed, c, t)) <= MaxFailures
  BY <1>1, <1>2, <1>4
<1>7. QED
  BY <1>1, <1>2, <1>3, <1>5, <1>6 DEF LimitInv

(* Time passes: the window that ends now only loses failures.              *)
LEMMA TickLimit ==
  ASSUME LimitInv, Tick
  PROVE  LimitInv'
<1>1. /\ now \in Nat /\ now' = now + 1 /\ Window \in Nat /\ MaxFailures \in Nat
      /\ UNCHANGED <<failed, attempts, login>>
  BY AccessAssumption DEF Tick, LimitInv, logs
<1>2. \A f \in failed : f.at \in Nat /\ f.at <= now
  BY DEF LimitInv, Failures
<1>3. \A c, t : Within(failed', c, t) = Within(failed, c, t)
  BY <1>1 DEF Within
<1>4. \A c : Within(failed, c, now + 1) \subseteq Within(failed, c, now)
  BY <1>1, <1>2 DEF Within
<1>5. \A c : /\ Cardinality(Within(failed, c, now + 1)) \in Nat
             /\ Cardinality(Within(failed, c, now)) \in Nat
             /\ Cardinality(Within(failed, c, now + 1)) <= Cardinality(Within(failed, c, now))
  BY <1>4, WithinFinite DEF LimitInv
<1>6. \A c \in Clients : Recent(attempts[c])' = Within(failed', c, now')
  <2> SUFFICES ASSUME NEW c \in Clients PROVE Recent(attempts[c])' = Within(failed, c, now + 1)
    BY <1>1, <1>3
  <2>1. Recent(attempts[c]) = Within(failed, c, now) /\ attempts[c] \subseteq failed
    BY DEF LimitInv
  <2>2. Recent(attempts[c])' = {f \in attempts[c] : (now + 1) - f.at < Window}
    BY <1>1 DEF Recent
  <2>3. QED
    BY <1>1, <1>2, <2>1, <2>2 DEF Recent, Within
<1>7. ASSUME login' # Nothing
      PROVE  Cardinality(Within(failed', login'.client, now')) < MaxFailures
  BY <1>1, <1>3, <1>5, <1>7 DEF LimitInv
<1>8. ASSUME NEW c \in Clients, NEW t \in Int, t <= now'
      PROVE  Cardinality(Within(failed', c, t)) <= MaxFailures
  <2>1. CASE t <= now
    BY <1>3, <2>1 DEF LimitInv
  <2>2. CASE t = now + 1
    <3>1. Cardinality(Within(failed, c, now)) <= MaxFailures
      BY <1>1 DEF LimitInv
    <3>2. QED
      BY <1>1, <1>3, <1>5, <2>2, <3>1
  <2>3. QED
    BY <1>1, <1>8, <2>1, <2>2
<1>9. \A f \in failed : f.at <= now + 1
  BY <1>1, <1>2
<1>10. QED
  BY <1>1, <1>6, <1>7, <1>8, <1>9 DEF LimitInv

(* A restart forgets failures and login alike.                             *)
LEMMA RestartLimit ==
  ASSUME LimitInv, Restart
  PROVE  LimitInv'
<1>1. /\ failed' = {} /\ login' = Nothing /\ now' = now
      /\ attempts' = [c \in Clients |-> {}]
  BY DEF Restart
<1>2. IsFiniteSet({}) /\ Cardinality({}) = 0
  BY FS_EmptySet
<1>3. \A c, t : Within(failed', c, t) = {}
  BY <1>1 DEF Within
<1>4. \A c \in Clients : Recent(attempts[c])' = {}
  BY <1>1 DEF Recent
<1>5. MaxFailures \in Nat
  BY AccessAssumption
<1>6. QED
  BY <1>1, <1>2, <1>3, <1>4, <1>5 DEF LimitInv

(* A login is let in only below the limit.                                 *)
LEMMA PostLimit ==
  ASSUME LimitInv, NEW c \in Clients, NEW u \in Users, NEW p \in 1 .. 2, LoginPost(c, u, p)
  PROVE  LimitInv'
<1>1. /\ UNCHANGED <<now, failed>> /\ Window \in Nat /\ MaxFailures \in Nat
      /\ attempts' = [attempts EXCEPT ![c] = Recent(@)]
  BY AccessAssumption DEF LoginPost, logs
<1>2. \/ login' = Nothing
      \/ /\ ~RateLimited(c)
         /\ login' = [client |-> c, user |-> u, password |-> p, config |-> config[u]]
  BY DEF LoginPost
<1>3. \A d, t : Within(failed', d, t) = Within(failed, d, t)
  BY <1>1 DEF Within
<1>4. attempts' \in [Clients -> SUBSET failed]
  BY <1>1 DEF LimitInv, Recent
<1>5. \A d \in Clients : Recent(attempts[d])' = Recent(attempts[d])
  BY <1>1 DEF LimitInv, Recent
<1>6. ASSUME login' # Nothing
      PROVE  /\ login'.client \in Clients
             /\ Cardinality(Within(failed, login'.client, now)) < MaxFailures
  <2>1. login'.client = c /\ ~RateLimited(c)
    BY <1>2, <1>6
  <2>2. Recent(attempts[c]) = Within(failed, c, now) /\ Cardinality(Within(failed, c, now)) \in Nat
    BY WithinFinite DEF LimitInv
  <2>3. QED
    BY <1>1, <2>1, <2>2 DEF RateLimited
<1>7. QED
  BY <1>1, <1>3, <1>4, <1>5, <1>6 DEF LimitInv

(* A new failure is in the windows that end now, of which the list knew.   *)
LEMMA WrongLimit ==
  ASSUME LimitInv, WrongPassword
  PROVE  LimitInv'
<1> DEFINE n == Cardinality(failed)
<1>1. PICK c \in Clients, e \in Failures :
        c = login.client /\ e = Failure(c) /\ e.client = c /\ e.at = now /\ e.nth = n
  <2>1. login.client \in Clients
    BY DEF WrongPassword, LimitInv
  <2>2. n \in Nat /\ now \in Nat
    BY FS_CardinalityType DEF LimitInv
  <2>3. Failure(login.client) \in Failures
    BY <2>1, <2>2 DEF Failure, Failures
  <2>4. QED
    BY <2>1, <2>3 DEF Failure
<1>2. /\ failed' = failed \cup {e} /\ login' = Nothing /\ now' = now
      /\ attempts' = [attempts EXCEPT ![c] = Recent(@) \cup {e}]
      /\ Window \in Nat /\ MaxFailures \in Nat /\ now \in Nat
  BY <1>1, AccessAssumption DEF WrongPassword, RecordFailure, LimitInv
<1>3. \A f \in failed : f.at \in Nat /\ f.at <= now /\ f.nth \in Nat /\ f.nth < n
  BY DEF LimitInv, Failures
<1>4. e \notin failed /\ n \in Nat
  BY <1>1, <1>3, FS_CardinalityType DEF LimitInv
<1>5. IsFiniteSet(failed') /\ Cardinality(failed') = n + 1
  BY <1>2, <1>4, FS_AddElement DEF LimitInv
<1>6. failed' \subseteq Failures
      /\ \A f \in failed' : f.at <= now /\ f.nth < n + 1
  BY <1>1, <1>2, <1>3, <1>4 DEF LimitInv
<1>7. attempts' \in [Clients -> SUBSET failed']
  BY <1>2 DEF LimitInv, Recent
<1>8. ASSUME NEW d \in Clients, NEW t \in Int
      PROVE  Within(failed', d, t)
               = Within(failed, d, t)
                 \cup (IF c = d /\ t - Window < now /\ now <= t THEN {e} ELSE {})
  BY <1>1, <1>2 DEF Within
<1>9. ASSUME NEW d \in Clients
      PROVE  Recent(attempts[d])' = Within(failed', d, now)
  <2>1. Recent(attempts[d]) = Within(failed, d, now) /\ attempts[d] \subseteq failed
    BY DEF LimitInv
  <2>2. Recent(attempts[d])' = {f \in attempts'[d] : now - f.at < Window}
    BY <1>2 DEF Recent
  <2>3. CASE d # c
    <3>1. attempts'[d] = attempts[d]
      BY <1>2, <2>3 DEF LimitInv
    <3>2. Within(failed', d, now) = Within(failed, d, now)
      BY <1>2, <1>8, <2>3
    <3>3. QED
      BY <2>1, <2>2, <3>1, <3>2 DEF Recent
  <2>4. CASE d = c
    <3>1. attempts'[c] = Within(failed, c, now) \cup {e}
      BY <1>2, <2>1, <2>4 DEF LimitInv
    <3>2. \A f \in Within(failed, c, now) : now - f.at < Window
      BY <2>1, <2>4 DEF Recent
    <3>3. Within(failed', c, now) = Within(failed, c, now)
                                     \cup (IF 0 < Window THEN {e} ELSE {})
      <4>1. now \in Int /\ now <= now /\ (now - Window < now <=> 0 < Window)
        BY <1>2
      <4>2. QED
        BY <1>8, <4>1
    <3>4. (now - e.at < Window) <=> 0 < Window
      BY <1>1, <1>2
    <3>5. Recent(attempts[d])' = {f \in Within(failed, c, now) \cup {e} : now - f.at < Window}
      BY <2>2, <2>4, <3>1
    <3>6. QED
      BY <2>4, <3>2, <3>3, <3>4, <3>5
  <2>5. QED
    BY <2>3, <2>4
<1>10. ASSUME NEW d \in Clients, NEW t \in Int, t <= now
       PROVE  Cardinality(Within(failed', d, t)) <= MaxFailures
  <2>1. IsFiniteSet(Within(failed, d, t)) /\ Cardinality(Within(failed, d, t)) \in Nat
        /\ Cardinality(Within(failed, d, t)) <= MaxFailures
    BY <1>10, WithinFinite DEF LimitInv
  <2>2. CASE Within(failed', d, t) = Within(failed, d, t)
    BY <2>1, <2>2
  <2>3. CASE Within(failed', d, t) # Within(failed, d, t)
    <3>1. d = c /\ t = now
      <4>1. c = d /\ t - Window < now /\ now <= t
        BY <1>8, <2>3
      <4>2. QED
        BY <1>2, <1>10, <4>1
    <3>2. Within(failed', d, t) = Within(failed, d, t) \cup {e} /\ e \notin Within(failed, d, t)
      BY <1>4, <1>8, <2>3 DEF Within
    <3>3. Cardinality(Within(failed, d, t)) < MaxFailures
      BY <1>1, <3>1 DEF LimitInv, WrongPassword
    <3>4. Cardinality(Within(failed', d, t)) = Cardinality(Within(failed, d, t)) + 1
      BY <2>1, <3>2, FS_AddElement
    <3>5. QED
      BY <1>2, <2>1, <3>3, <3>4
  <2>4. QED
    BY <2>2, <2>3
<1>11. QED
  BY <1>2, <1>5, <1>6, <1>7, <1>9, <1>10 DEF LimitInv

LEMMA NextLimit == LimitInv /\ [Next]_vars => LimitInv'
<1> SUFFICES ASSUME LimitInv, [Next]_vars PROVE LimitInv'
  OBVIOUS
<1>1. CASE Tick
  BY <1>1, TickLimit
<1>2. CASE Restart
  BY <1>2, RestartLimit
<1>3. ASSUME NEW c \in Clients, NEW u \in Users, NEW p \in 1 .. 2, LoginPost(c, u, p)
      PROVE  LimitInv'
  BY <1>3, PostLimit
<1>4. CASE WrongPassword
  BY <1>4, WrongLimit
<1>5. CASE UNCHANGED <<now, failed, attempts>> /\ login' \in {login, Nothing}
  <2>1. \A c, t : Within(failed', c, t) = Within(failed, c, t)
    BY <1>5 DEF Within
  <2>2. \A c : Recent(attempts[c])' = Recent(attempts[c])
    BY <1>5 DEF Recent
  <2>3. QED
    BY <1>5, <2>1, <2>2 DEF LimitInv
<1>6. QED
  BY <1>1, <1>2, <1>3, <1>4, <1>5
     DEF Next, vars, web, logs, Edit, LoginGuest, Logout, Request, SignedIn

(* No address ever fails more than the limit within a window, and it is    *)
(* refused exactly while that many of its failures are recent: for any     *)
(* number of addresses, any limit and any window, through any interleaving *)
(* of logins with the clock, other programs and restarts.                  *)
(* (login.py, _check_login_rate_limit and _record_login_failure)           *)
THEOREM FailuresLimited == Spec => []LimitPerWindow
<1>1. Spec => []LimitInv
  BY InitLimit, NextLimit, PTL DEF Spec
<1>2. LimitInv => LimitPerWindow
  <2> SUFFICES ASSUME LimitInv, NEW c \in Clients
               PROVE  /\ \A t \in 0 .. now : FailedIn(c, t - Window + 1, t) <= MaxFailures
                      /\ RateLimited(c) <=> FailedIn(c, now - Window + 1, now) >= MaxFailures
    BY DEF LimitPerWindow
  <2>1. \A t : FailedIn(c, t - Window + 1, t) = Cardinality(Within(failed, c, t))
    BY DEF FailedIn, Within
  <2>2. \A t \in 0 .. now : t \in Int /\ t <= now
    BY DEF LimitInv
  <2>3. \A t \in 0 .. now : Cardinality(Within(failed, c, t)) <= MaxFailures
    BY <2>2 DEF LimitInv
  <2>4. Recent(attempts[c]) = Within(failed, c, now)
    BY DEF LimitInv
  <2>5. RateLimited(c) <=> Cardinality(Within(failed, c, now)) >= MaxFailures
    BY <2>4 DEF RateLimited
  <2>6. QED
    BY <2>1, <2>3, <2>5
<1>3. QED
  BY <1>1, <1>2, PTL
=============================================================================
