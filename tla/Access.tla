------------------------------- MODULE Access -------------------------------
(***************************************************************************)
(* Sign-in, session cookies and what each role is answered:                *)
(* backend/login.py, session.py, auth.py, and dashboard_route of           *)
(* api_dashboard.py.  The login handler is a coroutine that never awaits:  *)
(* it holds the event loop, and with it every other request, from its      *)
(* first statement to its last.  Only the clock and the other programs     *)
(* that write the users table move meanwhile.                              *)
(***************************************************************************)
EXTENDS Integers, FiniteSets

CONSTANTS
    Clients,        \* browsers, each behind its own address
    Users,          \* user ids; the guest's is Guest
    Guest, Nothing,
    MaxFailures,    \* _LOGIN_MAX_FAILURES
    Window,         \* _LOGIN_WINDOW_SECONDS
    MaxAge,         \* SESSION_COOKIE_MAX_AGE
    Slack,          \* how far ahead an issue time may be
    MaxTime, MaxSecrets, MaxAttempts   \* bounds

ASSUME AccessAssumption ==
    /\ {MaxFailures, Window, MaxAge, Slack, MaxTime, MaxSecrets, MaxAttempts} \subseteq Nat
    /\ Guest \notin Users /\ Nothing \notin Users /\ Guest # Nothing
    /\ Nothing \notin [secret : Nat, password : Nat]

VARIABLES
    now,
    config,       \* users.config: [secret, password], Nothing without a row
    secrets,      \* token_urlsafe: how many were drawn, each one new
    guestSecret,  \* _GUEST_SECRET
    attempts,     \* _LOGIN_FAILURES: the failures still listed for an address
    login,        \* the login under way: [client, user, password, config]
    jar,          \* each browser's cookie: [user, issued, secret]
    cached,       \* the unfiltered dashboard in the response cache, or {}
    failed,       \* log: [client, at, nth] of the wrong passwords of this process
    revoked,      \* log: secrets another program or a restart took away
    overtaken     \* log: users whose config changed under a login

web == <<now, config, secrets, guestSecret, attempts, login, jar, cached>>
logs == <<failed, revoked, overtaken>>
vars == <<web, logs>>

(* 0 stands for a config key that is absent.                               *)
Init ==
    /\ now = 0
    /\ config \in [Users -> {[secret |-> 0, password |-> p] : p \in 0 .. 1}]
    /\ secrets = 1 /\ guestSecret = 1
    /\ attempts = [c \in Clients |-> {}]
    /\ login = Nothing
    /\ jar = [c \in Clients |-> Nothing]
    /\ cached = {}
    /\ failed = {} /\ revoked = {} /\ overtaken = {}

-----------------------------------------------------------------------------
(* Other programs, the clock, the process.                                 *)

Tick ==
    /\ now < MaxTime
    /\ now' = now + 1
    /\ UNCHANGED <<config, secrets, guestSecret, attempts, login, jar, cached, logs>>

(* Another program edits a user's row, adds it or removes it.              *)
Edit(u, row) ==
    /\ config' = [config EXCEPT ![u] = row]
    /\ revoked' = IF config[u] = Nothing THEN revoked
                  ELSE revoked \cup ({config[u].secret} \ {0, IF row = Nothing THEN 0
                                                              ELSE row.secret})
    /\ UNCHANGED <<now, secrets, guestSecret, attempts, login, jar, cached,
                   failed, overtaken>>

Edits(u) ==
    {Nothing} \cup
    {[secret |-> s, password |-> 1] :
        s \in {0} \cup (IF config[u] = Nothing THEN {} ELSE {config[u].secret})}

(* A restart forgets the failures, the cache and every guest.              *)
Restart ==
    /\ secrets < MaxSecrets
    /\ secrets' = secrets + 1 /\ guestSecret' = secrets + 1
    /\ attempts' = [c \in Clients |-> {}]
    /\ login' = Nothing
    /\ cached' = {}
    /\ failed' = {} /\ revoked' = revoked \cup {guestSecret}
    /\ UNCHANGED <<now, config, jar, overtaken>>

-----------------------------------------------------------------------------
(* backend/login.py                                                        *)

(* A list of times is only filtered, extended and measured: nth keeps      *)
(* failures of one instant apart.                                          *)
Recent(failures) == {f \in failures : now - f.at < Window}
RateLimited(c) == Cardinality(Recent(attempts[c])) >= MaxFailures

Failure(c) == [client |-> c, at |-> now, nth |-> Cardinality(failed)]

(* Seeded fault: a failure starts the list afresh.                         *)
ForgetFailures(c) == [attempts EXCEPT ![c] = {Failure(c)}]
RecordFailure(c) == [attempts EXCEPT ![c] = Recent(@) \cup {Failure(c)}]

(* login_post up to the password: an attempt over the limit, of no user or *)
(* of one without a password ends here.                                    *)
LoginPost(c, u, password) ==
    /\ login = Nothing /\ (Cardinality(failed) < MaxAttempts \/ RateLimited(c))
    /\ attempts' = [attempts EXCEPT ![c] = Recent(@)]
    /\ login' = IF RateLimited(c) \/ config[u] = Nothing THEN Nothing
                ELSE IF config[u].password = 0 THEN Nothing
                ELSE [client |-> c, user |-> u, password |-> password,
                      config |-> config[u]]
    /\ UNCHANGED <<now, config, secrets, guestSecret, jar, cached, logs>>

WrongPassword ==
    /\ login # Nothing /\ login.password # login.config.password
    /\ attempts' = RecordFailure(login.client)
    /\ login' = Nothing
    /\ failed' = failed \cup {Failure(login.client)}
    /\ UNCHANGED <<now, config, secrets, guestSecret, jar, cached, revoked, overtaken>>

(* Seeded fault: every login draws a secret.                               *)
AlwaysNew(row) == secrets + 1

(* get_or_create_session_secret                                            *)
SessionSecret(row) == IF row.secret = 0 THEN secrets + 1 ELSE row.secret

(* The config goes back as it was read, with the secret in it.             *)
SignedIn ==
    /\ login # Nothing /\ login.password = login.config.password
    /\ LET u == login.user
           secret == SessionSecret(login.config)
       IN /\ secret <= MaxSecrets
          /\ secrets' = IF secret > secrets THEN secret ELSE secrets
          /\ config' = IF config[u] = Nothing THEN config
                       ELSE [config EXCEPT ![u] = [login.config EXCEPT !.secret = secret]]
          /\ jar' = [jar EXCEPT ![login.client] =
                       [user |-> u, issued |-> now, secret |-> secret]]
          /\ overtaken' = overtaken \cup (IF config[u] = login.config THEN {} ELSE {u})
    /\ login' = Nothing
    /\ UNCHANGED <<now, guestSecret, attempts, cached, failed, revoked>>

LoginGuest(c) ==
    /\ login = Nothing
    /\ jar' = [jar EXCEPT ![c] = [user |-> Guest, issued |-> now, secret |-> guestSecret]]
    /\ UNCHANGED <<now, config, secrets, guestSecret, attempts, login, cached, logs>>

(* Only the browser forgets: the token stays good.                         *)
Logout(c) ==
    /\ login = Nothing /\ jar[c] # Nothing
    /\ jar' = [jar EXCEPT ![c] = Nothing]
    /\ UNCHANGED <<now, config, secrets, guestSecret, attempts, login, cached, logs>>

-----------------------------------------------------------------------------
(* backend/session.py                                                      *)

VerifyToken(token, secret) ==
    /\ token.issued <= now + Slack
    /\ now - token.issued <= MaxAge
    /\ token.secret = secret

(* resolve_session_user_id                                                 *)
Resolve(token) ==
    IF token = Nothing THEN Nothing
    ELSE LET secret == IF token.user = Guest THEN guestSecret
                       ELSE IF config[token.user] = Nothing THEN 0
                       ELSE config[token.user].secret
         IN IF secret # 0 /\ VerifyToken(token, secret) THEN token.user ELSE Nothing

Public == {"health", "login"}
Admin  == {"ingest"}
Api    == {"dashboard", "aggregate", "cache", "latency", "growth", "projects", "sessions"}
Pages  == {"index"}
Hosts  == {"none", "own", "other"}

(* What the routes are sent: reads, and the one admin command, with the    *)
(* host its origin, or without one its referer, names.                     *)
Requests ==
    [path : Api, filtered : BOOLEAN, from : {"none"}, token : {FALSE}]
    \cup [path : Public \cup Pages, filtered : {FALSE}, from : {"none"}, token : {FALSE}]
    \cup [path : Admin, filtered : {FALSE}, from : Hosts, token : BOOLEAN]

(* check_origin: a read comes from anywhere.                               *)
CheckOrigin(r) == r.path \notin Admin \/ r.from = "own"

(* _guest_deny                                                             *)
GuestDenied(r) == r.path \in {"projects", "sessions"} \/ r.filtered

(* auth_middleware: the status it answers itself, or 0.                    *)
Middleware(r, user) ==
    IF r.path \in Public THEN 0
    ELSE IF r.path \in Admin
         THEN IF ~r.token THEN 401 ELSE IF CheckOrigin(r) THEN 0 ELSE 403
    ELSE IF ~CheckOrigin(r) THEN 403
    ELSE IF user = Nothing THEN IF r.path \in Api THEN 401 ELSE 302
    ELSE IF user = Guest /\ GuestDenied(r) THEN 403
    ELSE 0

(* What a handler's body holds.  The rows of the cache panel and of the    *)
(* latency panel and the growth of one session carry file keys; growth     *)
(* and the project list take no filter.                                    *)
About(r) ==
    (CASE r.path = "dashboard" -> {"totals", "cost_by_project"}
       [] r.path = "aggregate" -> {"series"}
       [] r.path \in {"cache", "latency", "growth"} -> {"series", "file_key"}
       [] r.path \in {"projects", "sessions"} -> {"project_id"}
       [] OTHER -> {})
    \cup (IF r.filtered /\ r.path \in Api \ {"growth", "projects"}
          THEN {"one_project"} ELSE {})

(* Seeded fault: the key is taken from the cached object itself.           *)
StripInPlace(payload, user) ==
    LET kept == IF user = Guest THEN payload \ {"cost_by_project"} ELSE payload
    IN [body |-> kept, cached |-> kept]

(* dashboard_route: the guest's copy lacks one key.                        *)
DashboardRoute(payload, user) ==
    [body |-> IF user = Guest THEN payload \ {"cost_by_project"} ELSE payload,
     cached |-> payload]

(* On the cached payload or a new one.  A filtered dashboard has a cache   *)
(* entry of its own, which no guest reaches.                               *)
Route(r, user) ==
    DashboardRoute(IF r.filtered \/ cached = {} THEN About(r) ELSE cached, user)

(* What a request is answered, {} when the middleware answers it.          *)
Answer(r, user) ==
    IF Middleware(r, user) # 0 THEN {}
    ELSE IF r.path = "dashboard" THEN Route(r, user).body
    ELSE About(r)

Request(c, r) ==
    /\ login = Nothing
    /\ r.path = "dashboard" /\ Middleware(r, Resolve(jar[c])) = 0
    /\ cached' = IF r.filtered THEN cached ELSE Route(r, Resolve(jar[c])).cached
    /\ UNCHANGED <<now, config, secrets, guestSecret, attempts, login, jar, logs>>

Next ==
    \/ Tick
    \/ \E u \in Users : \E row \in Edits(u) : Edit(u, row)
    \/ Restart
    \/ \E c \in Clients :
        \/ \E u \in Users, p \in 1 .. 2 : LoginPost(c, u, p)
        \/ LoginGuest(c)
        \/ Logout(c)
        \/ \E r \in Requests : Request(c, r)
    \/ WrongPassword \/ SignedIn

Spec == Init /\ [][Next]_vars

-----------------------------------------------------------------------------
FailedIn(c, first, last) ==
    Cardinality({f \in failed : f.client = c /\ f.at \in first .. last})

(* No address ever fails more than the limit within one window of this     *)
(* process, and is refused only while that many failures are that recent:  *)
(* refused attempts do not prolong the refusal.                            *)
(* (login.py, _check_login_rate_limit and _record_login_failure)           *)
LimitPerWindow ==
    \A c \in Clients :
        /\ \A t \in 0 .. now : FailedIn(c, t - Window + 1, t) <= MaxFailures
        /\ RateLimited(c) <=> FailedIn(c, now - Window + 1, now) >= MaxFailures

(* A cookie is good for exactly as long as it is young and nobody took its *)
(* secret away, through any number of later logins from elsewhere; unless  *)
(* another program changed the user's config under a login, which writes   *)
(* back what it read.                                                      *)
(* (session.py, resolve_session_user_id; login.py, login_post)             *)
GoodUntilRevoked ==
    \A c \in Clients :
        jar[c] # Nothing /\ jar[c].user \notin overtaken =>
            (Resolve(jar[c]) # Nothing <=>
                now - jar[c].issued <= MaxAge /\ jar[c].secret \notin revoked)

(* One cache entry serves both roles: a user is answered the whole body    *)
(* though a guest filled or read the entry before, a guest the whole body  *)
(* less the cost by project though a user filled it, unless the route or   *)
(* the filter is kept from guests; and nobody else is answered anything.   *)
(* It does not say that the guest's part is free of projects: file keys    *)
(* stay in it.                                                             *)
(* (session.py, auth_middleware; api_dashboard.py, dashboard_route)        *)
AnsweredByRole ==
    \A user \in {Resolve(jar[c]) : c \in Clients} : \A r \in Requests :
        r.path \notin Admin =>
            Answer(r, user) =
                IF user = Nothing THEN {}
                ELSE IF user \in Users THEN About(r)
                ELSE IF GuestDenied(r) THEN {}
                ELSE About(r) \ {"cost_by_project"}
=============================================================================
