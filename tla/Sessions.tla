------------------------------ MODULE Sessions ------------------------------
(***************************************************************************)
(* Users and sessions: the handlers user_create, session_create and        *)
(* session_delete, and the three ways a session token is checked: by       *)
(* validate_session_token in front of user_delete and user_get (which      *)
(* stand for every API handler behind it), by the redirecting variant in   *)
(* front of the home pages, and by the front page itself.  Each request is *)
(* several statements with no transaction around them; requests            *)
(* interleave, a statement may fail or be cut off by the request timeout,  *)
(* with or without having taken effect, and the clock runs.                *)
(*                                                                         *)
(* A request creates at most one session, so its 32 random bytes are       *)
(* modelled by the request's own name; a user is named by its email.       *)
(*                                                                         *)
(* One clock that never goes back stands for the server's (Utc::now) and   *)
(* the database's (CURRENT_TIMESTAMP): skew between the two, or a server   *)
(* clock that is set back, is outside the model.                           *)
(***************************************************************************)
EXTENDS Integers

CONSTANTS
    Emails, Passwords, Requests,
    MaxAge,     \* session_tokens.max_age, 3600 seconds
    MaxTime,    \* bound: the clock stops here
    Menu        \* the user_create and session_create requests clients make

ASSUME MaxAgeAssumption == MaxAge \in Nat \ {0} /\ MaxTime \in Nat
ASSUME MenuAssumption ==
    \A p \in Menu : p.op \in {"create", "login"} /\ p.email \in Emails /\ p.password \in Passwords

VARIABLES
    users,      \* table users: email to password (its hash) and deleted (deleted_at)
    sessions,   \* table session_tokens: token to user and created_at
    now,        \* the clock of the server and of the database
    pc,         \* the await each handler is at
    req,        \* what each request asked for
    read,       \* the row a handler's SELECT found, as a set
    told,       \* how each request ended
    unverified, \* history: logins whose verification task was lost
    refuted,    \* history: tokens a client has been told are no longer good
    late        \* history: requests that arrived with a refuted or overaged token

vars == <<users, sessions, now, pc, req, read, told, unverified, refuted, late>>
tables == <<users, sessions>>
history == <<unverified, refuted, late>>

NoRequest == [op |-> "none"]
Logout(token) == [op |-> "logout", token |-> token]
DeleteUser(token, id) == [op |-> "delete_user", token |-> token, id |-> id]
GetUser(token, id) == [op |-> "get_user", token |-> token, id |-> id]
Page(name, token) == [op |-> name, token |-> token]     \* "home" (/c) or "index" (/)

(* The requests that present a token to try_validate_session               *)
Guarded == {"delete_user", "get_user", "home", "index"}
(* The answers that only a holder of a good session gets                   *)
Admitted == {"Deleted", "UserNotFound", "User", "Home", "LoggedIn"}

Awaits == {"insert_user", "select_user", "verify", "insert_session",
           "delete_session", "select_session", "validate", "handler"}
InFlight(r) == pc[r] \in Awaits

(* The tokens clients hold: a login's cookie, and that of a user_create    *)
(* made through htmx, which alone gets one.                                *)
Cookies == {r \in Requests : told[r] = "Created" /\ (req[r].op = "create" => req[r].hx)}

Init == /\ users = <<>>
        /\ sessions = <<>>
        /\ now = 0
        /\ pc = [r \in Requests |-> "idle"]
        /\ req = [r \in Requests |-> NoRequest]
        /\ read = [r \in Requests |-> {}]
        /\ told = [r \in Requests |-> "none"]
        /\ unverified = {}
        /\ refuted = {}
        /\ late = {}

(* A table with one more row.                                              *)
Insert(table, key, row) ==
    [k \in DOMAIN table \union {key} |-> IF k = key THEN row ELSE table[k]]

End(r, what) == pc' = [pc EXCEPT ![r] = "done"] /\ told' = [told EXCEPT ![r] = what]
Await(r, where) == pc' = [pc EXCEPT ![r] = where] /\ UNCHANGED told

(* The session is as old as its max_age.                                   *)
Overaged(token) == token \in DOMAIN sessions /\ now - sessions[token].created_at >= MaxAge

FirstAwait(op) == CASE op = "create" -> "insert_user"
                    [] op = "login" -> "select_user"
                    [] op = "logout" -> "delete_session"
                    [] op \in Guarded -> "select_session"
-----------------------------------------------------------------------------
Receive(r, p) ==
    /\ pc[r] = "idle"
    /\ req' = [req EXCEPT ![r] = p]
    /\ Await(r, FirstAwait(p.op))
    /\ late' = IF p.op \in Guarded /\ (p.token \in refuted \/ Overaged(p.token))
               THEN late \union {r} ELSE late
    /\ UNCHANGED <<tables, now, read, unverified, refuted>>

(* Mutant: ON CONFLICT (email) DO UPDATE.                                  *)
InsertUser_Upsert(r) ==
    /\ pc[r] = "insert_user"
    /\ users' = Insert(users, req[r].email, [password |-> req[r].password, deleted |-> FALSE])
    /\ Await(r, "insert_session")
    /\ UNCHANGED <<sessions, now, req, read, history>>

(* create_user: the UNIQUE email decides between two requests, and between *)
(* a user (deleted or not) and a newcomer.                                 *)
InsertUser(r) ==
    /\ pc[r] = "insert_user"
    /\ IF req[r].email \in DOMAIN users
       THEN End(r, "Conflict") /\ UNCHANGED users
       ELSE /\ users' = Insert(users, req[r].email, [password |-> req[r].password, deleted |-> FALSE])
            /\ Await(r, "insert_session")
    /\ UNCHANGED <<sessions, now, req, read, history>>

(* verify_login_details reads the hash; deleted_at is not read.            *)
SelectUser(r) ==
    /\ pc[r] = "select_user"
    /\ IF req[r].email \in DOMAIN users
       THEN /\ read' = [read EXCEPT ![r] = {users[req[r].email]}]
            /\ Await(r, "verify")
       ELSE End(r, "Unauthorized") /\ UNCHANGED read
    /\ UNCHANGED <<tables, now, req, history>>

(* Mutant: a mismatch is not refused.                                      *)
Verify_Any(r) ==
    /\ pc[r] = "verify"
    /\ Await(r, "insert_session")
    /\ UNCHANGED <<tables, now, req, read, history>>

Verify(r) ==
    /\ pc[r] = "verify"
    /\ IF \E user \in read[r] : user.password = req[r].password
       THEN Await(r, "insert_session") ELSE End(r, "Unauthorized")
    /\ UNCHANGED <<tables, now, req, read, history>>

(* The blocking task ends in a JoinError: unwrap_or(false) takes that for  *)
(* "no mismatch".                                                          *)
VerifyLost(r) ==
    /\ pc[r] = "verify"
    /\ unverified' = unverified \union {r}
    /\ Await(r, "insert_session")
    /\ UNCHANGED <<tables, now, req, read, refuted, late>>

(* create_session; created_at is the database's clock.                     *)
StoreSession(r) == sessions' = Insert(sessions, r, [user |-> req[r].email, created_at |-> now])

InsertSession(r) ==
    /\ pc[r] = "insert_session"
    /\ StoreSession(r)
    /\ End(r, "Created")
    /\ UNCHANGED <<users, now, req, read, history>>

RemoveSession(r) == sessions' = [t \in DOMAIN sessions \ {req[r].token} |-> sessions[t]]

(* session_delete, which has no session check in front of it.              *)
DeleteSession(r) ==
    /\ pc[r] = "delete_session"
    /\ RemoveSession(r)
    /\ End(r, IF req[r].token \in DOMAIN sessions THEN "NoContent" ELSE "NotFound")
    /\ refuted' = refuted \union {req[r].token}
    /\ UNCHANGED <<users, now, req, read, unverified, late>>

(* try_validate_session: the SELECT.                                       *)
SelectSession(r) ==
    /\ pc[r] = "select_session"
    /\ read' = [read EXCEPT ![r] = {sessions[t] : t \in DOMAIN sessions \intersect {req[r].token}}]
    /\ Await(r, "validate")
    /\ UNCHANGED <<tables, now, req, history>>

(* Mutant: if now > expires.                                               *)
Unexpired_OneMore(row) == now <= row.created_at + MaxAge

Unexpired(row) == now < row.created_at + MaxAge

(* What a request with a bad token is answered.                            *)
Refusal(op) == CASE op = "index" -> "LoggedOut"
                 [] op = "home" -> "Redirect"
                 [] OTHER -> "Unauthorized"

(* try_validate_session once the row is there: the request goes on to its  *)
(* handler or is refused; the front page only shows which.                 *)
Validate(r) ==
    /\ pc[r] = "validate"
    /\ IF \E row \in read[r] : Unexpired(row)
       THEN /\ IF req[r].op = "index" THEN End(r, "LoggedIn") ELSE Await(r, "handler")
            /\ UNCHANGED refuted
       ELSE /\ End(r, Refusal(req[r].op))
            /\ refuted' = refuted \union {req[r].token}
    /\ UNCHANGED <<tables, now, req, read, unverified, late>>

(* The front page takes a failed SELECT for a missing session: it shows    *)
(* a client as logged out whose token is still good.                       *)
IndexSelectFailed(r) ==
    /\ pc[r] = "select_session" /\ req[r].op = "index"
    /\ End(r, "LoggedOut")
    /\ UNCHANGED <<tables, now, req, read, history>>

MarkDeleted(id) == users' = [users EXCEPT ![id].deleted = TRUE]

(* user_delete: only the first deletion touches the row.                   *)
UserDelete(r) ==
    /\ pc[r] = "handler" /\ req[r].op = "delete_user"
    /\ IF ~users[req[r].id].deleted
       THEN MarkDeleted(req[r].id) /\ End(r, "Deleted")
       ELSE End(r, "UserNotFound") /\ UNCHANGED users
    /\ UNCHANGED <<sessions, now, req, read, history>>

(* user_get and fetch_user_details read the row, deleted or not.           *)
ReadUser(r) ==
    /\ pc[r] = "handler" /\ req[r].op \in {"get_user", "home"}
    /\ End(r, IF req[r].op = "home" THEN "Home" ELSE "User")
    /\ UNCHANGED <<tables, now, req, read, history>>

(* What the handler awaits fails or the request times out.  A statement    *)
(* that writes may have taken effect.                                      *)
Interrupt(r) ==
    /\ InFlight(r)
    /\ End(r, "Error")
    /\ \/ UNCHANGED tables
       \/ /\ pc[r] = "insert_user" /\ req[r].email \notin DOMAIN users
          /\ users' = Insert(users, req[r].email, [password |-> req[r].password, deleted |-> FALSE])
          /\ UNCHANGED sessions
       \/ pc[r] = "insert_session" /\ StoreSession(r) /\ UNCHANGED users
       \/ pc[r] = "delete_session" /\ RemoveSession(r) /\ UNCHANGED users
       \/ pc[r] = "handler" /\ req[r].op = "delete_user" /\ MarkDeleted(req[r].id) /\ UNCHANGED sessions
    /\ UNCHANGED <<now, req, read, history>>

Tick == now < MaxTime /\ now' = now + 1 /\ UNCHANGED <<tables, pc, req, read, told, history>>

Next ==
    \/ \E r \in Requests :
          \/ \E p \in Menu : Receive(r, p)
          \/ \E token \in Cookies : Receive(r, Logout(token))
          \/ \E token \in Cookies, id \in DOMAIN users :
                Receive(r, DeleteUser(token, id)) \/ Receive(r, GetUser(token, id))
          \/ \E token \in Cookies : Receive(r, Page("home", token)) \/ Receive(r, Page("index", token))
          \/ InsertUser(r) \/ SelectUser(r) \/ Verify(r) \/ VerifyLost(r) \/ InsertSession(r)
          \/ DeleteSession(r) \/ SelectSession(r) \/ Validate(r) \/ IndexSelectFailed(r)
          \/ UserDelete(r) \/ ReadUser(r)
          \/ Interrupt(r)
    \/ Tick

Spec == Init /\ [][Next]_vars
-----------------------------------------------------------------------------
(* A session belongs to somebody who knew the password: the one the        *)
(* account was created with, presented by the request that opened it,      *)
(* whatever else happened to the account meanwhile; except where the       *)
(* verification task was lost.                                             *)
SessionIsAuthentic ==
    \A t \in DOMAIN sessions :
        \/ users[sessions[t].user].password = req[t].password
        \/ t \in unverified

(* The account of a client that was told it was created is the one it      *)
(* asked for: concurrent and repeated requests for the email neither       *)
(* replace nor share it.                                                   *)
AccountIsCreators ==
    \A r \in Requests : req[r].op = "create" /\ told[r] = "Created" =>
        /\ req[r].email \in DOMAIN users
        /\ users[req[r].email].password = req[r].password
        /\ \A q \in Requests \ {r} :
              req[q].op = "create" /\ req[q].email = req[r].email => told[q] # "Created"

(* Once a client has been told that a token is gone or expired, or the     *)
(* session has reached its max_age, no request that arrives afterwards     *)
(* reaches a handler behind either middleware or the logged-in front page  *)
(* with it; one that was already being validated may.                      *)
RefutedStaysOut ==
    \A r \in late : pc[r] # "handler" /\ told[r] \notin Admitted
=============================================================================
