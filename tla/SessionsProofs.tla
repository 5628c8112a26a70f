--------------------------- MODULE SessionsProofs ---------------------------
(***************************************************************************)
(* The three safety properties of users and sessions, for any sets of      *)
(* emails, passwords and requests, any max_age and any clock.              *)
(*                                                                         *)
(* None of them is inductive.  SInv adds what lies between the statements  *)
(* of a handler: the password it read is still the account's (Login), the  *)
(* creator of an account is unique before it is told so (Creators), a row  *)
(* read for validation is the session's while there is one (Checks), and a *)
(* token that was refuted or overaged is never good again (Bad).  A step   *)
(* is that of one request r: SInvStep reduces SInv' to what the step does  *)
(* to the others (Frame) and what it leaves behind for r (Own).            *)
(***************************************************************************)
EXTENDS Sessions, TLAPS

(* What every variable holds.                                              *)
Types ==
    /\ users \in [DOMAIN users -> [password: Passwords, deleted: BOOLEAN]]
    /\ sessions \in [DOMAIN sessions -> [user: Emails, created_at: Int]]
    /\ DOMAIN sessions \subseteq Requests
    /\ now \in Int
    /\ pc \in [Requests -> Awaits \union {"idle", "done"}]
    /\ req = [r \in Requests |-> req[r]]
    /\ read = [r \in Requests |-> read[r]]
    /\ told = [r \in Requests |-> told[r]]

(* A request is at an await of its own handler, and the token it presents  *)
(* is one some finished request was given.                                 *)
Asked(r) ==
    /\ pc[r] = "idle" => req[r].op = "none"
    /\ pc[r] = "insert_user" => req[r].op = "create"
    /\ pc[r] \in {"select_user", "verify"} => req[r].op = "login"
    /\ pc[r] = "insert_session" => req[r].op \in {"create", "login"}
    /\ pc[r] = "delete_session" => req[r].op = "logout"
    /\ pc[r] \in {"select_session", "validate", "handler"} => req[r].op \in Guarded
    /\ req[r].op \in {"create", "login"} => req[r].email \in Emails /\ req[r].password \in Passwords
    /\ req[r].op \in Guarded \union {"logout"} => req[r].token \in Requests /\ told[req[r].token] = "Created"
    /\ told[r] # "none" => pc[r] = "done"

(* The account of a request exists and has its password.                   *)
Knows(r) == req[r].email \in DOMAIN users /\ users[req[r].email].password = req[r].password

(* The password read before the verification is that of the account.       *)
Login(r) ==
    /\ pc[r] = "verify" =>
          /\ req[r].email \in DOMAIN users
          /\ \A user \in read[r] : user.password = users[req[r].email].password
    /\ pc[r] = "insert_session" =>
          /\ req[r].email \in DOMAIN users
          /\ Knows(r) \/ (req[r].op = "login" /\ r \in unverified)

(* Who created the account of its email.                                   *)
Creator(r) == req[r].op = "create" /\ (pc[r] = "insert_session" \/ told[r] = "Created")

Creators ==
    /\ \A r \in Requests : Creator(r) => Knows(r)
    /\ \A r, q \in Requests : Creator(r) /\ Creator(q) /\ req[r].email = req[q].email => r = q

(* A session was stored by a request that is over.                         *)
Opened(t) ==
    /\ pc[t] = "done"
    /\ req[t].op \in {"create", "login"}
    /\ sessions[t].user = req[t].email
    /\ req[t].email \in DOMAIN users
    /\ Knows(t) \/ t \in unverified

(* The token is no good and will not be again.                             *)
Bad(t) == pc[t] = "done" /\ (t \in DOMAIN sessions => sessions[t].created_at + MaxAge <= now)

(* The row a request validates is the one of its token, if there still is  *)
(* one.                                                                    *)
Checks(r) ==
    /\ pc[r] = "validate" /\ req[r].token \in DOMAIN sessions => read[r] = {sessions[req[r].token]}
    /\ pc[r] = "validate" => \A row \in read[r] : row.created_at \in Int
    /\ r \in late =>
          /\ req[r].op \in Guarded
          /\ Bad(req[r].token)
          /\ pc[r] \in {"select_session", "validate", "done"}
          /\ pc[r] = "validate" => \A row \in read[r] : row.created_at + MaxAge <= now
          /\ told[r] \notin Admitted

(* The inductive invariant.                                                *)
SInv ==
    /\ Types
    /\ \A r \in Requests : Asked(r) /\ Login(r) /\ Checks(r)
    /\ Creators
    /\ \A t \in DOMAIN sessions : Opened(t)
    /\ late \subseteq Requests
    /\ \A t \in refuted : t \in Requests /\ Bad(t)

(* The invariant holds before the first request.                           *)
LEMMA SInvInit == Init => SInv
  BY MaxAgeAssumption
  DEF Init, SInv, Types, Asked, Login, Checks, Creators, Creator, Opened, Bad, Awaits, NoRequest, Guarded

(* What a step of request r does to the rest: other requests are left      *)
(* alone, an account keeps its password, a session its row.                *)
Frame(r) ==
    /\ \A q \in Requests \ {r} :
          /\ pc'[q] = pc[q] /\ req'[q] = req[q] /\ read'[q] = read[q] /\ told'[q] = told[q]
          /\ (q \in late') <=> (q \in late)
          /\ (q \in unverified') <=> (q \in unverified)
    /\ \A e \in DOMAIN users : e \in DOMAIN users' /\ users'[e].password = users[e].password
    /\ \A t \in DOMAIN sessions' \ {r} : t \in DOMAIN sessions /\ sessions'[t] = sessions[t]
    /\ now' = now

(* What is left to show of such a step.                                    *)
Own(r) ==
    /\ Asked(r)' /\ Login(r)' /\ Checks(r)'
    /\ Creator(r)' => /\ Knows(r)'
                      /\ \A q \in Requests \ {r} : Creator(q) => req[q].email # req'[r].email
    /\ r \in DOMAIN sessions' => Opened(r)'
    /\ late' \subseteq Requests
    /\ \A t \in refuted' : t \in refuted \/ (t \in Requests /\ Bad(t)')

(* A step of r that leaves the others alone and is right about r keeps the *)
(* invariant.                                                              *)
LEMMA SInvStep ==
  ASSUME SInv, NEW r \in Requests, pc[r] # "done", Types', Frame(r), Own(r)
  PROVE  SInv'
<1>1. ASSUME NEW t \in Requests, t # r, Bad(t) PROVE Bad(t)'
  BY <1>1 DEF Frame, Bad
<1>2. ASSUME NEW q \in Requests PROVE Asked(q)'
  <2>1. CASE q = r BY <2>1 DEF Own
  <2>2. CASE q # r
    <3>1. req[q].op \in Guarded \union {"logout"} => req[q].token # r
      BY DEF SInv, Asked
    <3> QED BY <2>2, <3>1 DEF SInv, Asked, Frame
  <2> QED BY <2>1, <2>2
<1>3. ASSUME NEW q \in Requests PROVE Login(q)'
  <2>1. CASE q = r BY <2>1 DEF Own
  <2>2. CASE q # r BY <2>2 DEF SInv, Login, Knows, Frame
  <2> QED BY <2>1, <2>2
<1>4. ASSUME NEW q \in Requests PROVE Checks(q)'
  <2>1. CASE q = r BY <2>1 DEF Own
  <2>2. CASE q # r
    <3>1. q \in late \/ pc[q] = "validate" => req[q].token \in Requests \ {r}
      BY DEF SInv, Asked, Checks
    <3>2. UNCHANGED <<pc[q], req[q], read[q], told[q], now>> /\ ((q \in late') <=> (q \in late))
      BY <2>2 DEF Frame
    <3>3. q \in late => Bad(req[q].token)'
      <4>1. q \in late => req[q].token \in Requests /\ req[q].token # r /\ Bad(req[q].token)
        BY <3>1 DEF SInv, Checks
      <4> QED BY <1>1, <3>2, <4>1
    <3>4. Checks(q) BY DEF SInv
    <3>5. pc[q] = "validate" /\ req[q].token \in DOMAIN sessions' => read[q] = {sessions'[req[q].token]}
      BY <3>1, <3>4 DEF Frame, Checks
    <3> QED BY <3>2, <3>3, <3>4, <3>5 DEF Checks
  <2> QED BY <2>1, <2>2
<1>5. Creators'
  <2>1. ASSUME NEW q \in Requests, q # r PROVE Creator(q)' <=> Creator(q)
    BY <2>1 DEF Creator, Frame
  <2>2. ASSUME NEW q \in Requests, Creator(q)' PROVE Knows(q)'
    <3>1. CASE q = r BY <2>2, <3>1 DEF Own
    <3>2. CASE q # r BY <2>1, <2>2, <3>2 DEF SInv, Creators, Knows, Frame
    <3> QED BY <3>1, <3>2
  <2>3. ASSUME NEW q \in Requests, NEW p \in Requests, Creator(q)', Creator(p)',
               req'[q].email = req'[p].email
        PROVE  q = p
    <3>1. CASE q # r /\ p # r BY <2>1, <2>3, <3>1 DEF SInv, Creators, Frame
    <3>2. CASE q = r BY <2>1, <2>3, <3>2 DEF Own, Frame
    <3>3. CASE p = r BY <2>1, <2>3, <3>3 DEF Own, Frame
    <3> QED BY <3>1, <3>2, <3>3
  <2> QED BY <2>2, <2>3 DEF Creators
<1>6. ASSUME NEW t \in DOMAIN sessions' PROVE Opened(t)'
  <2>1. CASE t = r BY <2>1 DEF Own
  <2>2. CASE t # r
    <3>1. t \in DOMAIN sessions /\ sessions'[t] = sessions[t] /\ t \in Requests
      BY <2>2 DEF Frame, SInv, Types
    <3>2. Opened(t) BY <3>1 DEF SInv
    <3> QED BY <2>2, <3>1, <3>2 DEF Frame, Opened, Knows
  <2> QED BY <2>1, <2>2
<1>7. ASSUME NEW t \in refuted' PROVE t \in Requests /\ Bad(t)'
  <2>1. CASE t \in refuted
    BY <1>1, <2>1 DEF SInv, Bad
  <2>2. CASE t \notin refuted
    BY <2>2 DEF Own
  <2> QED BY <2>1, <2>2
<1> QED BY <1>2, <1>3, <1>4, <1>5, <1>6, <1>7 DEF SInv, Own

(* A request arrives; its token, if it has one, is one a finished request  *)
(* was given.                                                              *)
LEMMA SInvReceive ==
  ASSUME SInv, NEW r \in Requests, NEW p, Receive(r, p),
         \/ p \in Menu
         \/ p.op \in Guarded \union {"logout"} /\ p.token \in Cookies
  PROVE  SInv'
<1>1. pc[r] = "idle" /\ told[r] = "none" /\ r \notin DOMAIN sessions /\ r \notin late
  BY DEF Receive, SInv, Types, Asked, Opened, Checks
<1>2. p.op \in {"create", "login", "logout"} \union Guarded
  BY MenuAssumption
<1>3. Types' /\ Frame(r)
  BY <1>2 DEF SInv, Types, Frame, Receive, Await, FirstAwait, Awaits, tables, Guarded
<1>4. req'[r] = p /\ pc'[r] = FirstAwait(p.op) /\ told' = told /\ sessions' = sessions /\ now' = now
  BY DEF Receive, Await, tables, SInv, Types
<1>5. p.op \in Guarded \union {"logout"} => /\ p.token \in Requests
                                          /\ told[p.token] = "Created"
                                          /\ pc[p.token] = "done" /\ p.token # r
  BY <1>1, MenuAssumption DEF Cookies, Guarded, SInv, Asked
<1>6. Asked(r)'
  BY <1>1, <1>2, <1>4, <1>5, MenuAssumption DEF Asked, FirstAwait, Guarded
<1>7. Login(r)' /\ ~Creator(r)'
  BY <1>1, <1>2, <1>4 DEF Login, Creator, FirstAwait, Guarded
<1>8. Checks(r)'
  <2>1. pc'[r] # "validate" /\ (p.op \in Guarded => pc'[r] = "select_session")
    BY <1>2, <1>4 DEF FirstAwait, Guarded
  <2>2. r \in late' => p.op \in Guarded /\ (p.token \in refuted \/ Overaged(p.token))
    BY <1>1 DEF Receive
  <2>3. ASSUME r \in late' PROVE Bad(p.token)
    BY <1>5, <2>2, <2>3, MaxAgeAssumption DEF SInv, Types, Bad, Overaged
  <2>4. ASSUME r \in late' PROVE pc'[p.token] = "done"
    BY <1>5, <2>2, <2>4, <1>3 DEF Frame
  <2> QED BY <1>1, <1>4, <2>1, <2>2, <2>3, <2>4 DEF Checks, Bad, Admitted
<1>9. late' \subseteq Requests /\ refuted' = refuted
  BY DEF Receive, SInv
<1> QED BY <1>1, <1>3, <1>4, <1>6, <1>7, <1>8, <1>9, SInvStep DEF Own

(* The user row a create request adds, its own step or an interrupted one. *)
LEMMA UserAdded ==
  ASSUME SInv, NEW r \in Requests, pc[r] = "insert_user", req[r].email \notin DOMAIN users,
         users' = Insert(users, req[r].email, [password |-> req[r].password, deleted |-> FALSE])
  PROVE  /\ users' \in [DOMAIN users' -> [password: Passwords, deleted: BOOLEAN]]
         /\ \A e \in DOMAIN users : e \in DOMAIN users' /\ users'[e].password = users[e].password
         /\ req[r].email \in DOMAIN users' /\ users'[req[r].email].password = req[r].password
<1> DEFINE row == [password |-> req[r].password, deleted |-> FALSE]
<1>1. users' = Insert(users, req[r].email, row) OBVIOUS
<1>2. row \in [password: Passwords, deleted: BOOLEAN] /\ row.password = req[r].password
  BY DEF SInv, Asked
<1>3. users \in [DOMAIN users -> [password: Passwords, deleted: BOOLEAN]]
  BY DEF SInv, Types
<1> HIDE DEF row
<1>4. /\ users' \in [DOMAIN users' -> [password: Passwords, deleted: BOOLEAN]]
      /\ DOMAIN users' = DOMAIN users \union {req[r].email}
      /\ users'[req[r].email] = row
      /\ \A e \in DOMAIN users : users'[e] = users[e]
  BY <1>1, <1>2, <1>3 DEF Insert
<1> QED BY <1>2, <1>4

(* The users table after a deletion.                                       *)
LEMMA UserMarked ==
  ASSUME SInv, NEW id, MarkDeleted(id)
  PROVE  /\ users' \in [DOMAIN users' -> [password: Passwords, deleted: BOOLEAN]]
         /\ \A e \in DOMAIN users : e \in DOMAIN users' /\ users'[e].password = users[e].password
  BY DEF SInv, Types, MarkDeleted

(* The session a request stores.                                           *)
LEMMA SessionStored ==
  ASSUME SInv, NEW r \in Requests, pc[r] = "insert_session", StoreSession(r)
  PROVE  /\ sessions' \in [DOMAIN sessions' -> [user: Emails, created_at: Int]]
         /\ DOMAIN sessions' \subseteq Requests
         /\ \A t \in DOMAIN sessions' \ {r} : t \in DOMAIN sessions /\ sessions'[t] = sessions[t]
         /\ sessions'[r].user = req[r].email
<1>1. r \notin DOMAIN sessions
  BY DEF SInv, Opened
<1> DEFINE row == [user |-> req[r].email, created_at |-> now]
<1>2. sessions' = Insert(sessions, r, row) BY DEF StoreSession
<1>3. row \in [user: Emails, created_at: Int] /\ row.user = req[r].email
  BY DEF SInv, Types, Asked
<1>4. sessions \in [DOMAIN sessions -> [user: Emails, created_at: Int]]
  BY DEF SInv, Types
<1> HIDE DEF row
<1>5. /\ sessions' \in [DOMAIN sessions' -> [user: Emails, created_at: Int]]
      /\ DOMAIN sessions' = DOMAIN sessions \union {r}
      /\ sessions'[r] = row
      /\ \A t \in DOMAIN sessions : sessions'[t] = sessions[t]
  BY <1>1, <1>2, <1>3, <1>4 DEF Insert
<1> QED BY <1>3, <1>5 DEF SInv, Types

(* The sessions a logout leaves.                                           *)
LEMMA SessionRemoved ==
  ASSUME SInv, NEW r \in Requests, RemoveSession(r)
  PROVE  /\ sessions' \in [DOMAIN sessions' -> [user: Emails, created_at: Int]]
         /\ DOMAIN sessions' \subseteq DOMAIN sessions
         /\ \A t \in DOMAIN sessions' : t \in DOMAIN sessions /\ sessions'[t] = sessions[t]
         /\ req[r].token \notin DOMAIN sessions'
  BY DEF SInv, Types, RemoveSession

(* create_user: the first request for an email becomes its creator.        *)
LEMMA SInvInsertUser ==
  ASSUME SInv, NEW r \in Requests, InsertUser(r)
  PROVE  SInv'
<1>1. /\ pc[r] = "insert_user" /\ told[r] = "none" /\ r \notin DOMAIN sessions /\ r \notin late
      /\ req[r].op = "create"
  BY DEF InsertUser, SInv, Types, Asked, Opened, Checks
<1>2. UNCHANGED <<sessions, now, req, read, late, unverified, refuted>>
  BY DEF InsertUser, history
<1>3. CASE req[r].email \in DOMAIN users
  <2>1. pc' = [pc EXCEPT ![r] = "done"] /\ told' = [told EXCEPT ![r] = "Conflict"] /\ users' = users
    BY <1>3 DEF InsertUser, End
  <2>2. Types' /\ Frame(r)
    BY <1>2, <2>1 DEF SInv, Types, Frame
  <2>3. Own(r)
    BY <1>1, <1>2, <2>1 DEF Own, SInv, Types, Asked, Login, Checks, Creator, Guarded
  <2> QED BY <1>1, <2>2, <2>3, SInvStep
<1>4. CASE req[r].email \notin DOMAIN users
  <2>1. /\ pc' = [pc EXCEPT ![r] = "insert_session"] /\ told' = told
        /\ users' = Insert(users, req[r].email, [password |-> req[r].password, deleted |-> FALSE])
    BY <1>4 DEF InsertUser, Await
  <2>2. Types' /\ Frame(r) /\ Knows(r)'
    BY <1>1, <1>2, <1>4, <2>1, UserAdded DEF SInv, Types, Frame, Knows, Awaits
  <2>3. \A q \in Requests \ {r} : Creator(q) => req[q].email # req[r].email
    BY <1>4 DEF SInv, Creators, Knows
  <2>4. Own(r)
    BY <1>1, <1>2, <2>1, <2>2, <2>3
    DEF Own, SInv, Types, Asked, Login, Knows, Checks, Creator, Guarded
  <2> QED BY <1>1, <2>2, <2>4, SInvStep
<1> QED BY <1>3, <1>4

(* verify_login_details, its verification found or lost, and               *)
(* create_session.                                                         *)
LEMMA SInvLogin ==
  ASSUME SInv, NEW r \in Requests,
         SelectUser(r) \/ Verify(r) \/ VerifyLost(r) \/ InsertSession(r)
  PROVE  SInv'
<1>1. /\ pc[r] \in {"select_user", "verify", "insert_session"} /\ told[r] = "none"
      /\ r \notin DOMAIN sessions /\ r \notin late /\ pc[r] # "done"
  BY DEF SelectUser, Verify, VerifyLost, InsertSession, SInv, Types, Asked, Opened, Checks
<1>2. CASE SelectUser(r)
  <2>1. Types' /\ Frame(r)
    BY <1>2 DEF SelectUser, SInv, Types, Frame, Await, End, Awaits, tables, history
  <2>2. /\ UNCHANGED <<users, sessions, now, req, late, unverified, refuted>>
        /\ \/ /\ pc'[r] = "verify" /\ told'[r] = "none" /\ read'[r] = {users[req[r].email]}
              /\ req[r].email \in DOMAIN users
           \/ pc'[r] = "done" /\ told'[r] = "Unauthorized"
        /\ pc[r] = "select_user"
    BY <1>1, <1>2 DEF SelectUser, Await, End, tables, history, SInv, Types
  <2>3. Own(r)
    BY <1>1, <2>1, <2>2 DEF Own, SInv, Types, Asked, Login, Checks, Creator, Guarded, Frame
  <2> QED BY <1>1, <2>1, <2>3, SInvStep
<1>3. CASE Verify(r)
  <2>1. Types' /\ Frame(r)
    BY <1>3 DEF Verify, SInv, Types, Frame, Await, End, Awaits, tables, history
  <2>2. Own(r)
    BY <1>1, <1>3 DEF Verify, Await, End, tables, history,
       Own, SInv, Types, Asked, Login, Knows, Checks, Creator, Guarded
  <2> QED BY <1>1, <2>1, <2>2, SInvStep
<1>4. CASE VerifyLost(r)
  <2>1. Types' /\ Frame(r)
    BY <1>4 DEF VerifyLost, SInv, Types, Frame, Await, Awaits, tables
  <2>2. Own(r)
    BY <1>1, <1>4 DEF VerifyLost, Await, tables,
       Own, SInv, Types, Asked, Login, Knows, Checks, Creator, Guarded
  <2> QED BY <1>1, <2>1, <2>2, SInvStep
<1>5. CASE InsertSession(r)
  <2>1. /\ pc[r] = "insert_session" /\ StoreSession(r)
        /\ pc' = [pc EXCEPT ![r] = "done"] /\ told' = [told EXCEPT ![r] = "Created"]
        /\ UNCHANGED <<users, now, req, read, late, unverified, refuted>>
    BY <1>5 DEF InsertSession, End, history
  <2>2. Types' /\ Frame(r)
    BY <2>1, SessionStored DEF SInv, Types, Frame
  <2>3. Asked(r)' /\ Login(r)' /\ Checks(r)'
    BY <1>1, <2>1 DEF SInv, Types, Asked, Login, Checks, Guarded
  <2>4. Creator(r)' => /\ Knows(r)'
                       /\ \A q \in Requests \ {r} : Creator(q) => req[q].email # req'[r].email
    BY <2>1 DEF SInv, Types, Creators, Creator, Knows
  <2>5. Opened(r)'
    BY <2>1, SessionStored, ZenonT(60) DEF SInv, Types, Asked, Login, Opened, Knows
  <2>6. Own(r)
    BY <2>1, <2>3, <2>4, <2>5 DEF Own, SInv
  <2> QED BY <1>1, <2>2, <2>6, SInvStep
<1> QED BY <1>2, <1>3, <1>4, <1>5

(* session_delete: whoever is told that a token is gone, it is.            *)
LEMMA SInvLogout ==
  ASSUME SInv, NEW r \in Requests, DeleteSession(r)
  PROVE  SInv'
<1>1. /\ pc[r] = "delete_session" /\ told[r] = "none" /\ r \notin DOMAIN sessions /\ r \notin late
      /\ req[r].op = "logout"
  BY DEF DeleteSession, SInv, Types, Asked, Opened, Checks
<1>2. /\ RemoveSession(r)
      /\ pc' = [pc EXCEPT ![r] = "done"]
      /\ told'[r] \in {"NoContent", "NotFound"}
      /\ told' = [q \in Requests |-> told'[q]] /\ \A q \in Requests \ {r} : told'[q] = told[q]
      /\ refuted' = refuted \union {req[r].token}
      /\ UNCHANGED <<users, now, req, read, late, unverified>>
  BY DEF DeleteSession, End, SInv, Types
<1>3. req[r].token \in Requests /\ pc[req[r].token] = "done" /\ req[r].token # r
  BY <1>1 DEF SInv, Asked
<1>4. Types' /\ Frame(r)
  BY <1>2, SessionRemoved DEF SInv, Types, Frame
<1>5. Asked(r)' /\ Login(r)' /\ Checks(r)' /\ ~Creator(r)' /\ r \notin DOMAIN sessions'
  BY <1>1, <1>2, SessionRemoved DEF SInv, Types, Asked, Login, Checks, Creator, Guarded
<1>6. ASSUME NEW t \in refuted' PROVE t \in refuted \/ (t \in Requests /\ Bad(t)')
  BY <1>2, <1>3, SessionRemoved DEF SInv, Types, Bad
<1>7. Own(r)
  BY <1>2, <1>5, <1>6 DEF Own, SInv
<1> QED BY <1>1, <1>4, <1>7, SInvStep

(* try_validate_session: a token that was refuted or overaged when the     *)
(* request arrived is refused, and a refused token is no good.             *)
LEMMA SInvValidate ==
  ASSUME SInv, NEW r \in Requests, SelectSession(r) \/ Validate(r) \/ IndexSelectFailed(r)
  PROVE  SInv'
<1>1. /\ pc[r] \in {"select_session", "validate"} /\ told[r] = "none" /\ r \notin DOMAIN sessions
      /\ req[r].op \in Guarded
      /\ req[r].token \in Requests /\ pc[req[r].token] = "done" /\ req[r].token # r
  BY DEF SelectSession, Validate, IndexSelectFailed, SInv, Types, Asked, Opened
<1>2. UNCHANGED <<users, sessions, now, req, late, unverified>>
  BY DEF SelectSession, Validate, IndexSelectFailed, tables, history
<1>3. CASE SelectSession(r)
  <2>1. /\ pc'[r] = "validate" /\ told' = told /\ refuted' = refuted
        /\ read'[r] = {sessions[t] : t \in DOMAIN sessions \intersect {req[r].token}}
    BY <1>3 DEF SelectSession, Await, tables, history, SInv, Types
  <2>2. Types' /\ Frame(r)
    BY <1>2, <1>3 DEF SelectSession, Await, Awaits, SInv, Types, Frame
  <2>3. /\ req[r].token \in DOMAIN sessions => read'[r] = {sessions[req[r].token]}
        /\ \A row \in read'[r] : req[r].token \in DOMAIN sessions /\ row = sessions[req[r].token]
    BY <2>1
  <2>4. Asked(r)' /\ Login(r)' /\ ~Creator(r)'
    BY <1>1, <1>2, <2>1, <2>2 DEF SInv, Asked, Login, Creator, Guarded, Frame
  <2>5. Checks(r)'
    BY <1>1, <1>2, <2>1, <2>2, <2>3 DEF SInv, Types, Checks, Bad, Frame
  <2>6. Own(r)
    BY <1>1, <1>2, <2>1, <2>4, <2>5 DEF Own, SInv
  <2> QED BY <1>1, <2>2, <2>6, SInvStep
<1>4. CASE IndexSelectFailed(r)
  <2>1. /\ pc' = [pc EXCEPT ![r] = "done"] /\ told' = [told EXCEPT ![r] = "LoggedOut"]
        /\ read' = read /\ refuted' = refuted
    BY <1>4 DEF IndexSelectFailed, End, history
  <2>2. Types' /\ Frame(r)
    BY <1>2, <2>1 DEF SInv, Types, Frame
  <2>3. Own(r)
    BY <1>1, <1>2, <2>1
    DEF Own, SInv, Types, Asked, Login, Checks, Bad, Creator, Guarded, Admitted
  <2> QED BY <1>1, <2>2, <2>3, SInvStep
<1>5. CASE Validate(r)
  <2>1. pc[r] = "validate" /\ read' = read
    BY <1>5 DEF Validate
  <2>2. CASE \E row \in read[r] : Unexpired(row)
    <3>1. /\ refuted' = refuted
          /\ \/ pc' = [pc EXCEPT ![r] = "done"] /\ told' = [told EXCEPT ![r] = "LoggedIn"]
             \/ pc' = [pc EXCEPT ![r] = "handler"] /\ told' = told
      BY <1>5, <2>2 DEF Validate, End, Await
    <3>2. r \notin late
      BY <2>1, <2>2, MaxAgeAssumption DEF SInv, Types, Checks, Unexpired
    <3>3. Types' /\ Frame(r)
      BY <1>2, <2>1, <3>1 DEF SInv, Types, Frame, Awaits
    <3>4. Own(r)
      BY <1>1, <1>2, <2>1, <3>1, <3>2, SMTT(30)
      DEF Own, SInv, Types, Asked, Login, Checks, Creator, Guarded
    <3> QED BY <1>1, <3>3, <3>4, SInvStep
  <2>3. CASE ~ \E row \in read[r] : Unexpired(row)
    <3>1. /\ pc' = [pc EXCEPT ![r] = "done"] /\ told' = [told EXCEPT ![r] = Refusal(req[r].op)]
          /\ refuted' = refuted \union {req[r].token}
      BY <1>5, <2>3 DEF Validate, End
    <3>2. Refusal(req[r].op) \notin Admitted /\ Refusal(req[r].op) # "Created"
          /\ Refusal(req[r].op) # "none"
      BY DEF Refusal, Admitted
    <3>3. Types' /\ Frame(r)
      BY <1>2, <2>1, <3>1 DEF SInv, Types, Frame
    <3>4. Bad(req[r].token)'
      BY <1>1, <1>2, <2>1, <2>3, <3>1, MaxAgeAssumption
      DEF SInv, Types, Checks, Bad, Unexpired
    <3>5. Asked(r)' /\ Login(r)' /\ Checks(r)' /\ ~Creator(r)'
      BY <1>1, <1>2, <2>1, <3>1, <3>2
      DEF SInv, Types, Asked, Login, Checks, Bad, Creator, Guarded
    <3>6. Own(r)
      BY <1>1, <1>2, <3>1, <3>4, <3>5 DEF Own, SInv
    <3> QED BY <1>1, <3>3, <3>6, SInvStep
  <2> QED BY <2>2, <2>3
<1> QED BY <1>3, <1>4, <1>5

(* user_delete, user_get and the home page, behind the check.              *)
LEMMA SInvHandler ==
  ASSUME SInv, NEW r \in Requests, UserDelete(r) \/ ReadUser(r)
  PROVE  SInv'
<1>1. /\ pc[r] = "handler" /\ told[r] = "none" /\ r \notin DOMAIN sessions /\ r \notin late
      /\ req[r].op \in Guarded
  BY DEF UserDelete, ReadUser, SInv, Types, Asked, Opened, Checks
<1>2. /\ UNCHANGED <<sessions, now, req, read, late, unverified, refuted>>
      /\ users' = users \/ MarkDeleted(req[r].id)
      /\ pc' = [pc EXCEPT ![r] = "done"]
      /\ \E what \in Admitted : told' = [told EXCEPT ![r] = what]
  BY DEF UserDelete, ReadUser, End, tables, history, Admitted
<1>3. Types' /\ Frame(r)
  BY <1>2, UserMarked DEF SInv, Types, Frame
<1>4. Own(r)
  BY <1>1, <1>2 DEF Own, SInv, Types, Asked, Login, Checks, Creator, Guarded, Admitted
<1> QED BY <1>1, <1>3, <1>4, SInvStep

(* A request is cut off, with or without the effect of its statement.      *)
LEMMA SInvInterrupt ==
  ASSUME SInv, NEW r \in Requests, Interrupt(r)
  PROVE  SInv'
<1>1. pc[r] \in Awaits /\ pc[r] # "done" /\ told[r] = "none" /\ r \notin DOMAIN sessions
  BY DEF Interrupt, InFlight, Awaits, SInv, Types, Asked, Opened
<1>2. /\ UNCHANGED <<now, req, read, late, unverified, refuted>>
      /\ pc' = [pc EXCEPT ![r] = "done"] /\ told' = [told EXCEPT ![r] = "Error"]
  BY DEF Interrupt, End, history
<1>3. CASE UNCHANGED tables \/ (pc[r] = "delete_session" /\ RemoveSession(r) /\ UNCHANGED users)
  <2>1. Types' /\ Frame(r) /\ r \notin DOMAIN sessions'
    BY <1>1, <1>2, <1>3, SessionRemoved DEF SInv, Types, Frame, tables
  <2>2. r \in late => Bad(req[r].token)'
    BY <1>2, <1>1, <2>1 DEF SInv, Asked, Checks, Bad, Frame
  <2>3. Own(r)
    BY <1>1, <1>2, <2>1, <2>2
    DEF Own, SInv, Types, Asked, Login, Checks, Creator, Admitted
  <2> QED BY <1>1, <2>1, <2>3, SInvStep
<1>4. CASE /\ pc[r] = "insert_user" /\ req[r].email \notin DOMAIN users
           /\ users' = Insert(users, req[r].email, [password |-> req[r].password, deleted |-> FALSE])
           /\ UNCHANGED sessions
  <2>1. Types' /\ Frame(r) /\ r \notin late
    BY <1>1, <1>2, <1>4, UserAdded DEF SInv, Types, Frame, Checks
  <2>2. Own(r)
    BY <1>1, <1>2, <1>4, <2>1
    DEF Own, SInv, Types, Asked, Login, Checks, Creator, Guarded
  <2> QED BY <1>1, <2>1, <2>2, SInvStep
<1>5. CASE pc[r] = "insert_session" /\ StoreSession(r) /\ UNCHANGED users
  <2>1. Types' /\ Frame(r) /\ r \notin late
    BY <1>1, <1>2, <1>5, SessionStored DEF SInv, Types, Frame, Checks
  <2>2. Opened(r)'
    BY <1>2, <1>5, SessionStored, ZenonT(60) DEF SInv, Types, Asked, Login, Opened, Knows
  <2>3. Asked(r)' /\ Login(r)' /\ Checks(r)' /\ ~Creator(r)'
    BY <1>1, <1>2, <1>5, <2>1 DEF SInv, Types, Asked, Login, Checks, Creator, Guarded
  <2>4. Own(r)
    BY <1>2, <2>2, <2>3 DEF Own, SInv
  <2> QED BY <1>1, <2>1, <2>4, SInvStep
<1>6. CASE pc[r] = "handler" /\ MarkDeleted(req[r].id) /\ UNCHANGED sessions
  <2>1. Types' /\ Frame(r) /\ r \notin late
    BY <1>1, <1>2, <1>6, UserMarked DEF SInv, Types, Frame, Checks
  <2>2. Own(r)
    BY <1>1, <1>2, <1>6, <2>1
    DEF Own, SInv, Types, Asked, Login, Checks, Creator, Guarded
  <2> QED BY <1>1, <2>1, <2>2, SInvStep
<1> QED BY <1>3, <1>4, <1>5, <1>6 DEF Interrupt

(* The clock runs, or nothing happens: what was too old stays so.          *)
LEMMA SInvTick ==
  ASSUME SInv, Tick \/ UNCHANGED vars
  PROVE  SInv'
<1>1. /\ UNCHANGED <<users, sessions, pc, req, read, told, unverified, refuted, late>>
      /\ now \in Int /\ now' \in Int /\ now <= now'
  BY DEF SInv, Types, Tick, vars, tables, history
<1>2. Types' BY <1>1 DEF SInv, Types
<1>3. ASSUME NEW t, Bad(t) PROVE Bad(t)'
  <2>1. t \in DOMAIN sessions => sessions[t].created_at \in Int
    BY DEF SInv, Types
  <2> QED BY <1>1, <1>3, <2>1, MaxAgeAssumption DEF Bad
<1>4. ASSUME NEW r \in Requests PROVE Asked(r)' /\ Login(r)'
  BY <1>1 DEF SInv, Asked, Login, Knows
<1>5. ASSUME NEW r \in Requests PROVE Checks(r)'
  <2>1. Checks(r) BY DEF SInv
  <2>2. r \in late => Bad(req[r].token)'
    <3> DEFINE token == req[r].token
    <3>1. req'[r].token = token BY <1>1
    <3>2. r \in late => Bad(token) BY <2>1 DEF Checks
    <3> HIDE DEF token
    <3> QED BY <1>1, <1>3, <3>1, <3>2 DEF Bad
  <2>3. r \in late /\ pc[r] = "validate" => \A row \in read[r] : row.created_at + MaxAge <= now'
    BY <1>1, <2>1, MaxAgeAssumption DEF Checks
  <2> QED BY <1>1, <2>1, <2>2, <2>3 DEF Checks
<1>6. Creators' BY <1>1 DEF SInv, Creators, Creator, Knows
<1>7. ASSUME NEW t \in DOMAIN sessions' PROVE Opened(t)'
  BY <1>1 DEF SInv, Opened, Knows
<1>8. late' \subseteq Requests BY <1>1 DEF SInv
<1>9. ASSUME NEW t \in refuted' PROVE t \in Requests /\ Bad(t)'
  BY <1>1, <1>3 DEF SInv
<1> QED BY <1>2, <1>4, <1>5, <1>6, <1>7, <1>8, <1>9 DEF SInv

(* Every behaviour of users and sessions satisfies the invariant.          *)
THEOREM SessionsInvariant == Spec => []SInv
<1>1. Init => SInv BY SInvInit
<1>2. SInv /\ [Next]_vars => SInv'
  <2> SUFFICES ASSUME SInv, [Next]_vars PROVE SInv' OBVIOUS
  <2>1. CASE UNCHANGED vars BY <2>1, SInvTick
  <2>2. ASSUME NEW r \in Requests, NEW p \in Menu, Receive(r, p) PROVE SInv'
    BY <2>2, SInvReceive
  <2>3. ASSUME NEW r \in Requests, NEW token \in Cookies, NEW id,
               \/ Receive(r, Logout(token))
               \/ Receive(r, DeleteUser(token, id)) \/ Receive(r, GetUser(token, id))
               \/ Receive(r, Page("home", token)) \/ Receive(r, Page("index", token))
        PROVE  SInv'
    <3>1. ASSUME NEW p, Receive(r, p), p.op \in Guarded \union {"logout"}, p.token = token
          PROVE  SInv'
      BY <3>1, SInvReceive
    <3> QED BY <2>3, <3>1 DEF Logout, DeleteUser, GetUser, Page, Guarded
  <2>4. CASE Tick BY <2>4, SInvTick
  <2>5. ASSUME NEW r \in Requests,
               \/ InsertUser(r) \/ SelectUser(r) \/ Verify(r) \/ VerifyLost(r) \/ InsertSession(r)
               \/ DeleteSession(r) \/ SelectSession(r) \/ Validate(r) \/ IndexSelectFailed(r)
               \/ UserDelete(r) \/ ReadUser(r) \/ Interrupt(r)
        PROVE  SInv'
    BY <2>5, SInvInsertUser, SInvLogin, SInvLogout, SInvValidate, SInvHandler, SInvInterrupt
  <2> QED BY <2>1, <2>2, <2>3, <2>4, <2>5 DEF Next
<1> QED BY <1>1, <1>2, PTL DEF Spec

(* Whoever holds a session knew the password of its account, whatever else *)
(* happened to the account meanwhile, except where the verification task   *)
(* was lost (verify_login_details, create_session).                        *)
THEOREM SessionsAreAuthentic == Spec => []SessionIsAuthentic
<1>1. SInv => SessionIsAuthentic
  BY DEF SInv, Opened, Knows, SessionIsAuthentic
<1> QED BY <1>1, SessionsInvariant, PTL

(* Of all requests for one email at most one is told Created, and the      *)
(* account has its password (create_user, the UNIQUE email).               *)
THEOREM AccountsAreCreators == Spec => []AccountIsCreators
<1>1. SInv => AccountIsCreators
  BY DEF SInv, Creators, Creator, Knows, AccountIsCreators
<1> QED BY <1>1, SessionsInvariant, PTL

(* A token that a client was told is gone or expired, or that has reached  *)
(* its max_age, admits no request that arrives afterwards, to any handler  *)
(* behind either middleware or to the logged-in front page                 *)
(* (try_validate_session).                                                 *)
THEOREM RefutedTokensStayOut == Spec => []RefutedStaysOut
<1>1. SInv => RefutedStaysOut
  BY DEF SInv, Checks, RefutedStaysOut
<1> QED BY <1>1, SessionsInvariant, PTL
=============================================================================
