-------------------------- MODULE Accounts_proofs --------------------------
(***************************************************************************)
(* Proofs about users and sessions, for any number of requests in flight.  *)
(***************************************************************************)
EXTENDS Accounts, TLAPS

(* A user has had a session since his registration. *)
Opened ==
  \A i \in Ids : user[i] # NoUser =>
    \E t \in Tokens : session[t] # NoSession /\ session[t].owner = i

(* The rows that a request is going to write exist. *)
Present ==
  \A c \in Clients :
    /\ At(c, "token") \/ At(c, "handler") \/ At(c, "update") => session[req[c].token] # NoSession
    /\ At(c, "update") => user[req[c].target] # NoUser

Inv == TypeOK /\ Opened /\ Present

(* What a request is, by its kind. *)
LEMMA RequestTypes ==
  ASSUME TypeOK, NEW c \in Clients
  PROVE  /\ At(c, "nameFree") \/ At(c, "emailFree") => req[c].name \in Names /\ req[c].email \in Emails
         /\ At(c, "login") => req[c].id \in Ids /\ req[c].seen \in UserRows
         /\ At(c, "token") => req[c].token \in Tokens /\ req[c].seen \in SessionRows
         /\ At(c, "handler") =>
              req[c].token \in Tokens /\ req[c].id \in Ids /\ req[c].seen \in UserRows
         /\ At(c, "update") =>
              /\ req[c].token \in Tokens /\ req[c].id \in Ids /\ req[c].target \in Ids
              /\ req[c].seen \in UserRows
              /\ req[c].role \in Roles \cup {Keep} /\ req[c].status \in Statuses \cup {Keep}
<1>1. req[c] \in Requests \cup {Idle}
  BY DEF TypeOK
<1> QED BY <1>1 DEF At, Requests

(* In the beginning there is an administrator with a session. *)
LEMMA InitInv == Init => Inv
<1> SUFFICES ASSUME Init PROVE Inv
  OBVIOUS
<1>1. PICK t \in Tokens :
        session = [s \in Tokens |->
                     IF s = t THEN [owner |-> Root, state |-> "valid"] ELSE NoSession]
  BY DEF Init
<1>2. [owner |-> Root, state |-> "valid"] \in SessionRows
  BY RootAssumption DEF SessionRows
<1>3. [name |-> RootName, email |-> RootEmail, role |-> "admin", status |-> "active"] \in UserRows
  BY RootAssumption DEF UserRows, Roles, Statuses
<1>4. TypeOK
  BY <1>1, <1>2, <1>3 DEF Init, TypeOK
<1>5. Opened
  BY <1>1, <1>2, NullAssumption DEF Init, Opened
<1>6. Present
  BY DEF Init, Present, At
<1> QED BY <1>4, <1>5, <1>6 DEF Inv

(* A request is answered or goes on, and users and sessions stay. *)
LEMMA ReadsOnly ==
  ASSUME Inv, NEW c \in Clients, UNCHANGED <<user, session>>, NEW r \in Requests \cup {Idle},
         req' = [req EXCEPT ![c] = r],
         r # Idle /\ r.kind \in {"token", "handler", "update"} => session[r.token] # NoSession,
         r # Idle /\ r.kind = "update" => user[r.target] # NoUser
  PROVE  Inv'
<1>1. TypeOK'
  BY DEF Inv, TypeOK
<1>2. Opened'
  BY DEF Inv, Opened
<1>3. Present'
  <2> SUFFICES ASSUME NEW d \in Clients
               PROVE  /\ (At(d, "token") \/ At(d, "handler") \/ At(d, "update"))' =>
                           session[req'[d].token] # NoSession
                      /\ At(d, "update")' => user[req'[d].target] # NoUser
    BY DEF Present
  <2>1. CASE d = c
    <3>1. req'[d] = r
      BY <2>1 DEF Inv, TypeOK
    <3> QED BY <3>1 DEF At
  <2>2. CASE d # c
    <3>1. req'[d] = req[d]
      BY <2>2 DEF Inv, TypeOK
    <3> QED BY <3>1 DEF Inv, Present, At
  <2> QED BY <2>1, <2>2
<1> QED BY <1>1, <1>2, <1>3 DEF Inv

(* Sessions stay and keep their owners. *)
Kept == \A t \in Tokens :
  session[t] # NoSession => session'[t] # NoSession /\ session'[t].owner = session[t].owner

(* A request is answered; no row disappears, and a new user has a session. *)
LEMMA Writes ==
  ASSUME Inv, Kept,
         UNCHANGED req \/ \E c \in Clients : Answer(c),
         user' \in [Ids -> UserRows \cup {NoUser}],
         session' \in [Tokens -> SessionRows \cup {NoSession}],
         \A i \in Ids : user[i] # NoUser => user'[i] # NoUser,
         \A i \in Ids : user[i] = NoUser /\ user'[i] # NoUser =>
           \E t \in Tokens : session'[t] # NoSession /\ session'[t].owner = i
  PROVE  Inv'
<1>1. TypeOK'
  BY DEF Inv, TypeOK, Answer
<1>2. Opened'
  BY DEF Inv, Opened, Kept
<1>3. Present'
  <2> SUFFICES ASSUME NEW d \in Clients, req'[d] # Idle
               PROVE  /\ (At(d, "token") \/ At(d, "handler") \/ At(d, "update"))' =>
                           session'[req'[d].token] # NoSession
                      /\ At(d, "update")' => user'[req'[d].target] # NoUser
    BY DEF Present, At
  <2>1. req'[d] = req[d]
    BY DEF Inv, TypeOK, Answer
  <2>2. At(d, "token") \/ At(d, "handler") \/ At(d, "update") => req[d].token \in Tokens
    BY RequestTypes DEF Inv
  <2>3. At(d, "update") => req[d].target \in Ids
    BY RequestTypes DEF Inv
  <2> QED BY <2>1, <2>2, <2>3 DEF Inv, Present, Kept, At
<1> QED BY <1>1, <1>2, <1>3 DEF Inv

(* A new session is somebody's, and the others stay as they were. *)
LEMMA SessionOpens ==
  ASSUME TypeOK, NEW i \in Ids, OpenSession(i)
  PROVE  /\ Kept
         /\ session' \in [Tokens -> SessionRows \cup {NoSession}]
         /\ \E t \in Tokens : session'[t] # NoSession /\ session'[t].owner = i
         /\ \A t \in Tokens : session[t] # NoSession => session'[t] = session[t]
<1>1. PICK t \in Tokens : /\ session[t] = NoSession
                         /\ session' = [session EXCEPT ![t] = [owner |-> i, state |-> "valid"]]
  BY DEF OpenSession
<1>2. [owner |-> i, state |-> "valid"] \in SessionRows
  BY DEF SessionRows
<1>3. session'[t] = [owner |-> i, state |-> "valid"] /\ session'[t] # NoSession
  BY <1>1, <1>2, NullAssumption DEF TypeOK
<1>4. \A s \in Tokens : session[s] # NoSession => session'[s] = session[s]
  BY <1>1 DEF TypeOK
<1>5. session' \in [Tokens -> SessionRows \cup {NoSession}]
  BY <1>1, <1>2 DEF TypeOK
<1> QED BY <1>3, <1>4, <1>5 DEF Kept

(* A session ends. *)
LEMMA SessionEnds ==
  ASSUME TypeOK, NEW t \in Tokens, session[t] # NoSession,
         session' = [session EXCEPT ![t].state = "over"]
  PROVE  /\ Kept
         /\ session' \in [Tokens -> SessionRows \cup {NoSession}]
         /\ \A s \in Tokens : session[s] # NoSession /\ session[s].state = "over" =>
              session'[s].state = "over"
<1>1. session[t] \in SessionRows
  BY DEF TypeOK
<1>2. session'[t] = [owner |-> session[t].owner, state |-> "over"]
  BY <1>1 DEF TypeOK, SessionRows
<1>3. session'[t] \in SessionRows /\ session'[t] # NoSession /\ session'[t].owner = session[t].owner
  BY <1>1, <1>2, NullAssumption DEF SessionRows
<1>4. \A s \in Tokens : s # t => session'[s] = session[s]
  BY DEF TypeOK
<1>5. session' \in [Tokens -> SessionRows \cup {NoSession}]
  BY <1>3 DEF TypeOK
<1> QED BY <1>2, <1>3, <1>4, <1>5 DEF Kept

(* No step takes a session away, nor its owner, nor its end. *)
OverStays == \A t \in Tokens :
  session[t] # NoSession =>
    /\ session'[t] # NoSession /\ session'[t].owner = session[t].owner
    /\ session[t].state = "over" => session'[t].state = "over"

(* Every step keeps the invariant and the sessions. *)
LEMMA NextInv ==
  ASSUME Inv, [Next]_vars
  PROVE  Inv' /\ OverStays
<1> USE DEF Inv
<1>1. ASSUME NEW c \in Clients, NEW n \in Names, NEW e \in Emails, RegisterCheckName(c, n, e)
      PROVE  Inv' /\ OverStays
  <2>1. [kind |-> "nameFree", name |-> n, email |-> e] \in Requests
    BY DEF Requests
  <2>2. Inv'
    BY <1>1, <2>1, ReadsOnly DEF RegisterCheckName, Goto
  <2> QED BY <1>1, <2>2 DEF RegisterCheckName, OverStays
<1>2. ASSUME NEW c \in Clients, RegisterCheckEmail(c) PROVE Inv' /\ OverStays
  <2> DEFINE r == [kind |-> "emailFree", name |-> req[c].name, email |-> req[c].email]
  <2>1. r \in Requests
    BY <1>2, RequestTypes DEF RegisterCheckEmail, Requests
  <2>2. req' = [req EXCEPT ![c] = Idle] \/ req' = [req EXCEPT ![c] = r]
    BY <1>2 DEF RegisterCheckEmail, Answer, Goto
  <2>3. Inv'
    BY <1>2, <2>1, <2>2, ReadsOnly DEF RegisterCheckEmail
  <2> QED BY <1>2, <2>3 DEF RegisterCheckEmail, OverStays
<1>3. ASSUME NEW c \in Clients, RegisterCommit(c) PROVE Inv' /\ OverStays
  <2>1. CASE Unique(req[c].name, req[c].email)
    <3> DEFINE row == [name |-> req[c].name, email |-> req[c].email, role |-> "user", status |-> "active"]
    <3>1. PICK i \in Ids \ Rows : user' = [user EXCEPT ![i] = row] /\ OpenSession(i)
      BY <1>3, <2>1 DEF RegisterCommit
    <3>2. row \in UserRows
      BY <1>3, RequestTypes DEF RegisterCommit, UserRows, Roles, Statuses
    <3>3. user' \in [Ids -> UserRows \cup {NoUser}]
      BY <3>1, <3>2 DEF TypeOK
    <3>4. \A k \in Ids : user'[k] = IF k = i THEN row ELSE user[k]
      BY <3>1 DEF TypeOK
    <3>5. row # NoUser
      BY <3>2, NullAssumption
    <3>6. Answer(c)
      BY <1>3 DEF RegisterCommit
    <3>7. \A k \in Ids : user[k] # NoUser => user'[k] # NoUser
      BY <3>4, <3>5
    <3>8. \A k \in Ids : user[k] = NoUser /\ user'[k] # NoUser =>
            \E t \in Tokens : session'[t] # NoSession /\ session'[t].owner = k
      BY <3>1, <3>4, SessionOpens
    <3>9. Kept /\ session' \in [Tokens -> SessionRows \cup {NoSession}]
      BY <3>1, SessionOpens
    <3>10. Inv'
      BY <3>3, <3>6, <3>7, <3>8, <3>9, Writes
    <3>11. OverStays
      BY <3>1, SessionOpens DEF OverStays
    <3> QED BY <3>10, <3>11
  <2>2. CASE ~Unique(req[c].name, req[c].email)
    <3>1. UNCHANGED <<user, session>> /\ req' = [req EXCEPT ![c] = Idle]
      BY <1>3, <2>2 DEF RegisterCommit, Answer
    <3> QED BY <3>1, ReadsOnly DEF OverStays
  <2> QED BY <2>1, <2>2
<1>4. ASSUME NEW c \in Clients, NEW i \in Ids, LoginRead(c, i) PROVE Inv' /\ OverStays
  <2>1. [kind |-> "login", id |-> i, seen |-> user[i]] \in Requests
    BY <1>4 DEF LoginRead, Requests, TypeOK
  <2>2. Inv'
    BY <1>4, <2>1, ReadsOnly DEF LoginRead, Goto
  <2> QED BY <1>4, <2>2 DEF LoginRead, OverStays
<1>5. ASSUME NEW c \in Clients, LoginCommit(c) PROVE Inv' /\ OverStays
  <2>1. req[c].id \in Ids
    BY <1>5, RequestTypes DEF LoginCommit
  <2>2. OpenSession(req[c].id) /\ Answer(c) /\ UNCHANGED user
    BY <1>5 DEF LoginCommit, LoginWrites
  <2>3. Kept /\ session' \in [Tokens -> SessionRows \cup {NoSession}] /\ OverStays
    BY <2>1, <2>2, SessionOpens DEF OverStays
  <2>4. user' \in [Ids -> UserRows \cup {NoUser}]
    BY <2>2 DEF TypeOK
  <2> QED BY <2>2, <2>3, <2>4, Writes
<1>6. ASSUME NEW c \in Clients, NEW t \in Tokens, AuthReadSession(c, t) PROVE Inv' /\ OverStays
  <2> DEFINE r == [kind |-> "token", token |-> t, seen |-> session[t]]
  <2>1. r \in Requests
    BY <1>6 DEF AuthReadSession, Requests, TypeOK
  <2>2. r.kind = "token" /\ r.token = t /\ session[t] # NoSession
    BY <1>6 DEF AuthReadSession
  <2>3. Inv'
    BY <1>6, <2>1, <2>2, ReadsOnly DEF AuthReadSession, Goto
  <2> QED BY <1>6, <2>3 DEF AuthReadSession, OverStays
<1>7. ASSUME NEW c \in Clients, AuthReadUser(c) PROVE Inv' /\ OverStays
  <2> DEFINE i == req[c].seen.owner
             r == [kind |-> "handler", token |-> req[c].token, id |-> i, seen |-> user[i]]
  <2>1. UNCHANGED <<user, session>> /\ At(c, "token") /\ req[c].token \in Tokens /\ i \in Ids
    BY <1>7, RequestTypes DEF AuthReadUser, Touch, SessionRows
  <2>2. \/ req' = [req EXCEPT ![c] = Idle]
        \/ user[i] # NoUser /\ req' = [req EXCEPT ![c] = r]
    BY <1>7 DEF AuthReadUser, Answer, Goto
  <2>3. user[i] # NoUser => r \in Requests
    BY <2>1 DEF Requests, TypeOK
  <2>4. r.kind = "handler" /\ session[r.token] # NoSession
    BY <2>1 DEF Present
  <2>5. Inv'
    BY <2>1, <2>2, <2>3, <2>4, ReadsOnly
  <2> QED BY <2>1, <2>5 DEF OverStays
<1>8. ASSUME NEW c \in Clients, OtherRequest(c) PROVE Inv' /\ OverStays
  <2>1. Inv'
    BY <1>8, ReadsOnly DEF OtherRequest, Answer
  <2> QED BY <1>8, <2>1 DEF OtherRequest, OverStays
<1>9. ASSUME NEW t \in Tokens, session[t] # NoSession, UNCHANGED user,
             session' = [session EXCEPT ![t].state = "over"],
             UNCHANGED req \/ \E c \in Clients : Answer(c)
      PROVE  Inv' /\ OverStays
  <2>1. Kept /\ session' \in [Tokens -> SessionRows \cup {NoSession}] /\ OverStays
    BY <1>9, SessionEnds DEF Kept, OverStays
  <2>2. user' \in [Ids -> UserRows \cup {NoUser}]
    BY <1>9 DEF TypeOK
  <2> QED BY <1>9, <2>1, <2>2, Writes
<1>10. ASSUME NEW c \in Clients, Logout(c) PROVE Inv' /\ OverStays
  <2>1. req[c].token \in Tokens /\ session[req[c].token] # NoSession
    BY <1>10, RequestTypes DEF Logout, Present
  <2> QED BY <1>10, <2>1, <1>9 DEF Logout
<1>11. ASSUME NEW t \in Tokens, Expire(t) PROVE Inv' /\ OverStays
  BY <1>11, <1>9 DEF Expire
<1>12. ASSUME NEW c \in Clients, NEW i \in Ids, NEW role \in Roles \cup {Keep},
              NEW status \in Statuses \cup {Keep}, UpdateRead(c, i, role, status)
       PROVE  Inv' /\ OverStays
  <2> DEFINE seen == IF i = req[c].id THEN req[c].seen ELSE user[i]
             r == [kind |-> "update", token |-> req[c].token, id |-> req[c].id, target |-> i,
                   seen |-> seen, role |-> role, status |-> status]
  <2>1. /\ req[c].token \in Tokens /\ req[c].id \in Ids /\ req[c].seen \in UserRows
        /\ session[req[c].token] # NoSession
    BY <1>12, RequestTypes DEF UpdateRead, Present
  <2>2. seen \in UserRows
    BY <1>12, <2>1 DEF UpdateRead, TypeOK
  <2>3. r \in Requests
    BY <2>1, <2>2 DEF Requests
  <2>4. r.kind = "update" /\ session[r.token] # NoSession /\ user[r.target] # NoUser
    BY <1>12, <2>1 DEF UpdateRead
  <2>5. req' = [req EXCEPT ![c] = r] /\ UNCHANGED <<user, session>>
    BY <1>12 DEF UpdateRead, Goto
  <2>6. Inv'
    BY <2>3, <2>4, <2>5, ReadsOnly
  <2> QED BY <2>5, <2>6 DEF OverStays
<1>13. ASSUME NEW c \in Clients, UpdateCommit(c) PROVE Inv' /\ OverStays
  <2> DEFINE q == req[c]
             role == SetColumn(user[q.target].role, q.seen.role, q.role)
             status == SetColumn(user[q.target].status, q.seen.status, q.status)
  <2>1. /\ q.target \in Ids /\ user[q.target] # NoUser
        /\ q.role \in Roles \cup {Keep} /\ q.status \in Statuses \cup {Keep}
    BY <1>13, RequestTypes DEF UpdateCommit, Present
  <2>2. user[q.target] \in UserRows
    BY <2>1 DEF TypeOK
  <2>3. role \in Roles /\ status \in Statuses
    BY <2>1, <2>2 DEF SetColumn, UserRows
  <2>4. UNCHANGED session /\ Answer(c)
    BY <1>13 DEF UpdateCommit
  <2>5. UNCHANGED user \/ user' = [user EXCEPT ![q.target].role = role, ![q.target].status = status]
    BY <1>13, <2>1, <2>2 DEF UpdateCommit, TypeOK, UserRows
  <2>6. [user[q.target] EXCEPT !.role = role, !.status = status] \in UserRows
    BY <2>2, <2>3 DEF UserRows
  <2>7. \/ UNCHANGED user
        \/ user' = [user EXCEPT ![q.target] = [user[q.target] EXCEPT !.role = role, !.status = status]]
    BY <2>5, <2>2 DEF TypeOK, UserRows
  <2>8. /\ user' \in [Ids -> UserRows \cup {NoUser}]
        /\ \A i \in Ids : user[i] # NoUser <=> user'[i] # NoUser
    BY <2>1, <2>6, <2>7, NullAssumption DEF TypeOK
  <2>9. Kept /\ session' \in [Tokens -> SessionRows \cup {NoSession}]
    BY <2>4 DEF Kept, TypeOK
  <2>10. Inv'
    BY <2>4, <2>8, <2>9, Writes
  <2> QED BY <2>4, <2>10 DEF OverStays
<1>14. ASSUME NEW c \in Clients, NEW i \in Ids, DeleteUser(c, i) PROVE Inv' /\ OverStays
  <2>1. UNCHANGED <<user, session>> /\ Answer(c)
    BY <1>14 DEF DeleteUser, Opened, Rows
  <2>2. Inv'
    BY <2>1, ReadsOnly DEF Answer
  <2> QED BY <2>1, <2>2 DEF OverStays
<1>15. CASE UNCHANGED vars
  BY <1>15 DEF vars, TypeOK, Opened, Present, At, OverStays
<1> QED BY <1>1, <1>2, <1>3, <1>4, <1>5, <1>6, <1>7, <1>8, <1>10, <1>11, <1>12, <1>13, <1>14, <1>15
        DEF Next, Step

(* Rows that a request is going to write exist; every user has a session.  *)
THEOREM AccountsInvariance == Spec => []Inv
<1>1. Inv /\ [Next]_vars => Inv'
  BY NextInv
<1> QED BY <1>1, InitInv, PTL DEF Spec

(* Users, sessions and requests are well typed; above all, no update       *)
(* writes to a user who is gone.                                           *)
THEOREM AccountsTypeCorrect == Spec => []TypeOK
<1>1. Inv => TypeOK
  BY DEF Inv
<1> QED BY <1>1, AccountsInvariance, PTL

(* For any number of requests in flight, a session that is revoked or      *)
(* expired stays so.                                                       *)
THEOREM RevocationsHold == Spec => OverStaysOver
<1>1. Inv /\ [Next]_vars =>
        [\A t \in Tokens :
           session[t] # NoSession =>
             /\ session'[t] # NoSession /\ session'[t].owner = session[t].owner
             /\ session[t].state = "over" => session'[t].state = "over"]_vars
  BY NextInv DEF OverStays
<1> QED BY <1>1, AccountsInvariance, PTL DEF Spec, OverStaysOver

-----------------------------------------------------------------------------
(* Sessions take turns. *)

Serving(c) == At(c, "handler") \/ At(c, "update")

(* A step in which no request enters its handler keeps the turns. *)
LEMMA NobodyEnters ==
  ASSUME SessionTakesTurns,
         \A c \in Clients : Serving(c)' => Serving(c) /\ req'[c].token = req[c].token
  PROVE  SessionTakesTurns'
BY DEF SessionTakesTurns, Serving

(* Entering a handler waits for the row of the session. *)
LEMMA TurnsKept ==
  ASSUME TypeOK, SessionTakesTurns, [Next]_vars
  PROVE  SessionTakesTurns'
<1>1. ASSUME NEW c \in Clients, NEW r, req' = [req EXCEPT ![c] = r],
             r = Idle \/ r.kind \notin {"handler", "update"} \/ (Serving(c) /\ r.token = req[c].token)
      PROVE  SessionTakesTurns'
  <2>1. \A d \in Clients : req'[d] = IF d = c THEN r ELSE req[d]
    BY <1>1 DEF TypeOK
  <2> QED BY <1>1, <2>1, NobodyEnters DEF Serving, At
<1>2. ASSUME NEW c \in Clients, Answer(c) PROVE SessionTakesTurns'
  BY <1>1, <1>2 DEF Answer
<1>3. ASSUME UNCHANGED req PROVE SessionTakesTurns'
  BY <1>3 DEF SessionTakesTurns, At
<1>4. ASSUME NEW c \in Clients, AuthReadUser(c) PROVE SessionTakesTurns'
  <2>1. CASE Answer(c)
    BY <1>2, <2>1
  <2>2. CASE ~Answer(c)
    <3> DEFINE i == req[c].seen.owner
               r == [kind |-> "handler", token |-> req[c].token, id |-> i, seen |-> user[i]]
    <3>1. \A d \in Clients : req'[d] = IF d = c THEN r ELSE req[d]
      BY <1>4, <2>2 DEF AuthReadUser, Goto, TypeOK
    <3>2. \A d \in Clients : Serving(d) => req[d].token # req[c].token
      BY <1>4 DEF AuthReadUser, Touch, Serving
    <3>3. \A d \in Clients : d # c => (Serving(d)' <=> Serving(d)) /\ req'[d] = req[d]
      BY <3>1 DEF Serving, At
    <3>4. req'[c].token = req[c].token
      BY <3>1
    <3> QED BY <3>2, <3>3, <3>4 DEF SessionTakesTurns, Serving
  <2> QED BY <2>1, <2>2
<1>5. ASSUME NEW c \in Clients, RegisterCheckEmail(c) PROVE SessionTakesTurns'
  <2>1. CASE Answer(c)
    BY <1>2, <2>1
  <2>2. CASE ~Answer(c)
    <3> DEFINE r == [kind |-> "emailFree", name |-> req[c].name, email |-> req[c].email]
    <3>1. req' = [req EXCEPT ![c] = r] /\ r.kind = "emailFree"
      BY <1>5, <2>2 DEF RegisterCheckEmail, Goto
    <3> QED BY <1>1, <3>1
  <2> QED BY <2>1, <2>2
<1>6. ASSUME NEW c \in Clients, NEW n, NEW e, RegisterCheckName(c, n, e) PROVE SessionTakesTurns'
  BY <1>1, <1>6 DEF RegisterCheckName, Goto
<1>7. ASSUME NEW c \in Clients, NEW i, LoginRead(c, i) PROVE SessionTakesTurns'
  BY <1>1, <1>7 DEF LoginRead, Goto
<1>8. ASSUME NEW c \in Clients, NEW t, AuthReadSession(c, t) PROVE SessionTakesTurns'
  BY <1>1, <1>8 DEF AuthReadSession, Goto
<1>9. ASSUME NEW c \in Clients, NEW i, NEW role, NEW status, UpdateRead(c, i, role, status)
      PROVE  SessionTakesTurns'
  BY <1>1, <1>9 DEF UpdateRead, Goto, Serving
<1>10. ASSUME NEW c \in Clients,
              \/ RegisterCommit(c) \/ LoginCommit(c) \/ OtherRequest(c) \/ Logout(c) \/ UpdateCommit(c)
              \/ \E i \in Ids : DeleteUser(c, i)
       PROVE  SessionTakesTurns'
  BY <1>2, <1>10 DEF RegisterCommit, LoginCommit, OtherRequest, Logout, UpdateCommit, DeleteUser
<1>11. ASSUME NEW t, Expire(t) PROVE SessionTakesTurns'
  BY <1>3, <1>11 DEF Expire
<1>12. CASE UNCHANGED vars
  BY <1>3, <1>12 DEF vars
<1> QED BY <1>4, <1>5, <1>6, <1>7, <1>8, <1>9, <1>10, <1>11, <1>12 DEF Next, Step

(* For any number of requests in flight, no two of one session are in      *)
(* their handlers at once.                                                 *)
THEOREM TurnsTaken == Spec => []SessionTakesTurns
<1>1. Init => SessionTakesTurns
  BY DEF Init, SessionTakesTurns, At
<1>2. TypeOK /\ SessionTakesTurns /\ [Next]_vars => SessionTakesTurns'
  BY TurnsKept
<1> QED BY <1>1, <1>2, AccountsTypeCorrect, PTL DEF Spec

-----------------------------------------------------------------------------
(* Names and addresses. *)

(* Only a registration brings a name or an address into the table. *)
LEMMA NamesStay ==
  ASSUME TypeOK, Present, [Next]_vars,
         ~\E c \in Clients : RegisterCommit(c)
  PROVE  \A i \in Ids : user'[i] # NoUser =>
           user[i] # NoUser /\ user'[i].name = user[i].name /\ user'[i].email = user[i].email
<1> DEFINE Same == \A i \in Ids : user'[i] # NoUser =>
             user[i] # NoUser /\ user'[i].name = user[i].name /\ user'[i].email = user[i].email
<1>1. ASSUME UNCHANGED user PROVE Same
  BY <1>1
<1>2. ASSUME NEW c \in Clients, UpdateCommit(c) PROVE Same
  <2> DEFINE q == req[c]
             role == SetColumn(user[q.target].role, q.seen.role, q.role)
             status == SetColumn(user[q.target].status, q.seen.status, q.status)
  <2>1. user[q.target] \in UserRows /\ q.target \in Ids /\ user[q.target] # NoUser
    BY <1>2, RequestTypes DEF UpdateCommit, Present, TypeOK
  <2>2. UNCHANGED user \/ user' = [user EXCEPT ![q.target].role = role, ![q.target].status = status]
    BY <1>2, <2>1 DEF UpdateCommit, TypeOK, UserRows
  <2>3. \/ UNCHANGED user
        \/ user' = [user EXCEPT ![q.target] = [user[q.target] EXCEPT !.role = role, !.status = status]]
    BY <2>1, <2>2 DEF TypeOK, UserRows
  <2> DEFINE row == [user[q.target] EXCEPT !.role = role, !.status = status]
  <2>4. row.name = user[q.target].name /\ row.email = user[q.target].email
    BY <2>1 DEF UserRows
  <2>5. UNCHANGED user \/ \A i \in Ids : user'[i] = IF i = q.target THEN row ELSE user[i]
    BY <2>1, <2>3 DEF TypeOK
  <2> HIDE DEF row
  <2> QED BY <2>1, <2>4, <2>5
<1>3. ASSUME NEW c \in Clients, NEW i \in Ids, DeleteUser(c, i) PROVE Same
  BY <1>3 DEF DeleteUser, TypeOK
<1>4. CASE Next
  BY <1>1, <1>2, <1>3, <1>4 DEF Next, Step, RegisterCheckName, RegisterCheckEmail, LoginRead, LoginCommit,
     LoginWrites, AuthReadSession, AuthReadUser, OtherRequest, Logout, UpdateRead, Expire
<1> QED BY <1>1, <1>4 DEF vars

(* A registration commits only a name and an address that no row has. *)
LEMMA UniqueKept ==
  ASSUME TypeOK, Present, UsersUnique, [Next]_vars
  PROVE  UsersUnique'
<1>1. ASSUME NEW c \in Clients, RegisterCommit(c) PROVE UsersUnique'
  <2>1. CASE Unique(req[c].name, req[c].email)
    <3> DEFINE row == [name |-> req[c].name, email |-> req[c].email, role |-> "user", status |-> "active"]
    <3>1. PICK i \in Ids \ Rows : user' = [user EXCEPT ![i] = row]
      BY <1>1, <2>1 DEF RegisterCommit
    <3>2. \A k \in Ids : user'[k] = IF k = i THEN row ELSE user[k]
      BY <3>1 DEF TypeOK
    <3>3. \A k \in Rows : user[k].name # row.name /\ user[k].email # row.email
      BY <2>1 DEF Unique
    <3> QED BY <3>2, <3>3 DEF UsersUnique, Rows
  <2>2. CASE ~Unique(req[c].name, req[c].email)
    BY <1>1, <2>2 DEF RegisterCommit, UsersUnique, Rows
  <2> QED BY <2>1, <2>2
<1>2. CASE ~\E c \in Clients : RegisterCommit(c)
  BY <1>2, NamesStay DEF UsersUnique, Rows
<1> QED BY <1>1, <1>2

(* For any number of registrations in flight, names and addresses stay     *)
(* unique.                                                                 *)
THEOREM NamesUnique == Spec => []UsersUnique
<1>1. Init => UsersUnique
  BY DEF Init, UsersUnique, Rows
<1>2. Inv /\ UsersUnique /\ [Next]_vars => UsersUnique'
  BY UniqueKept DEF Inv
<1> QED BY <1>1, <1>2, AccountsInvariance, PTL DEF Spec

-----------------------------------------------------------------------------
(* Role and status. *)

(* The change of a row that is answered for by the update q. *)
AnsweredFor(i, q) ==
  /\ user'[i].role # user[i].role => q.role = user'[i].role
  /\ user'[i].status # user[i].status => q.status = user'[i].status

(* A row changes role or status only by the update that is answered.       *)
LEMMA ChangesAreAnswered ==
  ASSUME TypeOK, Present, [Next]_vars, NEW i \in Rows, user'[i] # NoUser, user'[i] # user[i]
  PROVE  \E c \in Clients : At(c, "update") /\ req'[c] = Idle /\ req[c].target = i /\ AnsweredFor(i, req[c])
<1>1. ASSUME NEW c \in Clients, UpdateCommit(c)
      PROVE  At(c, "update") /\ req'[c] = Idle /\ req[c].target = i /\ AnsweredFor(i, req[c])
  <2> DEFINE q == req[c]
             role == SetColumn(user[q.target].role, q.seen.role, q.role)
             status == SetColumn(user[q.target].status, q.seen.status, q.status)
             row == [user[q.target] EXCEPT !.role = role, !.status = status]
  <2>1. user[q.target] \in UserRows /\ q.target \in Ids /\ user[q.target] # NoUser
    BY <1>1, RequestTypes DEF UpdateCommit, Present, TypeOK
  <2>2. UNCHANGED user \/ user' = [user EXCEPT ![q.target].role = role, ![q.target].status = status]
    BY <1>1, <2>1 DEF UpdateCommit, TypeOK, UserRows
  <2>3. UNCHANGED user \/ user' = [user EXCEPT ![q.target] = row]
    BY <2>1, <2>2 DEF TypeOK, UserRows
  <2>4. row.role = role /\ row.status = status
    BY <2>1 DEF UserRows
  <2>5. UNCHANGED user \/ \A k \in Ids : user'[k] = IF k = q.target THEN row ELSE user[k]
    BY <2>1, <2>3 DEF TypeOK
  <2>6. /\ role # user[q.target].role => role = q.role
        /\ status # user[q.target].status => status = q.status
    BY DEF SetColumn
  <2>7. At(c, "update") /\ req'[c] = Idle
    BY <1>1 DEF UpdateCommit, Answer, TypeOK
  <2> HIDE DEF row, role, status
  <2> QED BY <2>4, <2>5, <2>6, <2>7 DEF AnsweredFor, Rows
<1>2. ASSUME NEW c \in Clients, RegisterCommit(c) PROVE FALSE
  <2>1. UNCHANGED user \/ \E k \in Ids \ Rows : \E row : user' = [user EXCEPT ![k] = row]
    BY <1>2 DEF RegisterCommit
  <2> QED BY <2>1 DEF TypeOK, Rows
<1>3. ASSUME NEW c \in Clients, NEW k \in Ids, DeleteUser(c, k) PROVE FALSE
  BY <1>3 DEF DeleteUser, TypeOK, Rows
<1>4. ~UNCHANGED user
  OBVIOUS
<1> QED BY <1>1, <1>2, <1>3, <1>4 DEF Next, Step, RegisterCheckName, RegisterCheckEmail, LoginRead, LoginCommit,
     LoginWrites, AuthReadSession, AuthReadUser, OtherRequest, Logout, UpdateRead, Expire, vars

(* For any number of requests in flight, no login and no update of another *)
(* column undoes a suspension or a promotion.                              *)
THEOREM NothingUndone == Spec => OnlyWhatWasAskedFor
<1> DEFINE Asked(q, i) == q.kind = "update" /\ q.target = i
           Served == {req[c] : c \in {d \in Clients : req[d] # Idle /\ req'[d] = Idle}}
           Step1 == \A i \in Rows : user'[i] # NoUser =>
             /\ user'[i].role # user[i].role =>
                  \E q \in Served : Asked(q, i) /\ q.role = user'[i].role
             /\ user'[i].status # user[i].status =>
                  \E q \in Served : Asked(q, i) /\ q.status = user'[i].status
<1>1. ASSUME Inv, [Next]_vars PROVE Step1
  <2> SUFFICES ASSUME NEW i \in Rows, user'[i] # NoUser, user'[i] # user[i]
               PROVE  /\ user'[i].role # user[i].role =>
                           \E q \in Served : Asked(q, i) /\ q.role = user'[i].role
                      /\ user'[i].status # user[i].status =>
                           \E q \in Served : Asked(q, i) /\ q.status = user'[i].status
    OBVIOUS
  <2>1. PICK c \in Clients : /\ At(c, "update") /\ req'[c] = Idle /\ req[c].target = i
                            /\ AnsweredFor(i, req[c])
    BY <1>1, ChangesAreAnswered DEF Inv
  <2>2. req[c] \in Served /\ Asked(req[c], i)
    BY <2>1 DEF At
  <2> QED BY <2>1, <2>2 DEF AnsweredFor
<1>2. Inv /\ [Next]_vars =>
        [\A i \in Rows :
           LET A(q) == q.kind = "update" /\ q.target = i
               S == {req[c] : c \in {d \in Clients : req[d] # Idle /\ req'[d] = Idle}}
           IN user'[i] # NoUser =>
                /\ user'[i].role # user[i].role => \E q \in S : A(q) /\ q.role = user'[i].role
                /\ user'[i].status # user[i].status => \E q \in S : A(q) /\ q.status = user'[i].status]_vars
  BY <1>1
<1> QED BY <1>2, AccountsInvariance, PTL DEF Spec, OnlyWhatWasAskedFor

-----------------------------------------------------------------------------
(* The last administrator. *)

(* Who stays is active and an administrator; the administrator who serves  *)
(* an update of somebody else stays.                                       *)
LEMMA LastAdminGoes ==
  ASSUME Inv, [Next]_vars, Admins # {}, Admins' = {}
  PROVE  \E c \in Clients :
           /\ At(c, "update") /\ req'[c] = Idle
           /\ req[c].id \in Admins => req[c].target = req[c].id /\ req[c].status = "suspended"
<1>1. PICK i \in Admins : TRUE
  OBVIOUS
<1>2. \A k \in Admins : k \in Ids /\ user'[k] # user[k]
  <2> SUFFICES ASSUME NEW k \in Admins, user'[k] = user[k] PROVE FALSE
    BY DEF Admins, Rows
  <2>1. k \in Admins'
    BY DEF Admins, Rows
  <2> QED BY <2>1
<1>3. ASSUME NEW c \in Clients, UpdateCommit(c)
      PROVE  req[c].id \in Admins => req[c].target = req[c].id /\ req[c].status = "suspended"
  <2> DEFINE q == req[c]
  <2>1. user[q.target] \in UserRows /\ q.target \in Ids /\ user[q.target] # NoUser
    BY <1>3, RequestTypes DEF Inv, UpdateCommit, Present, TypeOK
  <2> SUFFICES ASSUME q.id \in Admins
               PROVE  q.target = q.id /\ q.status = "suspended"
    OBVIOUS
  <2>2. user' # user
    BY <1>1, <1>2
  <2>3. /\ ~Refused(q)
        /\ user' = [user EXCEPT ![q.target].role = SetColumn(@, q.seen.role, q.role),
                                ![q.target].status = SetColumn(@, q.seen.status, q.status)]
    BY <1>3, <2>2 DEF UpdateCommit
  <2>4. \A k \in Ids : k # q.target => user'[k] = user[k]
    BY <2>1, <2>3 DEF Inv, TypeOK
  <2>5. q.target = q.id
    BY <1>2, <2>4
  <2>6. q.role \in {"admin", Keep}
    BY <1>3, <2>3, <2>5, RequestTypes DEF Inv, Refused, Roles, UpdateCommit
  <2>7. /\ user[q.target].role = "admin" /\ user[q.target].status = "active"
    BY <2>5 DEF Admins
  <2> DEFINE role == SetColumn(user[q.target].role, q.seen.role, q.role)
             status == SetColumn(user[q.target].status, q.seen.status, q.status)
             row == [user[q.target] EXCEPT !.role = role, !.status = status]
  <2>8. user' = [user EXCEPT ![q.target].role = role, ![q.target].status = status]
    BY <2>1, <2>3 DEF Inv, TypeOK, UserRows
  <2>9. user' = [user EXCEPT ![q.target] = row]
    BY <2>1, <2>8 DEF Inv, TypeOK, UserRows
  <2>10. /\ role = "admin"
         /\ status = "active" \/ status = q.status
    BY <2>6, <2>7 DEF SetColumn
  <2>11. q.status \in Statuses \cup {Keep} /\ (status = q.status /\ status # "active" => q.status \in Statuses)
    <3>1. q.status \in Statuses \cup {Keep}
      BY <1>3, RequestTypes DEF Inv, UpdateCommit
    <3>2. q.status = Keep => status = "active"
      BY <2>7 DEF SetColumn
    <3> QED BY <3>1, <3>2
  <2>12. row \in UserRows /\ row.role = role /\ row.status = status
    <3>1. role \in Roles /\ status \in Statuses
      BY <2>10, <2>11 DEF Roles, Statuses
    <3> QED BY <2>1, <3>1 DEF UserRows
  <2>13. user'[q.target] = row
    BY <2>1, <2>9 DEF Inv, TypeOK
  <2>14. status # "active"
    <3> HIDE DEF role, status, row
    <3> SUFFICES ASSUME status = "active" PROVE FALSE
      OBVIOUS
    <3>1. user'[q.target] # NoUser /\ user'[q.target].role = "admin" /\ user'[q.target].status = "active"
      BY <2>10, <2>12, <2>13, NullAssumption
    <3>2. q.target \in Admins'
      BY <2>1, <3>1 DEF Admins, Rows
    <3> QED BY <3>2
  <2> HIDE DEF role, status, row
  <2> QED BY <2>5, <2>10, <2>11, <2>14 DEF Statuses
<1>4. ASSUME NEW c \in Clients, NEW k \in Ids, DeleteUser(c, k) PROVE UNCHANGED user
  BY <1>4 DEF DeleteUser, Inv, Opened, Rows
<1>5. ASSUME NEW c \in Clients, RegisterCommit(c) PROVE FALSE
  <2>1. UNCHANGED user \/ \E k \in Ids \ Rows : \E row : user' = [user EXCEPT ![k] = row]
    BY <1>5 DEF RegisterCommit
  <2> QED BY <1>1, <1>2, <2>1 DEF Inv, TypeOK, Admins
<1>6. PICK c \in Clients : UpdateCommit(c)
  <2>1. ~UNCHANGED user
    BY <1>1, <1>2
  <2> QED
    BY <1>4, <1>5, <2>1 DEF Next, Step, RegisterCheckName, RegisterCheckEmail, LoginRead,
       LoginCommit, LoginWrites, AuthReadSession, AuthReadUser, OtherRequest, Logout, UpdateRead,
       Expire, vars
<1> QED
  BY <1>3, <1>6 DEF UpdateCommit, Answer, Inv, TypeOK

(* For any number of administrators and of requests in flight: whoever     *)
(* leaves the system without an administrator suspends himself, or has     *)
(* lost his own rights between his authentication and his commit.          *)
THEOREM LastAdminLeaves == Spec => AdminsLastOut
<1>1. Inv /\ [Next]_vars =>
        [Admins # {} /\ Admins' = {} =>
           \E c \in Clients :
             /\ At(c, "update") /\ req'[c] = Idle
             /\ req[c].id \in Admins =>
                  req[c].target = req[c].id /\ req[c].status = "suspended"]_vars
  BY LastAdminGoes
<1> QED BY <1>1, AccountsInvariance, PTL DEF Spec, AdminsLastOut
=============================================================================
