------------------------------ MODULE Accounts ------------------------------
(***************************************************************************)
(* Users and sessions: registration, login, logout, the authentication of  *)
(* every other request (app/auth.py, app/api/auth.py) and the              *)
(* administration of users (app/api/admin.py).  A request is one           *)
(* transaction; it reads, decides on what it loaded, and writes only the   *)
(* columns it assigned.                                                    *)
(***************************************************************************)
EXTENDS Integers, FiniteSets

CONSTANTS
  Ids,       \* users.id
  Names,     \* usernames
  Emails,    \* e-mail addresses
  Tokens,    \* user_sessions, by their token; one per session that is ever opened
  Clients,   \* the requests that can be in flight at once
  Root,      \* the first user, whom an operator has made administrator
  RootName,
  RootEmail,
  NoUser,    \* no row
  NoSession,
  Idle       \* no request in flight

ASSUME RootAssumption == Root \in Ids /\ RootName \in Names /\ RootEmail \in Emails

Roles == {"admin", "user"}
Statuses == {"active", "suspended"}
Keep == "keep"  \* the field is not in the body of the request

VARIABLES
  user,     \* users
  session,  \* user_sessions
  req       \* the request of each client

vars == <<user, session, req>>

UserRows == [name : Names, email : Emails, role : Roles, status : Statuses]
(* A session is over when revoked_at is set or expires_at has passed. *)
SessionRows == [owner : Ids, state : {"valid", "over"}]
Requests ==
  [kind : {"nameFree", "emailFree"}, name : Names, email : Emails]
  \cup [kind : {"login"}, id : Ids, seen : UserRows]
  \cup [kind : {"token"}, token : Tokens, seen : SessionRows]
  \cup [kind : {"handler"}, token : Tokens, id : Ids, seen : UserRows]
  \cup [kind : {"update"}, token : Tokens, id : Ids, target : Ids, seen : UserRows,
         role : Roles \cup {Keep}, status : Statuses \cup {Keep}]

ASSUME NullAssumption ==
  NoUser \notin UserRows /\ NoSession \notin SessionRows /\ Idle \notin Requests

TypeOK ==
  /\ user \in [Ids -> UserRows \cup {NoUser}]
  /\ session \in [Tokens -> SessionRows \cup {NoSession}]
  /\ req \in [Clients -> Requests \cup {Idle}]

Init ==
  /\ user = [i \in Ids |->
               IF i = Root THEN [name |-> RootName, email |-> RootEmail,
                                 role |-> "admin", status |-> "active"]
               ELSE NoUser]
  /\ \E t \in Tokens :
       session = [s \in Tokens |->
                    IF s = t THEN [owner |-> Root, state |-> "valid"] ELSE NoSession]
  /\ req = [c \in Clients |-> Idle]

Rows == {i \in Ids : user[i] # NoUser}
At(c, kind) == req[c] # Idle /\ req[c].kind = kind
Answer(c) == req' = [req EXCEPT ![c] = Idle]
Goto(c, r) == req' = [req EXCEPT ![c] = r]

(* A new session gets a token that no session has had. *)
OpenSession(i) ==
  \E t \in Tokens :
    /\ session[t] = NoSession
    /\ session' = [session EXCEPT ![t] = [owner |-> i, state |-> "valid"]]

-----------------------------------------------------------------------------
(* POST /auth/register: two reads, then user and session in one commit *)

RegisterCheckName(c, n, e) ==
  /\ req[c] = Idle
  /\ \A i \in Rows : user[i].name # n
  /\ Goto(c, [kind |-> "nameFree", name |-> n, email |-> e])
  /\ UNCHANGED <<user, session>>

RegisterCheckEmail(c) ==
  /\ At(c, "nameFree")
  /\ IF \E i \in Rows : user[i].email = req[c].email
     THEN Answer(c)
     ELSE Goto(c, [kind |-> "emailFree", name |-> req[c].name, email |-> req[c].email])
  /\ UNCHANGED <<user, session>>

(* Mutant of Unique: only usernames have a unique index. *)
UniqueNamesOnly(n, e) == \A i \in Rows : user[i].name # n

(* UNIQUE (username), UNIQUE (email) *)
Unique(n, e) == \A i \in Rows : user[i].name # n /\ user[i].email # e

(* A row that another request inserted meanwhile makes the INSERT raise. *)
RegisterCommit(c) ==
  /\ At(c, "emailFree")
  /\ IF Unique(req[c].name, req[c].email)
     THEN \E i \in Ids \ Rows :
            /\ user' = [user EXCEPT ![i] = [name |-> req[c].name, email |-> req[c].email,
                                            role |-> "user", status |-> "active"]]
            /\ OpenSession(i)
     ELSE UNCHANGED <<user, session>>
  /\ Answer(c)

-----------------------------------------------------------------------------
(* POST /auth/login (with the right password; with a wrong one the count   *)
(* of failures is rolled back together with the request)                   *)

LoginRead(c, i) ==
  /\ req[c] = Idle
  /\ user[i] # NoUser /\ user[i].status = "active"
  /\ Goto(c, [kind |-> "login", id |-> i, seen |-> user[i]])
  /\ UNCHANGED <<user, session>>

(* Mutant of LoginWrites: the row is written as it was loaded. *)
LoginWritesRow(c) == user' = [user EXCEPT ![req[c].id] = req[c].seen]

(* failed_login_attempts and last_login_at; no other column. *)
LoginWrites(c) == UNCHANGED user

LoginCommit(c) ==
  /\ At(c, "login")
  /\ LoginWrites(c)
  /\ OpenSession(req[c].id)
  /\ Answer(c)

-----------------------------------------------------------------------------
(* get_current_user *)

Expire(t) ==
  /\ session[t] # NoSession /\ session[t].state = "valid"
  /\ session' = [session EXCEPT ![t].state = "over"]
  /\ UNCHANGED <<user, req>>

AuthReadSession(c, t) ==
  /\ req[c] = Idle
  /\ session[t] # NoSession /\ session[t].state = "valid"
  /\ Goto(c, [kind |-> "token", token |-> t, seen |-> session[t]])
  /\ UNCHANGED <<user, session>>

(* Mutants of Touch: the whole row is written back; or nothing is flushed  *)
(* before the commit, so that nobody waits.                                *)
TouchWritesRow(c) ==
  /\ \A d \in Clients : (At(d, "handler") \/ At(d, "update")) => req[d].token # req[c].token
  /\ session' = [session EXCEPT ![req[c].token] = req[c].seen]
TouchLater(c) == UNCHANGED session

(* last_seen_at is flushed: the row of the session stays locked until the  *)
(* request commits, and another request of the session waits here.         *)
Touch(c) ==
  /\ \A d \in Clients : (At(d, "handler") \/ At(d, "update")) => req[d].token # req[c].token
  /\ UNCHANGED session

AuthReadUser(c) ==
  /\ At(c, "token")
  /\ Touch(c)
  /\ LET i == req[c].seen.owner IN
     IF user[i] # NoUser /\ user[i].status = "active"
     THEN Goto(c, [kind |-> "handler", token |-> req[c].token, id |-> i, seen |-> user[i]])
     ELSE Answer(c)
  /\ UNCHANGED user

-----------------------------------------------------------------------------
(* Handlers *)

(* Any other request ends without touching users or sessions. *)
OtherRequest(c) ==
  /\ At(c, "handler")
  /\ Answer(c)
  /\ UNCHANGED <<user, session>>

Logout(c) ==
  /\ At(c, "handler")
  /\ session' = [session EXCEPT ![req[c].token].state = "over"]
  /\ Answer(c)
  /\ UNCHANGED user

(* An administrator's own row is not loaded again. *)
UpdateRead(c, i, role, status) ==
  /\ At(c, "handler") /\ req[c].seen.role = "admin" /\ user[i] # NoUser
  /\ Goto(c, [kind |-> "update", token |-> req[c].token, id |-> req[c].id, target |-> i,
              seen |-> IF i = req[c].id THEN req[c].seen ELSE user[i],
              role |-> role, status |-> status])
  /\ UNCHANGED <<user, session>>

(* Mutants of SetColumn: the loaded value is written when none was sent;   *)
(* or what was sent, although nothing was.                                 *)
SetColumnAlways(current, loaded, sent) == IF sent = Keep THEN loaded ELSE sent
SetColumnUnset(current, loaded, sent) == IF sent = loaded THEN current ELSE sent

(* A column is written when a value was sent that differs from the one     *)
(* that was loaded.                                                        *)
SetColumn(current, loaded, sent) == IF sent \in {Keep, loaded} THEN current ELSE sent

(* Mutant of Refused: an administrator may give up his own role. *)
RefusedNever(q) == FALSE

(* Nobody demotes himself. *)
Refused(q) == q.target = q.id /\ q.role = "user"

UpdateCommit(c) ==
  LET q == req[c] IN
  /\ At(c, "update")
  /\ IF Refused(q)
     THEN UNCHANGED user
     ELSE user' = [user EXCEPT ![q.target].role = SetColumn(@, q.seen.role, q.role),
                               ![q.target].status = SetColumn(@, q.seen.status, q.status)]
  /\ Answer(c)
  /\ UNCHANGED session

(* The unit of work sets the owner of the sessions that it has loaded to   *)
(* NULL, which the column does not allow: a user who ever had a session    *)
(* cannot be deleted.                                                      *)
DeleteUser(c, i) ==
  /\ At(c, "handler") /\ req[c].seen.role = "admin"
  /\ i \in Rows \ {req[c].id}
  /\ user' = IF \E t \in Tokens : session[t] # NoSession /\ session[t].owner = i
             THEN user ELSE [user EXCEPT ![i] = NoUser]
  /\ Answer(c)
  /\ UNCHANGED session

Step(c) ==
  \/ \E n \in Names, e \in Emails : RegisterCheckName(c, n, e)
  \/ RegisterCheckEmail(c) \/ RegisterCommit(c)
  \/ (\E i \in Ids : LoginRead(c, i)) \/ LoginCommit(c)
  \/ (\E t \in Tokens : AuthReadSession(c, t)) \/ AuthReadUser(c)
  \/ OtherRequest(c) \/ Logout(c)
  \/ \E i \in Ids, r \in Roles \cup {Keep}, s \in Statuses \cup {Keep} : UpdateRead(c, i, r, s)
  \/ UpdateCommit(c)
  \/ \E i \in Ids : DeleteUser(c, i)

Next == (\E c \in Clients : Step(c)) \/ \E t \in Tokens : Expire(t)

Spec == Init /\ [][Next]_vars

-----------------------------------------------------------------------------
(* Properties *)

(* No two users share a name or an address, although two registrations may *)
(* both have found them free.                                              *)
UsersUnique ==
  \A i, k \in Rows : i # k => user[i].name # user[k].name /\ user[i].email # user[k].email

(* A session that is revoked or expired stays so: no request that loaded   *)
(* it while it was valid brings it back.                                   *)
OverStaysOver ==
  [][\A t \in Tokens :
       session[t] # NoSession =>
         /\ session'[t] # NoSession /\ session'[t].owner = session[t].owner
         /\ session[t].state = "over" => session'[t].state = "over"]_vars

(* Requests of one session take turns in their handlers: a logout waits    *)
(* until the request that is in its handler has committed.                 *)
SessionTakesTurns ==
  \A c, d \in Clients :
    c # d /\ (At(c, "handler") \/ At(c, "update")) /\ (At(d, "handler") \/ At(d, "update")) =>
      req[c].token # req[d].token

(* Role and status of a user change only to a value that an update of this *)
(* user asked for: neither a login nor an update of the other column       *)
(* undoes a suspension or a promotion that was committed meanwhile.        *)
OnlyWhatWasAskedFor ==
  [][\A i \in Rows :
       LET Asked(q) == q.kind = "update" /\ q.target = i
           Served == {req[c] : c \in {d \in Clients : req[d] # Idle /\ req'[d] = Idle}}
       IN user'[i] # NoUser =>
            /\ user'[i].role # user[i].role =>
                 \E q \in Served : Asked(q) /\ q.role = user'[i].role
            /\ user'[i].status # user[i].status =>
                 \E q \in Served : Asked(q) /\ q.status = user'[i].status]_vars

(* The last active administrator is lost in two ways only: he suspends     *)
(* himself, or an administrator whose own rights are withdrawn meanwhile   *)
(* still completes the update that he was admitted to.                     *)
Admins == {i \in Rows : user[i].role = "admin" /\ user[i].status = "active"}
AdminsLastOut ==
  [][Admins # {} /\ Admins' = {} =>
       \E c \in Clients :
         /\ At(c, "update") /\ req'[c] = Idle
         /\ req[c].id \in Admins => req[c].target = req[c].id /\ req[c].status = "suspended"]_vars
=============================================================================
