------------------------------- MODULE UserAccess -------------------------------
(***************************************************************************)
(* Who may use the controller: the first-run setup, local and OIDC logins, *)
(* sessions, user administration over the API and the command line, and    *)
(* the one-time tokens for enrolling agents.  All of it is rows of users,  *)
(* sessions and enrollment_tokens, read and written one SQL statement at a *)
(* time, so an action below is one statement.  A request keeps what it has *)
(* read (a user id, a role) while other requests change the rows.          *)
(*                                                                         *)
(* X_Something before X is a seeded fault (README.md, section 2.2).        *)
(***************************************************************************)
EXTENDS Integers, FiniteSets

CONSTANTS
  Names,          \* usernames; each comes with an e-mail address of its own
  Subjects,       \* subjects of the OIDC provider
  NameOf,         \* NameOf[s]: the preferred_username the provider claims for s
  AutoProvision,  \* the setting auth.oidc.auto_provision
  Requests,       \* HTTP requests and commands that can be served at once
  Sessions,       \* session tokens; bounds how many are live at once
  Tokens,         \* enrollment tokens
  NoSub, NoToken,
  MaxUsers,       \* users ever created
  MaxChanges      \* role changes and deletions

ASSUME AccessAssumption ==
  /\ NameOf \in [Subjects -> Names]
  /\ AutoProvision \in BOOLEAN
  /\ NoSub \notin Subjects
  /\ NoToken \notin Tokens
  /\ MaxUsers \in Nat /\ MaxChanges \in Nat

VARIABLES
  user,       \* users: rows by id, in the order of creation
  session,    \* sessions: the owner of each live token
  token,      \* enrollment_tokens: who created each token, or NoUser
  req,        \* the requests being served
  history     \* auxiliary: role changes, and who has been an administrator

vars == <<user, session, token, req, history>>

--------------------------------------------------------------------------------
(* Rows and requests                                                       *)

UserIds == 1..MaxUsers
NoUser  == 0
Roles   == {"viewer", "operator", "admin"}

NoRow == [state |-> "unused", name |-> "", role |-> "none", password |-> FALSE,
          sub |-> NoSub]
Here == {u \in UserIds : user[u].state = "here"}
Admins == {u \in Here : user[u].role = "admin"}

Idle == [pc |-> "idle", user |-> NoUser, role |-> "none", sub |-> NoSub,
         token |-> NoToken, began |-> 0]
Ends(r) == req' = [req EXCEPT ![r] = Idle]

\* UUIDs are not used twice.
Fresh(u) == /\ user[u].state = "unused"
            /\ \A v \in UserIds : v < u => user[v].state # "unused"

\* username, email and oidc_sub are UNIQUE.
Unique_Subject(n, s) == \A v \in Here : s = NoSub \/ user[v].sub # s
Unique(n, s) == \A v \in Here : user[v].name # n /\ (s = NoSub \/ user[v].sub # s)

CreateUser(u, n, role, password, s) ==
  /\ Fresh(u)
  /\ user' = [user EXCEPT ![u] = [state |-> "here", name |-> n, role |-> role,
                                  password |-> password, sub |-> s]]

\* ON DELETE CASCADE takes the user's sessions and tokens along.
DeleteUser(u) ==
  /\ user' = [user EXCEPT ![u] = [NoRow EXCEPT !.state = "gone"]]
  /\ session' = [k \in Sessions |-> IF session[k] = u THEN NoUser ELSE session[k]]
  /\ token' = [t \in Tokens |-> IF token[t] = u THEN NoUser ELSE token[t]]

UpdateUserRole(u, role) == user' = [user EXCEPT ![u].role = role]

\* u gets a role from user "by", or from NoUser: setup and command line.
Granted(h, u, role, by) ==
  IF role = "admin"
  THEN [h EXCEPT !.admins = @ \cup {u},
                 !.unearned = IF by = NoUser \/ by \in h.admins THEN @ ELSE @ \cup {u}]
  ELSE h
Changed(h, u) == [h EXCEPT !.epoch = @ + 1, !.changed[u] = h.epoch + 1]

--------------------------------------------------------------------------------
(* POST /setup                                                             *)

\* With an administrator in the table the request is refused.
SetupCount(r) ==
  /\ req[r].pc = "idle"
  /\ Admins = {}
  /\ req' = [req EXCEPT ![r].pc = "setup"]
  /\ UNCHANGED <<user, session, token, history>>

SetupCreate(r) ==
  /\ req[r].pc = "setup"
  /\ \E n \in Names, u \in UserIds :
       /\ Unique(n, NoSub)
       /\ CreateUser(u, n, "admin", TRUE, NoSub)
       /\ history' = Granted(history, u, "admin", NoUser)
  /\ Ends(r)
  /\ UNCHANGED <<session, token>>

--------------------------------------------------------------------------------
(* Logging in and out                                                      *)

\* Wrong credentials, and accounts without a password, are refused.
LoginRead(r) ==
  /\ req[r].pc = "idle"
  /\ \E u \in Here :
       /\ user[u].password
       /\ req' = [req EXCEPT ![r].pc = "session", ![r].user = u]
  /\ UNCHANGED <<user, session, token, history>>

OidcRead(r) ==
  /\ req[r].pc = "idle"
  /\ \E s \in Subjects :
       \/ \E u \in Here :
            /\ user[u].sub = s
            /\ req' = [req EXCEPT ![r].pc = "session", ![r].user = u]
       \/ /\ \A u \in Here : user[u].sub # s
          /\ AutoProvision
          /\ req' = [req EXCEPT ![r].pc = "provision", ![r].sub = s]
  /\ UNCHANGED <<user, session, token, history>>

ProvisionedRole_Admin == "admin"
ProvisionedRole == "viewer"

OidcProvision(r) ==
  LET s == req[r].sub IN
  /\ req[r].pc = "provision"
  /\ Unique(NameOf[s], s)
  /\ \E u \in UserIds :
       /\ CreateUser(u, NameOf[s], ProvisionedRole, FALSE, s)
       /\ req' = [req EXCEPT ![r].pc = "session", ![r].user = u]
       /\ history' = Granted(history, u, ProvisionedRole, u)
  /\ UNCHANGED <<session, token>>

\* The foreign key refuses a session for a user deleted since the lookup.
CreateSession(r) ==
  /\ req[r].pc = "session"
  /\ req[r].user \in Here
  /\ \E k \in Sessions :
       /\ session[k] = NoUser
       /\ session' = [session EXCEPT ![k] = req[r].user]
  /\ Ends(r)
  /\ UNCHANGED <<user, token, history>>

\* A session ends by a logout, or expires: no statement returns it any more.
EndSession(k) ==
  /\ session[k] # NoUser
  /\ session' = [session EXCEPT ![k] = NoUser]
  /\ UNCHANGED <<user, token, req, history>>

--------------------------------------------------------------------------------
(* Requests with a session                                                 *)

MiddlewareSession(r) ==
  /\ req[r].pc = "idle"
  /\ \E k \in Sessions :
       /\ session[k] # NoUser
       /\ req' = [req EXCEPT ![r] = [Idle EXCEPT !.pc = "user",
                     !.user = session[k], !.began = history.epoch]]
  /\ UNCHANGED <<user, session, token, history>>

\* The role comes from the user's row, read by every request anew.
RoleOf_AtLogin(u) == IF u \in history.admins THEN "admin" ELSE user[u].role
RoleOf(u) == user[u].role

MiddlewareUser(r) ==
  LET u == req[r].user IN
  /\ req[r].pc = "user"
  /\ u \in Here
  /\ req' = [req EXCEPT ![r].pc = "act", ![r].role = RoleOf(u)]
  /\ UNCHANGED <<user, session, token, history>>

Rank(role) == CASE role = "viewer" -> 1 [] role = "operator" -> 2
                [] role = "admin" -> 3 [] OTHER -> 0
HasRole_OneLess(role, min) == Rank(role) + 1 >= Rank(min)
HasRole(role, min) == Rank(role) >= Rank(min)

\* The handlers behind RequireRole("admin"): each is one statement.
MayAdminister(r) == req[r].pc = "act" /\ HasRole(req[r].role, "admin")

HandleCreateUser(r) ==
  /\ MayAdminister(r)
  /\ \E n \in Names, u \in UserIds, role \in Roles, password \in BOOLEAN :
       /\ Unique(n, NoSub)
       /\ CreateUser(u, n, role, password, NoSub)
       /\ history' = Granted(history, u, role, req[r].user)
  /\ Ends(r)
  /\ UNCHANGED <<session, token>>

HandleDeleteUser(r) ==
  /\ MayAdminister(r)
  /\ history.epoch < MaxChanges
  /\ \E u \in Here : DeleteUser(u) /\ history' = Changed(history, u)
  /\ Ends(r)

HandleUpdateUserRole(r) ==
  /\ MayAdminister(r)
  /\ history.epoch < MaxChanges
  /\ \E u \in Here, role \in Roles :
       /\ UpdateUserRole(u, role)
       /\ history' = Granted(Changed(history, u), u, role, req[r].user)
  /\ Ends(r)
  /\ UNCHANGED <<session, token>>

\* created_by refers to the caller, who may have been deleted meanwhile.
HandleCreateEnrollmentToken(r) ==
  /\ MayAdminister(r)
  /\ req[r].user \in Here
  /\ \E t \in Tokens :
       /\ token[t] = NoUser
       /\ token' = [token EXCEPT ![t] = req[r].user]
  /\ Ends(r)
  /\ UNCHANGED <<user, session, history>>

HandleDeleteEnrollmentToken(r) ==
  /\ MayAdminister(r)
  /\ \E t \in Tokens :
       /\ token[t] # NoUser
       /\ token' = [token EXCEPT ![t] = NoUser]
  /\ Ends(r)
  /\ UNCHANGED <<user, session, history>>

--------------------------------------------------------------------------------
(* controller user add | delete | set-role                                 *)

\* The password of "user add" is required but not stored.
CliUserAdd ==
  /\ \E n \in Names, u \in UserIds, role \in Roles :
       /\ Unique(n, NoSub)
       /\ CreateUser(u, n, role, FALSE, NoSub)
       /\ history' = Granted(history, u, role, NoUser)
  /\ UNCHANGED <<session, token, req>>

CliRead(r) ==
  /\ req[r].pc = "idle"
  /\ \E u \in Here : req' = [req EXCEPT ![r].pc = "cli", ![r].user = u]
  /\ UNCHANGED <<user, session, token, history>>

CliDelete(r) ==
  LET u == req[r].user IN
  /\ req[r].pc = "cli"
  /\ history.epoch < MaxChanges
  /\ u \in Here
  /\ DeleteUser(u)
  /\ history' = Changed(history, u)
  /\ Ends(r)

CliSetRole(r) ==
  LET u == req[r].user IN
  /\ req[r].pc = "cli"
  /\ history.epoch < MaxChanges
  /\ u \in Here
  /\ \E role \in Roles :
       /\ UpdateUserRole(u, role)
       /\ history' = Granted(Changed(history, u), u, role, NoUser)
  /\ Ends(r)
  /\ UNCHANGED <<session, token>>

--------------------------------------------------------------------------------
(* POST /api/v1/agent/enroll                                               *)

EnrollRead(r) ==
  /\ req[r].pc = "idle"
  /\ \E t \in Tokens :
       /\ token[t] # NoUser
       /\ req' = [req EXCEPT ![r].pc = "sign", ![r].token = t]
  /\ UNCHANGED <<user, session, token, history>>

\* ConsumeEnrollmentToken writes the token's own id into used_by, which refers
\* to agents: the UPDATE is refused, or finds no row because the token has
\* expired or been deleted.  The request fails and the certificate just signed
\* is thrown away.
EnrollConsume(r) ==
  /\ req[r].pc = "sign"
  /\ Ends(r)
  /\ UNCHANGED <<user, session, token, history>>

\* The row stays, but no statement returns it.
TokenExpires(t) ==
  /\ token[t] # NoUser
  /\ token' = [token EXCEPT ![t] = NoUser]
  /\ UNCHANGED <<user, session, req, history>>

--------------------------------------------------------------------------------
\* A request ends early: a statement is refused (a name that is taken, a row
\* that is gone), the role does not suffice, or its client goes away.
EndEarly(r) ==
  /\ req[r].pc # "idle"
  /\ Ends(r)
  /\ UNCHANGED <<user, session, token, history>>

\* The controller restarts; commands are processes of their own.
Restart ==
  /\ req' = [r \in Requests |-> IF req[r].pc = "cli" THEN req[r] ELSE Idle]
  /\ UNCHANGED <<user, session, token, history>>

Init ==
  /\ user = [u \in UserIds |-> NoRow]
  /\ session = [k \in Sessions |-> NoUser]
  /\ token = [t \in Tokens |-> NoUser]
  /\ req = [r \in Requests |-> Idle]
  /\ history = [epoch |-> 0, changed |-> [u \in UserIds |-> 0], admins |-> {},
                unearned |-> {}]

SignIn(r) ==
  \/ SetupCount(r) \/ SetupCreate(r)
  \/ LoginRead(r) \/ OidcRead(r) \/ OidcProvision(r) \/ CreateSession(r)
  \/ MiddlewareSession(r) \/ MiddlewareUser(r)

Administer(r) ==
  \/ HandleCreateUser(r) \/ HandleDeleteUser(r) \/ HandleUpdateUserRole(r)
  \/ HandleCreateEnrollmentToken(r) \/ HandleDeleteEnrollmentToken(r)

Cli(r) == CliRead(r) \/ CliDelete(r) \/ CliSetRole(r)

Enroll(r) == EnrollRead(r) \/ EnrollConsume(r)

Next ==
  \/ \E r \in Requests : SignIn(r) \/ Administer(r) \/ Cli(r) \/ Enroll(r) \/ EndEarly(r)
  \/ CliUserAdd
  \/ \E k \in Sessions : EndSession(k)
  \/ \E t \in Tokens : TokenExpires(t)
  \/ Restart

Spec == Init /\ [][Next]_vars

--------------------------------------------------------------------------------
(* Properties                                                              *)

Row == [state : {"unused", "here", "gone"}, name : Names \cup {""},
        role : Roles \cup {"none"}, password : BOOLEAN, sub : Subjects \cup {NoSub}]
Request == [pc : {"idle", "setup", "session", "provision", "user", "act", "cli", "sign"},
            user : UserIds \cup {NoUser}, role : Roles \cup {"none"},
            sub : Subjects \cup {NoSub}, token : Tokens \cup {NoToken}, began : Nat]

\* Types; and sessions and tokens belong to users in the table, names and
\* subjects to one user each.
TypeOK ==
  /\ user \in [UserIds -> Row]
  /\ session \in [Sessions -> Here \cup {NoUser}]
  /\ token \in [Tokens -> Here \cup {NoUser}]
  /\ req \in [Requests -> Request]
  /\ history \in [epoch : Nat, changed : [UserIds -> Nat], admins : SUBSET UserIds,
                  unearned : SUBSET UserIds]
  /\ \A u, v \in Here : u # v =>
       /\ user[u].name # user[v].name
       /\ user[u].sub # NoSub => user[u].sub # user[v].sub

\* Rights end with the row that gave them: a request acts with a role its user
\* had at some moment since the request began.  Whoever was demoted or deleted
\* before that has no request that still acts with the old role, whatever
\* sessions, logins in progress and new accounts there are.
RightsAreCurrent ==
  \A r \in Requests : req[r].pc = "act" =>
    LET u == req[r].user IN
      \/ u \in Here /\ user[u].role = req[r].role
      \/ history.changed[u] > req[r].began

\* Nobody becomes an administrator by a chain of calls that no administrator
\* took part in, whether by an account of the OIDC provider, by a role change or
\* by a request that outlives its user's rights: whoever made him one had been
\* one before, or it was the setup or the command line.
AdminsComeFromAdmins == history.unearned = {}

================================================================================
