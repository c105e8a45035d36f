--------------------------- MODULE UserAccess_proofs ---------------------------
(***************************************************************************)
(* Proofs about UserAccess, for any names, subjects, requests, sessions    *)
(* and tokens and any number of changes: the types with the uniqueness of  *)
(* names, that rights end with the row that gave them, and that            *)
(* administrators come from administrators.                                *)
(***************************************************************************)
EXTENDS UserAccess, TLAPS

\* The history records what happened: nobody has got a right unearned, and no
\* change of a user is later than the last one.
HistoryOK(h) ==
  /\ h \in [epoch : Nat, changed : [UserIds -> Nat], admins : SUBSET UserIds,
            unearned : SUBSET UserIds]
  /\ h.unearned = {}
  /\ \A u \in UserIds : h.changed[u] <= h.epoch

Distinct(u, v) ==
  /\ user[u].name # user[v].name
  /\ user[u].sub # NoSub => user[u].sub # user[v].sub

UsersOK ==
  /\ user \in [UserIds -> Row]
  /\ \A u, v \in Here : u # v => Distinct(u, v)
  /\ \A u \in Here : user[u].role = "admin" => u \in history.admins

LinksOK ==
  /\ session \in [Sessions -> Here \cup {NoUser}]
  /\ token \in [Tokens -> Here \cup {NoUser}]

(***************************************************************************)
(* RightsAreCurrent is inductive together with the types, but who made an  *)
(* administrator depends on the role a request carries: it has one only    *)
(* while it acts, and if that is "admin" its user has been one.            *)
(***************************************************************************)

Current(q) ==
  \/ q.user \in Here /\ user[q.user].role = q.role
  \/ history.changed[q.user] > q.began

Good(q) ==
  /\ q \in Request
  /\ q.began <= history.epoch
  /\ q.pc # "act" => q.role = "none"
  /\ q.pc = "act" => q.user \in UserIds /\ Current(q)
  /\ q.role = "admin" => q.user \in history.admins
  /\ q.pc = "provision" => q.sub \in Subjects

RequestsOK ==
  /\ req \in [Requests -> Request]
  /\ \A r \in Requests : Good(req[r])

AccessInv == HistoryOK(history) /\ UsersOK /\ LinksOK /\ RequestsOK

LEMMA InvImplies == AccessInv => TypeOK /\ RightsAreCurrent /\ AdminsComeFromAdmins
<1> SUFFICES ASSUME AccessInv PROVE TypeOK /\ RightsAreCurrent /\ AdminsComeFromAdmins
  OBVIOUS
<1>1. TypeOK
  BY DEF AccessInv, HistoryOK, UsersOK, LinksOK, RequestsOK, Distinct, TypeOK
<1>2. RightsAreCurrent
  BY DEF AccessInv, RequestsOK, Good, Current, RightsAreCurrent
<1>3. AdminsComeFromAdmins
  BY DEF AccessInv, HistoryOK, AdminsComeFromAdmins
<1>4. QED
  BY <1>1, <1>2, <1>3

LEMMA IdsArePositive == UserIds \subseteq Nat /\ NoUser \notin UserIds
  BY AccessAssumption DEF UserIds, NoUser

LEMMA IdleGood == HistoryOK(history) => Good(Idle)
  BY DEF HistoryOK, Good, Idle, Request, Roles

LEMMA AccessInit == Init => AccessInv
<1> SUFFICES ASSUME Init PROVE AccessInv
  OBVIOUS
<1>1. HistoryOK(history)
  BY DEF Init, HistoryOK
<1>2. Here = {}
  BY DEF Init, Here, NoRow
<1>3. UsersOK
  BY <1>2 DEF Init, UsersOK, Row, NoRow
<1>4. LinksOK
  BY DEF Init, LinksOK
<1>5. Idle \in Request
  BY DEF Idle, Request
<1>6. RequestsOK
  BY <1>1, <1>5, IdleGood DEF Init, RequestsOK
<1>7. QED
  BY <1>1, <1>3, <1>4, <1>6 DEF AccessInv

--------------------------------------------------------------------------------
(* Steps that change only requests                                         *)

\* One request becomes another good one.
LEMMA OneRequest ==
  ASSUME AccessInv, NEW r \in Requests, NEW q, Good(q), req' = [req EXCEPT ![r] = q],
         UNCHANGED <<user, session, token, history>>
  PROVE  AccessInv'
<1>1. HistoryOK(history)' /\ UsersOK' /\ LinksOK'
  BY DEF AccessInv, HistoryOK, UsersOK, LinksOK, Here, Distinct
<1>2. \A s \in Requests : Good(req'[s])
  BY DEF AccessInv, RequestsOK
<1>3. RequestsOK'
  BY <1>2 DEF AccessInv, RequestsOK, Good, Current, Here
<1>4. QED
  BY <1>1, <1>3 DEF AccessInv

\* A request that does not act: only its fields have to be right.
LEMMA QuietGood ==
  ASSUME AccessInv, NEW q \in Request, q.pc # "act", q.role = "none",
         q.began <= history.epoch, q.pc = "provision" => q.sub \in Subjects
  PROVE  Good(q)
  BY DEF Good

LEMMA Reading ==
  ASSUME AccessInv, NEW r \in Requests,
         \/ SetupCount(r) \/ LoginRead(r) \/ OidcRead(r) \/ MiddlewareSession(r)
         \/ CliRead(r) \/ EnrollRead(r)
  PROVE  AccessInv'
<1>1. req[r] \in Request /\ Good(req[r]) /\ req[r].pc = "idle" /\ req[r].role = "none"
      /\ req[r].began <= history.epoch /\ history.epoch \in Nat
  BY DEF AccessInv, HistoryOK, RequestsOK, Good, SetupCount, LoginRead, OidcRead,
         MiddlewareSession, CliRead, EnrollRead
<1>2. PICK q \in Request : /\ q.pc # "act" /\ q.role = "none" /\ q.began <= history.epoch
                           /\ q.pc = "provision" => q.sub \in Subjects
                           /\ req' = [req EXCEPT ![r] = q]
  <2>1. CASE SetupCount(r)
    <3>1. [req[r] EXCEPT !.pc = "setup"] \in Request
      BY <1>1 DEF Request
    <3>2. req' = [req EXCEPT ![r] = [req[r] EXCEPT !.pc = "setup"]]
      BY <2>1 DEF SetupCount
    <3>3. QED
      BY <1>1, <3>1, <3>2 DEF Request
  <2>2. CASE LoginRead(r) \/ CliRead(r)
    <3>1. PICK u \in Here, pc \in {"session", "cli"} :
            req' = [req EXCEPT ![r] = [req[r] EXCEPT !.pc = pc, !.user = u]]
      BY <2>2 DEF LoginRead, CliRead
    <3>2. [req[r] EXCEPT !.pc = pc, !.user = u] \in Request
      BY <1>1 DEF Request, Here
    <3>3. QED
      BY <1>1, <3>1, <3>2 DEF Request
  <2>3. CASE OidcRead(r)
    <3>1. PICK s \in Subjects :
            \/ \E u \in Here :
                 req' = [req EXCEPT ![r] = [req[r] EXCEPT !.pc = "session", !.user = u]]
            \/ req' = [req EXCEPT ![r] = [req[r] EXCEPT !.pc = "provision", !.sub = s]]
      BY <2>3 DEF OidcRead
    <3>2. \A u \in Here : [req[r] EXCEPT !.pc = "session", !.user = u] \in Request
      BY <1>1 DEF Request, Here
    <3>3. [req[r] EXCEPT !.pc = "provision", !.sub = s] \in Request
      BY <1>1 DEF Request
    <3>4. QED
      BY <1>1, <3>1, <3>2, <3>3 DEF Request
  <2>4. CASE MiddlewareSession(r)
    <3>1. PICK k \in Sessions : session[k] # NoUser /\
            req' = [req EXCEPT ![r] = [Idle EXCEPT !.pc = "user", !.user = session[k],
                                                   !.began = history.epoch]]
      BY <2>4 DEF MiddlewareSession
    <3>2. session[k] \in UserIds
      BY <3>1 DEF AccessInv, LinksOK, Here
    <3>3. PICK q : q = [Idle EXCEPT !.pc = "user", !.user = session[k],
                                    !.began = history.epoch]
      OBVIOUS
    <3>4. /\ q \in Request /\ q.pc = "user" /\ q.role = "none"
          /\ q.began = history.epoch
      BY <1>1, <3>2, <3>3 DEF Request, Idle
    <3>5. q.pc # "act" /\ q.pc # "provision" /\ q.began <= history.epoch
      BY <1>1, <3>4
    <3>6. req' = [req EXCEPT ![r] = q]
      BY <3>1, <3>3
    <3>7. QED
      BY <3>4, <3>5, <3>6
  <2>5. CASE EnrollRead(r)
    <3>1. PICK t \in Tokens :
            req' = [req EXCEPT ![r] = [req[r] EXCEPT !.pc = "sign", !.token = t]]
      BY <2>5 DEF EnrollRead
    <3>2. [req[r] EXCEPT !.pc = "sign", !.token = t] \in Request
      BY <1>1 DEF Request
    <3>3. QED
      BY <1>1, <3>1, <3>2 DEF Request
  <2>6. QED
    BY <2>1, <2>2, <2>3, <2>4, <2>5
<1>3. UNCHANGED <<user, session, token, history>>
  BY DEF SetupCount, LoginRead, OidcRead, MiddlewareSession, CliRead, EnrollRead
<1>4. QED
  BY <1>2, <1>3, QuietGood, OneRequest

LEMMA GettingRights ==
  ASSUME AccessInv, NEW r \in Requests, MiddlewareUser(r)
  PROVE  AccessInv'
<1> DEFINE u == req[r].user
           q == [req[r] EXCEPT !.pc = "act", !.role = user[u].role]
<1>1. /\ u \in Here /\ req' = [req EXCEPT ![r] = q]
      /\ UNCHANGED <<user, session, token, history>>
  BY DEF MiddlewareUser, RoleOf
<1>2. req[r] \in Request /\ req[r].began <= history.epoch /\ u \in UserIds
      /\ user[u].role \in Roles \cup {"none"}
  BY <1>1 DEF AccessInv, RequestsOK, UsersOK, Good, Here, Row
<1>3. q \in Request /\ q.user = u /\ q.role = user[u].role /\ q.began = req[r].began
      /\ q.pc = "act"
  BY <1>2 DEF Request
<1>4. q.role = "admin" => u \in history.admins
  BY <1>1, <1>3 DEF AccessInv, UsersOK
<1>5. Good(q)
  BY <1>1, <1>2, <1>3, <1>4 DEF Good, Current
<1>6. QED
  BY <1>1, <1>5, OneRequest

LEMMA Ending ==
  ASSUME AccessInv, NEW r \in Requests, EnrollConsume(r) \/ EndEarly(r)
  PROVE  AccessInv'
<1>1. Good(Idle)
  BY IdleGood DEF AccessInv
<1>2. QED
  BY <1>1, OneRequest DEF EnrollConsume, EndEarly, Ends

LEMMA Restarting == AccessInv /\ Restart => AccessInv'
<1> SUFFICES ASSUME AccessInv, Restart PROVE AccessInv'
  OBVIOUS
<1>1. HistoryOK(history)' /\ UsersOK' /\ LinksOK'
  BY DEF Restart, AccessInv, HistoryOK, UsersOK, LinksOK, Here, Distinct
<1>2. Good(Idle)
  BY IdleGood DEF AccessInv
<1>3. req' \in [Requests -> Request] /\ \A r \in Requests : Good(req'[r])
  BY <1>2 DEF Restart, AccessInv, RequestsOK, Good
<1>4. RequestsOK'
  BY <1>3 DEF Restart, RequestsOK, Good, Current, Here
<1>5. QED
  BY <1>1, <1>4 DEF AccessInv

--------------------------------------------------------------------------------
(* Steps that change sessions and tokens                                   *)

LEMMA Linking ==
  ASSUME AccessInv, LinksOK',
         UNCHANGED <<user, history>>,
         \/ UNCHANGED req
         \/ \E r \in Requests : Ends(r)
  PROVE  AccessInv'
<1>1. HistoryOK(history)' /\ UsersOK'
  BY DEF AccessInv, HistoryOK, UsersOK, Here, Distinct
<1>2. Good(Idle)
  BY IdleGood DEF AccessInv
<1>3. req' \in [Requests -> Request] /\ \A r \in Requests : Good(req'[r])
  BY <1>2 DEF AccessInv, RequestsOK, Ends, Good
<1>4. RequestsOK'
  BY <1>3 DEF RequestsOK, Good, Current, Here
<1>5. QED
  BY <1>1, <1>4 DEF AccessInv

LEMMA Sessioning ==
  ASSUME AccessInv, NEW r \in Requests,
         \/ CreateSession(r) \/ HandleCreateEnrollmentToken(r)
         \/ HandleDeleteEnrollmentToken(r)
  PROVE  AccessInv'
<1>1. UNCHANGED <<user, history>> /\ Ends(r)
  BY DEF CreateSession, HandleCreateEnrollmentToken, HandleDeleteEnrollmentToken
<1>2. Here' = Here
  BY <1>1 DEF Here
<1>3. LinksOK'
  BY <1>2 DEF AccessInv, LinksOK, CreateSession, HandleCreateEnrollmentToken,
              HandleDeleteEnrollmentToken
<1>4. QED
  BY <1>1, <1>3, Linking

LEMMA Expiring ==
  ASSUME AccessInv,
         \/ \E k \in Sessions : EndSession(k)
         \/ \E t \in Tokens : TokenExpires(t)
  PROVE  AccessInv'
<1>1. UNCHANGED <<user, history, req>>
  BY DEF EndSession, TokenExpires
<1>2. Here' = Here
  BY <1>1 DEF Here
<1>3. LinksOK'
  BY <1>2 DEF AccessInv, LinksOK, EndSession, TokenExpires
<1>4. QED
  BY <1>1, <1>3, Linking

--------------------------------------------------------------------------------
(* Steps that change users                                                 *)

LEMMA Granting ==
  ASSUME NEW h, HistoryOK(h), NEW u \in UserIds, NEW role, NEW by,
         role = "admin" => by = NoUser \/ by \in h.admins
  PROVE  /\ HistoryOK(Granted(h, u, role, by))
         /\ h.admins \subseteq Granted(h, u, role, by).admins
         /\ role = "admin" => u \in Granted(h, u, role, by).admins
         /\ Granted(h, u, role, by).epoch = h.epoch
         /\ Granted(h, u, role, by).changed = h.changed
<1>1. CASE role = "admin"
  <2>1. Granted(h, u, role, by) = [h EXCEPT !.admins = h.admins \cup {u},
                                            !.unearned = h.unearned]
    BY <1>1 DEF Granted
  <2>2. h.admins \cup {u} \in SUBSET UserIds
    BY DEF HistoryOK
  <2>3. PICK A \in SUBSET UserIds : A = h.admins \cup {u}
    BY <2>2
  <2>4. Granted(h, u, role, by) = [h EXCEPT !.admins = A]
    BY <2>1, <2>3 DEF HistoryOK
  <2>5. /\ HistoryOK([h EXCEPT !.admins = A])
        /\ [h EXCEPT !.admins = A].admins = A
        /\ [h EXCEPT !.admins = A].epoch = h.epoch
        /\ [h EXCEPT !.admins = A].changed = h.changed
    BY DEF HistoryOK
  <2>6. QED
    BY <2>3, <2>4, <2>5
<1>2. CASE role # "admin"
  BY <1>2 DEF Granted
<1>3. QED
  BY <1>1, <1>2

LEMMA Changing ==
  ASSUME NEW h, HistoryOK(h), NEW u \in UserIds
  PROVE  /\ HistoryOK(Changed(h, u))
         /\ Changed(h, u).admins = h.admins
         /\ Changed(h, u).epoch = h.epoch + 1
         /\ Changed(h, u).changed = [h.changed EXCEPT ![u] = h.epoch + 1]
<1>1. Changed(h, u) = [h EXCEPT !.epoch = h.epoch + 1,
                                !.changed = [h.changed EXCEPT ![u] = h.epoch + 1]]
  BY DEF Changed, HistoryOK
<1>2. h.epoch \in Nat /\ h.changed \in [UserIds -> Nat]
  BY DEF HistoryOK
<1>3. [h.changed EXCEPT ![u] = h.epoch + 1] \in [UserIds -> Nat]
  BY <1>2
<1>4. \A v \in UserIds : [h.changed EXCEPT ![u] = h.epoch + 1][v] <= h.epoch + 1
  BY <1>2 DEF HistoryOK
<1>5. QED
  BY <1>1, <1>2, <1>3, <1>4 DEF HistoryOK

\* An administrator acts for somebody who has been one.
LEMMA Administering ==
  ASSUME AccessInv, NEW r \in Requests, MayAdminister(r)
  PROVE  req[r].user \in history.admins
<1>1. req[r] \in Request /\ Good(req[r])
  BY DEF AccessInv, RequestsOK
<1>2. req[r].role \in Roles \cup {"none"}
  BY <1>1 DEF Request
<1>3. Rank(req[r].role) >= 3
  BY DEF MayAdminister, HasRole, Rank
<1>4. req[r].role = "admin"
  BY <1>2, <1>3 DEF Rank, Roles
<1>5. QED
  BY <1>1, <1>4 DEF Good

\* A new row takes nothing from anybody.
LEMMA GoodAfterCreate ==
  ASSUME AccessInv, NEW q, Good(q),
         \A v \in Here : v \in Here' /\ user'[v] = user[v],
         history'.epoch = history.epoch, history'.changed = history.changed,
         history.admins \subseteq history'.admins
  PROVE  Good(q)'
  BY DEF Good, Current

LEMMA Creating ==
  ASSUME AccessInv, NEW u \in UserIds, NEW n \in Names, NEW role \in Roles,
         NEW password \in BOOLEAN, NEW s \in Subjects \cup {NoSub}, NEW by,
         Unique(n, s), CreateUser(u, n, role, password, s),
         history' = Granted(history, u, role, by),
         role = "admin" => by = NoUser \/ by \in history.admins,
         UNCHANGED <<session, token>>
  PROVE  /\ HistoryOK(history') /\ UsersOK' /\ LinksOK'
         /\ u \in UserIds
         /\ \A q : Good(q) => Good(q)'
<1>1. /\ HistoryOK(history') /\ history.admins \subseteq history'.admins
      /\ role = "admin" => u \in history'.admins
      /\ history'.epoch = history.epoch /\ history'.changed = history.changed
  BY Granting DEF AccessInv
<1>2. user \in [UserIds -> Row] /\ user[u].state = "unused"
  BY DEF AccessInv, UsersOK, CreateUser, Fresh
<1>3. user' \in [UserIds -> Row]
  BY <1>2 DEF CreateUser, Row
<1>4. /\ user'[u].state = "here" /\ user'[u].name = n /\ user'[u].role = role
      /\ user'[u].sub = s /\ \A v \in UserIds \ {u} : user'[v] = user[v]
  BY <1>2 DEF CreateUser
<1>5. Here' = Here \cup {u} /\ u \notin Here
  BY <1>2, <1>3, <1>4 DEF Here
<1>6. \A v \in Here : v \in Here' /\ user'[v] = user[v]
  BY <1>4, <1>5 DEF Here
<1>7. \A v, w \in Here' : v # w => Distinct(v, w)'
  <2> SUFFICES ASSUME NEW v \in Here', NEW w \in Here', v # w PROVE Distinct(v, w)'
    OBVIOUS
  <2>1. CASE v \in Here /\ w \in Here
    BY <1>6, <2>1 DEF AccessInv, UsersOK, Distinct
  <2>2. CASE v = u
    <3>1. w \in Here /\ user'[w] = user[w]
      BY <1>5, <1>6, <2>2
    <3>2. user[w].name # n /\ (s = NoSub \/ user[w].sub # s)
      BY <3>1 DEF Unique
    <3>3. QED
      BY <1>4, <2>2, <3>1, <3>2 DEF Distinct
  <2>3. CASE w = u
    <3>1. v \in Here /\ user'[v] = user[v]
      BY <1>5, <1>6, <2>3
    <3>2. user[v].name # n /\ (s = NoSub \/ user[v].sub # s)
      BY <3>1 DEF Unique
    <3>3. QED
      BY <1>4, <2>3, <3>1, <3>2 DEF Distinct
  <2>4. QED
    BY <1>5, <2>1, <2>2, <2>3
<1>8. \A v \in Here' : user'[v].role = "admin" => v \in history'.admins
  BY <1>1, <1>4, <1>5, <1>6 DEF AccessInv, UsersOK
<1>9. UsersOK'
  BY <1>3, <1>7, <1>8 DEF UsersOK
<1>10. LinksOK'
  BY <1>5 DEF AccessInv, LinksOK
<1>11. \A q : Good(q) => Good(q)'
  BY <1>1, <1>6, GoodAfterCreate
<1>12. QED
  BY <1>1, <1>9, <1>10, <1>11

LEMMA GoodAfterChange ==
  ASSUME AccessInv, NEW q, Good(q), NEW u \in UserIds,
         \A v \in Here \ {u} : v \in Here' /\ user'[v] = user[v],
         history'.epoch = history.epoch + 1,
         history'.changed = [history.changed EXCEPT ![u] = history.epoch + 1],
         history.admins \subseteq history'.admins
  PROVE  Good(q)'
<1>1. history.epoch \in Nat /\ history.changed \in [UserIds -> Nat]
      /\ q.began \in Nat /\ q.began <= history.epoch
  BY DEF AccessInv, HistoryOK, Good, Request
<1>2. q.pc = "act" => Current(q)'
  <2> SUFFICES ASSUME q.pc = "act" PROVE Current(q)'
    OBVIOUS
  <2>1. q.user \in UserIds /\ Current(q)
    BY DEF Good
  <2>2. CASE q.user = u
    BY <1>1, <2>1, <2>2 DEF Current
  <2>3. CASE q.user # u
    BY <1>1, <2>1, <2>3 DEF Current
  <2>4. QED
    BY <2>2, <2>3
<1>3. q.began <= history'.epoch
  BY <1>1
<1>4. QED
  BY <1>2, <1>3 DEF Good

LEMMA Deleting ==
  ASSUME AccessInv, NEW u \in Here, DeleteUser(u), history' = Changed(history, u)
  PROVE  /\ HistoryOK(history') /\ UsersOK' /\ LinksOK'
         /\ \A q : Good(q) => Good(q)'
<1>0. u \in UserIds /\ user \in [UserIds -> Row]
  BY DEF Here, AccessInv, UsersOK
<1>1. /\ HistoryOK(history') /\ history'.admins = history.admins
      /\ history'.epoch = history.epoch + 1
      /\ history'.changed = [history.changed EXCEPT ![u] = history.epoch + 1]
  BY <1>0, Changing DEF AccessInv
<1>2. user' \in [UserIds -> Row]
  BY <1>0 DEF DeleteUser, Row, NoRow
<1>3. Here' = Here \ {u} /\ \A v \in Here' : user'[v] = user[v]
  BY <1>0, <1>2 DEF DeleteUser, Here, NoRow
<1>4. UsersOK'
  BY <1>1, <1>2, <1>3 DEF AccessInv, UsersOK, Distinct
<1>5. LinksOK'
  BY <1>3 DEF AccessInv, LinksOK, DeleteUser
<1>6. \A q : Good(q) => Good(q)'
  BY <1>0, <1>1, <1>3, GoodAfterChange
<1>7. QED
  BY <1>1, <1>4, <1>5, <1>6

LEMMA ChangingRole ==
  ASSUME AccessInv, NEW u \in Here, NEW role \in Roles, NEW by,
         UpdateUserRole(u, role),
         history' = Granted(Changed(history, u), u, role, by),
         role = "admin" => by = NoUser \/ by \in history.admins,
         UNCHANGED <<session, token>>
  PROVE  /\ HistoryOK(history') /\ UsersOK' /\ LinksOK'
         /\ \A q : Good(q) => Good(q)'
<1>0. u \in UserIds /\ user \in [UserIds -> Row]
  BY DEF Here, AccessInv, UsersOK
<1>1. PICK h : h = Changed(history, u)
  OBVIOUS
<1>2. /\ HistoryOK(h) /\ h.admins = history.admins /\ h.epoch = history.epoch + 1
      /\ h.changed = [history.changed EXCEPT ![u] = history.epoch + 1]
  BY <1>0, <1>1, Changing DEF AccessInv
<1>3. /\ HistoryOK(history') /\ history.admins \subseteq history'.admins
      /\ role = "admin" => u \in history'.admins
      /\ history'.epoch = h.epoch /\ history'.changed = h.changed
  BY <1>0, <1>1, <1>2, Granting
<1>4. user' \in [UserIds -> Row]
  BY <1>0 DEF UpdateUserRole, Row
<1>5. /\ user'[u].state = user[u].state /\ user'[u].name = user[u].name
      /\ user'[u].sub = user[u].sub /\ user'[u].role = role
      /\ \A v \in UserIds \ {u} : user'[v] = user[v]
  BY <1>0 DEF UpdateUserRole, Row
<1>6. Here' = Here /\ \A v \in Here : v \in UserIds
  BY <1>0, <1>4, <1>5 DEF Here
<1>7. \A v \in Here : user'[v].name = user[v].name /\ user'[v].sub = user[v].sub
  BY <1>5, <1>6
<1>8. UsersOK'
  BY <1>3, <1>4, <1>5, <1>6, <1>7 DEF AccessInv, UsersOK, Distinct
<1>9. LinksOK'
  BY <1>6 DEF AccessInv, LinksOK
<1>10. \A q : Good(q) => Good(q)'
  BY <1>0, <1>2, <1>3, <1>5, <1>6, GoodAfterChange
<1>11. QED
  BY <1>3, <1>8, <1>9, <1>10

\* After a change of the users every request is a good one again.
LEMMA Served ==
  ASSUME AccessInv, HistoryOK(history'), UsersOK', LinksOK',
         \A q : Good(q) => Good(q)',
         req' \in [Requests -> Request], \A r \in Requests : Good(req'[r])
  PROVE  AccessInv'
<1>1. \A r \in Requests : Good(req[r])'
  <2> SUFFICES ASSUME NEW r \in Requests PROVE Good(req[r])'
    OBVIOUS
  <2>1. PICK q : q = req'[r]
    OBVIOUS
  <2>2. Good(q)'
    BY <2>1
  <2>3. QED
    BY <2>1, <2>2 DEF Good, Current
<1>2. RequestsOK'
  BY <1>1 DEF RequestsOK
<1>3. QED
  BY <1>2 DEF AccessInv, HistoryOK

\* The request that made the change ends.
LEMMA Settling ==
  ASSUME AccessInv, HistoryOK(history'), UsersOK', LinksOK',
         \A q : Good(q) => Good(q)',
         \/ UNCHANGED req
         \/ \E r \in Requests : Ends(r)
  PROVE  AccessInv'
<1>1. Good(Idle)
  BY IdleGood DEF AccessInv
<1>2. req' \in [Requests -> Request] /\ \A r \in Requests : Good(req'[r])
  BY <1>1 DEF AccessInv, RequestsOK, Ends, Good
<1>3. QED
  BY <1>2, Served

LEMMA CreatingSteps ==
  ASSUME AccessInv, CliUserAdd \/ \E r \in Requests : SetupCreate(r) \/ HandleCreateUser(r)
  PROVE  AccessInv'
<1>1. CASE CliUserAdd
  <2>1. PICK n \in Names, u \in UserIds, role \in Roles :
          /\ Unique(n, NoSub) /\ CreateUser(u, n, role, FALSE, NoSub)
          /\ history' = Granted(history, u, role, NoUser)
    BY <1>1 DEF CliUserAdd
  <2>2. UNCHANGED <<session, token, req>>
    BY <1>1 DEF CliUserAdd
  <2>3. HistoryOK(history') /\ UsersOK' /\ LinksOK' /\ \A q : Good(q) => Good(q)'
    BY <2>1, <2>2, Creating
  <2>4. QED
    BY <2>2, <2>3, Settling
<1>2. ASSUME NEW r \in Requests, SetupCreate(r) PROVE AccessInv'
  <2>1. PICK n \in Names, u \in UserIds :
          /\ Unique(n, NoSub) /\ CreateUser(u, n, "admin", TRUE, NoSub)
          /\ history' = Granted(history, u, "admin", NoUser)
    BY <1>2 DEF SetupCreate
  <2>2. UNCHANGED <<session, token>> /\ Ends(r)
    BY <1>2 DEF SetupCreate
  <2>3. HistoryOK(history') /\ UsersOK' /\ LinksOK' /\ \A q : Good(q) => Good(q)'
    BY <2>1, <2>2, Creating DEF Roles
  <2>4. QED
    BY <2>2, <2>3, Settling
<1>3. ASSUME NEW r \in Requests, HandleCreateUser(r) PROVE AccessInv'
  <2>1. PICK n \in Names, u \in UserIds, role \in Roles, password \in BOOLEAN :
          /\ Unique(n, NoSub) /\ CreateUser(u, n, role, password, NoSub)
          /\ history' = Granted(history, u, role, req[r].user)
    BY <1>3 DEF HandleCreateUser
  <2>2. UNCHANGED <<session, token>> /\ Ends(r) /\ req[r].user \in history.admins
    BY <1>3, Administering DEF HandleCreateUser
  <2>3. PICK by : by = req[r].user
    OBVIOUS
  <2>4. HistoryOK(history') /\ UsersOK' /\ LinksOK' /\ \A q : Good(q) => Good(q)'
    BY <2>1, <2>2, <2>3, Creating
  <2>5. QED
    BY <2>2, <2>4, Settling
<1>4. QED
  BY <1>1, <1>2, <1>3

\* A new account of the provider is a viewer; its request goes on to a session.
LEMMA Provisioning ==
  ASSUME AccessInv, NEW r \in Requests, OidcProvision(r)
  PROVE  AccessInv'
<1>1. PICK s : s = req[r].sub
  OBVIOUS
<1>2. PICK u \in UserIds :
        /\ CreateUser(u, NameOf[s], "viewer", FALSE, s)
        /\ req' = [req EXCEPT ![r] = [req[r] EXCEPT !.pc = "session", !.user = u]]
        /\ history' = Granted(history, u, "viewer", u)
  BY <1>1 DEF OidcProvision, ProvisionedRole
<1>3. Unique(NameOf[s], s) /\ UNCHANGED <<session, token>> /\ req[r].pc = "provision"
  BY <1>1 DEF OidcProvision
<1>4. req[r] \in Request /\ req[r].role = "none" /\ req[r].began <= history.epoch
  BY <1>3 DEF AccessInv, RequestsOK, Good
<1>5. s \in Subjects
  BY <1>1, <1>3 DEF AccessInv, RequestsOK, Good
<1>6. NameOf[s] \in Names
  BY <1>5, AccessAssumption
<1>7. HistoryOK(history') /\ UsersOK' /\ LinksOK' /\ \A q : Good(q) => Good(q)'
  BY <1>2, <1>3, <1>5, <1>6, Creating DEF Roles
<1>8. PICK q : q = [req[r] EXCEPT !.pc = "session", !.user = u]
  OBVIOUS
<1>9. Good(q)
  BY <1>4, <1>8 DEF Good, Request
<1>10. req' \in [Requests -> Request] /\ \A t \in Requests : Good(req'[t])
  BY <1>2, <1>8, <1>9 DEF AccessInv, RequestsOK, Good
<1>11. QED
  BY <1>7, <1>10, Served

LEMMA DeletingSteps ==
  ASSUME AccessInv, NEW r \in Requests, HandleDeleteUser(r) \/ CliDelete(r)
  PROVE  AccessInv'
<1>1. PICK u \in Here : DeleteUser(u) /\ history' = Changed(history, u)
  BY DEF HandleDeleteUser, CliDelete
<1>2. Ends(r)
  BY DEF HandleDeleteUser, CliDelete
<1>3. HistoryOK(history') /\ UsersOK' /\ LinksOK' /\ \A q : Good(q) => Good(q)'
  BY <1>1, Deleting
<1>4. QED
  BY <1>2, <1>3, Settling

LEMMA RoleSteps ==
  ASSUME AccessInv, NEW r \in Requests, HandleUpdateUserRole(r) \/ CliSetRole(r)
  PROVE  AccessInv'
<1>1. PICK u, role, by :
        /\ u \in Here /\ role \in Roles
        /\ UpdateUserRole(u, role)
        /\ history' = Granted(Changed(history, u), u, role, by)
        /\ by = NoUser \/ by \in history.admins
  <2>1. CASE HandleUpdateUserRole(r)
    BY <2>1, Administering DEF HandleUpdateUserRole
  <2>2. CASE CliSetRole(r)
    BY <2>2 DEF CliSetRole
  <2>3. QED
    BY <2>1, <2>2
<1>2. Ends(r) /\ UNCHANGED <<session, token>>
  BY DEF HandleUpdateUserRole, CliSetRole
<1>3. HistoryOK(history') /\ UsersOK' /\ LinksOK' /\ \A q : Good(q) => Good(q)'
  BY <1>1, <1>2, ChangingRole
<1>4. QED
  BY <1>2, <1>3, Settling

LEMMA AccessStep == AccessInv /\ [Next]_vars => AccessInv'
<1> SUFFICES ASSUME AccessInv, [Next]_vars PROVE AccessInv'
  OBVIOUS
<1>1. CASE UNCHANGED vars
  <2>1. LinksOK'
    BY <1>1 DEF vars, AccessInv, LinksOK, Here
  <2>2. QED
    BY <1>1, <2>1, Linking DEF vars
<1>2. ASSUME NEW r \in Requests, SignIn(r) PROVE AccessInv'
  BY <1>2, Reading, GettingRights, CreatingSteps, Provisioning, Sessioning DEF SignIn
<1>3. ASSUME NEW r \in Requests, Administer(r) \/ Cli(r) PROVE AccessInv'
  BY <1>3, Reading, CreatingSteps, DeletingSteps, RoleSteps, Sessioning DEF Administer, Cli
<1>4. ASSUME NEW r \in Requests, Enroll(r) \/ EndEarly(r) PROVE AccessInv'
  BY <1>4, Reading, Ending DEF Enroll
<1>5. QED
  BY <1>1, <1>2, <1>3, <1>4, CreatingSteps, Expiring, Restarting DEF Next

\* Rows, sessions, tokens and requests keep their types: names and subjects stay
\* unique and nothing belongs to a user who is gone, however requests interleave.
THEOREM TypeCorrect == Spec => []TypeOK
  BY AccessInit, AccessStep, InvImplies, PTL DEF Spec

\* A request acts with a role that its user had at some moment since it began,
\* for any number of users, requests and changes.
THEOREM RightsAreCurrentHolds == Spec => []RightsAreCurrent
  BY AccessInit, AccessStep, InvImplies, PTL DEF Spec

\* Every administrator was made by one who had been an administrator, by the
\* setup or by the command line.
THEOREM AdminsComeFromAdminsHolds == Spec => []AdminsComeFromAdmins
  BY AccessInit, AccessStep, InvImplies, PTL DEF Spec

================================================================================
