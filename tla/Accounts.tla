------------------------------ MODULE Accounts ------------------------------
(***************************************************************************)
(* Accounts and sessions: signup, login, logout and the two operations of  *)
(* the account page, as requests whose database statements are steps of    *)
(* their own.  A request is authorised from the row of its author as it is *)
(* at the first statement, and decides from rows it read before.           *)
(*                                                                         *)
(* Left out: passwords and display names, and requests that are refused    *)
(* before their first statement writes anything.                           *)
(***************************************************************************)
EXTENDS FiniteSets

CONSTANTS
  UserId, Email,   \* both plain text: they may overlap
  NoUser,
  ActiveText,      \* what is_active may arrive as
  Req              \* the requests of the account page and of signup


VARIABLES
  users,      \* the rows of users, by primary key
  sessions,   \* the accounts a browser holds a session cookie of
  req         \* the state of each request

vars == <<users, sessions, req>>

Role == {"admin", "user"}
Account == [email : Email, role : Role, active : BOOLEAN]
FormData == [email : Email, role : Role, active : ActiveText]

\* by, id and form are the author, the account the request is about and the
\* fields it sends; row is the row it decides from.
Request ==
  [pc : {"idle", "target", "email", "update", "byemail", "byid", "insert"},
   by : UserId, id : UserId, form : FormData, row : Account]

ASSUME AccountsAssumption ==
  /\ {"true", "false"} \subseteq ActiveText
  /\ NoUser \notin Account

Exists(u) == users[u] # NoUser
AdminRow(row) == row # NoUser /\ row.active /\ row.role = "admin"
Taken(e) == \E u \in UserId : Exists(u) /\ users[u].email = e

TypeOK ==
  /\ users \in [UserId -> Account \cup {NoUser}]
  /\ sessions \in SUBSET UserId
  /\ req \in [Req -> Request]

At(r, pc) == req[r].pc = pc
Goto(r, pc, by, id, form, row) ==
  req' = [req EXCEPT ![r] = [pc |-> pc, by |-> by, id |-> id, form |-> form, row |-> row]]
Proceed(r, pc, row) == Goto(r, pc, req[r].by, req[r].id, req[r].form, row)
Idle == CHOOSE q \in Request : q.pc = "idle"
Done(r) == req' = [req EXCEPT ![r] = Idle]

-----------------------------------------------------------------------------
\* authenticate_user: one statement finds the rows whose email or id it is, and
\* scalar_one_or_none fails if there are two.
Matches(name) == {u \in UserId : Exists(u) /\ (u = name \/ users[u].email = name)}

Login(u) ==
  /\ \E name \in UserId \cup Email : Matches(name) = {u}
  /\ users[u].active
  /\ sessions' = sessions \cup {u}
  /\ UNCHANGED <<users, req>>

\* The cookie is deleted in the browser; nothing is kept of it on the server.
Logout(u) ==
  /\ u \in sessions
  /\ sessions' = sessions \ {u}
  /\ UNCHANGED <<users, req>>

\* require_admin, from the cookie and the author's row.
Authorised(u) == u \in sessions /\ AdminRow(users[u])

-----------------------------------------------------------------------------
\* update_account: the author's row is read, the target not yet.
UpdateAccount(r) ==
  /\ At(r, "idle")
  /\ \E by \in UserId, id \in UserId, form \in FormData :
       Authorised(by) /\ Goto(r, "target", by, id, form, users[by])
  /\ UNCHANGED <<users, sessions>>

\* The row of the target: for the author's own account the session returns the
\* object it has.
TargetRow(r) == IF req[r].id = req[r].by THEN req[r].row ELSE users[req[r].id]

Retires(r) == req[r].form.role # req[r].row.role \/ req[r].form.active = "false"

\* 404 without a target, 400 for one's own role or deactivation.
\* Variants: one's own account is treated like any other; no 404.
LoadTargetAny(r) ==
  /\ At(r, "target")
  /\ \/ Exists(req[r].id) /\ Proceed(r, "email", TargetRow(r))
     \/ ~Exists(req[r].id) /\ Done(r)
  /\ UNCHANGED <<users, sessions>>
LoadTargetBlind(r) ==
  /\ At(r, "target")
  /\ ~(req[r].id = req[r].by /\ Retires(r))
  /\ Proceed(r, "email", TargetRow(r))
  /\ UNCHANGED <<users, sessions>>
LoadTarget(r) ==
  /\ At(r, "target")
  /\ LET refused == ~Exists(req[r].id) \/ (req[r].id = req[r].by /\ Retires(r))
     IN \/ ~refused /\ Proceed(r, "email", TargetRow(r))
        \/ refused /\ Done(r)
  /\ UNCHANGED <<users, sessions>>

\* 400 for another's email.
CheckEmail(r) ==
  /\ At(r, "email")
  /\ LET refused == req[r].form.email # req[r].row.email /\ Taken(req[r].form.email)
     IN \/ ~refused /\ Proceed(r, "update", req[r].row)
        \/ refused /\ Done(r)
  /\ UNCHANGED <<users, sessions>>

\* The UPDATE has the columns whose value is not the one that was read.
\* Variant: it has them all.
ChangedAll(read, now, new) == new
Changed(read, now, new) == IF new = read THEN now ELSE new
Written(r) ==
  LET now == users[req[r].id]  read == req[r].row  form == req[r].form
  IN [email  |-> Changed(read.email, now.email, form.email),
      role   |-> Changed(read.role, now.role, form.role),
      active |-> Changed(read.active, now.active, form.active = "true")]

\* The unique constraint on the email, for a row with this key.
Admits(u, e) == \A v \in UserId \ {u} : Exists(v) => users[v].email # e

\* The commit; 500 when the email was taken meanwhile.
\* Variant: no constraint, the check is trusted.
CommitUpdateTrusting(r) ==
  /\ At(r, "update")
  /\ users' = [users EXCEPT ![req[r].id] = Written(r)]
  /\ Done(r)
  /\ UNCHANGED sessions
CommitUpdate(r) ==
  /\ At(r, "update")
  /\ \/ /\ Admits(req[r].id, Written(r).email)
        /\ users' = [users EXCEPT ![req[r].id] = Written(r)]
     \/ ~Admits(req[r].id, Written(r).email) /\ UNCHANGED users
  /\ Done(r)
  /\ UNCHANGED sessions

-----------------------------------------------------------------------------
\* signup, by anybody, for the role "user", and create_account, by an
\* administrator, for any role: both call create_user.
Create(r) ==
  /\ At(r, "idle")
  /\ \E by \in UserId, id \in UserId, form \in FormData :
       /\ form.active = "true"
       /\ form.role = "user" \/ Authorised(by)
       /\ Goto(r, "byemail", by, id, form, Idle.row)
  /\ UNCHANGED <<users, sessions>>

\* The two checks of create_user, each a statement.
CheckNewEmail(r) ==
  /\ At(r, "byemail")
  /\ \/ ~Taken(req[r].form.email) /\ Proceed(r, "byid", req[r].row)
     \/ Taken(req[r].form.email) /\ Done(r)
  /\ UNCHANGED <<users, sessions>>

CheckNewId(r) ==
  /\ At(r, "byid")
  /\ \/ ~Exists(req[r].id) /\ Proceed(r, "insert", req[r].row)
     \/ Exists(req[r].id) /\ Done(r)
  /\ UNCHANGED <<users, sessions>>

\* The INSERT; 500 when the id or the email was taken meanwhile.
InsertAccount(r) ==
  LET id == req[r].id  form == req[r].form
      free == ~Exists(id) /\ Admits(id, form.email)
  IN /\ At(r, "insert")
     /\ \/ /\ free
           /\ users' = [users EXCEPT ![id] =
                          [email |-> form.email, role |-> form.role, active |-> TRUE]]
        \/ ~free /\ UNCHANGED users
     /\ Done(r)
     /\ UNCHANGED sessions

-----------------------------------------------------------------------------
\* One administrator, whose row the operator inserted by hand.
Init ==
  /\ \E u \in UserId, e \in Email :
       users = [v \in UserId |-> IF v = u THEN [email |-> e, role |-> "admin", active |-> TRUE]
                                          ELSE NoUser]
  /\ sessions = {}
  /\ req \in [Req -> {q \in Request : q.pc = "idle"}]
  /\ req = [r \in Req |-> Idle]

Next ==
  \/ \E u \in UserId : Login(u) \/ Logout(u)
  \/ \E r \in Req :
       \/ UpdateAccount(r) \/ LoadTarget(r) \/ CheckEmail(r) \/ CommitUpdate(r)
       \/ Create(r) \/ CheckNewEmail(r) \/ CheckNewId(r) \/ InsertAccount(r)

Spec == Init /\ [][Next]_vars

-----------------------------------------------------------------------------
\* No email belongs to two accounts, although the check for it and the write are
\* different statements ("이미 등록된 이메일입니다").
EmailsUnique ==
  \A u, v \in UserId :
    Exists(u) /\ Exists(v) /\ users[u].email = users[v].email => u = v

\* A request never changes the role or the state of its own author, however old
\* the row it decides from is ("자신의 역할/상태 변경 방지").
Commits(r) == At(r, "update") /\ req'[r].pc = "idle"
OwnStandingKept ==
  [][\A r \in Req : Commits(r) =>
       LET u == req[r].by
       IN /\ users'[u].role = users[u].role
          /\ users'[u].active = users[u].active]_vars

\* While administrators change accounts one after the other, whatever signups,
\* logins and new accounts go on meanwhile, somebody can still administer ("자신의
\* 역할/상태 변경 방지" keeps the one who acts).  Two who demote each other at the same
\* moment leave none.
AdminRemains == \E u \in UserId : AdminRow(users[u])
UpdatesOverlap ==
  \E q, r \in Req :
    /\ q # r
    /\ {req[q].pc, req[r].pc} \subseteq {"target", "email", "update"}
AdminStays == []~UpdatesOverlap => []AdminRemains

\* The last administrator goes only by a request whose author has meanwhile lost
\* the authority it was admitted with: nobody retires oneself, so whoever still
\* has it remains.
LastAdminKept ==
  [][AdminRemains /\ ~AdminRemains' =>
       \E r \in Req : Commits(r) /\ ~AdminRow(users[req[r].by])]_vars
=============================================================================
