--------------------------- MODULE AccountsProofs ---------------------------
(***************************************************************************)
(* Proofs about Accounts: types, unique emails, that no request changes    *)
(* its author's standing and who alone can remove the last administrator,  *)
(* for any number of concurrent requests; and that an active administrator *)
(* remains as long as no two updates overlap.                              *)
(***************************************************************************)
EXTENDS Accounts, TLAPS

\* The account page sends one of the two values of its select.
FormValuesOnly == ActiveText = {"true", "false"}

-----------------------------------------------------------------------------
\* Rows are never deleted: the target of a request that was found stays.
TargetsExist == \A r \in Req : req[r].pc \in {"email", "update"} => Exists(req[r].id)

TypeInv == TypeOK /\ TargetsExist

LEMMA IdleType ==
  ASSUME NEW q \in Request
  PROVE  Idle \in Request /\ Idle.pc = "idle"
<1> DEFINE i == [pc |-> "idle", by |-> q.by, id |-> q.id, form |-> q.form, row |-> q.row]
<1>1. i \in Request /\ i.pc = "idle"
  BY DEF Request
<1> QED
  BY <1>1 DEF Idle

LEMMA WrittenType ==
  ASSUME TypeInv, NEW r \in Req, At(r, "update")
  PROVE  Written(r) \in Account
<1>1. users[req[r].id] \in Account /\ req[r].row \in Account /\ req[r].form \in FormData
  BY DEF TypeInv, TypeOK, TargetsExist, Exists, At, Request
<1> QED
  BY <1>1 DEF Written, Changed, Account, FormData

\* What every action does to the two variables.
LEMMA GotoType ==
  ASSUME TypeInv, NEW r \in Req, UNCHANGED <<users, sessions>>,
         NEW q \in Request, q.pc \in {"email", "update"} => Exists(q.id),
         req' = [req EXCEPT ![r] = q]
  PROVE  TypeInv'
BY DEF TypeInv, TypeOK, TargetsExist, Exists

LEMMA ProceedType ==
  ASSUME TypeInv, NEW r \in Req, NEW row \in Account, NEW pc, UNCHANGED <<users, sessions>>,
         pc \in {"target", "email", "update", "byemail", "byid", "insert"},
         pc \in {"email", "update"} => Exists(req[r].id),
         Proceed(r, pc, row)
  PROVE  TypeInv'
<1> DEFINE q == [pc |-> pc, by |-> req[r].by, id |-> req[r].id,
                 form |-> req[r].form, row |-> row]
<1>1. q \in Request /\ q.pc = pc /\ q.id = req[r].id
  BY DEF TypeInv, TypeOK, Request
<1>2. req' = [req EXCEPT ![r] = q]
  BY DEF Proceed, Goto
<1> HIDE DEF q
<1> QED
  BY <1>1, <1>2, GotoType

LEMMA DoneType ==
  ASSUME TypeInv, NEW r \in Req, UNCHANGED <<users, sessions>>, Done(r)
  PROVE  TypeInv'
<1>1. Idle \in Request /\ Idle.pc = "idle"
  BY IdleType DEF TypeInv, TypeOK
<1> QED
  BY <1>1, GotoType DEF Done

\* A commit that writes one account.
LEMMA WriteType ==
  ASSUME TypeInv, NEW r \in Req, NEW u \in UserId, NEW a \in Account,
         users' = [users EXCEPT ![u] = a], UNCHANGED sessions, Done(r)
  PROVE  TypeInv'
<1>1. Idle \in Request /\ Idle.pc = "idle"
  BY IdleType DEF TypeInv, TypeOK
<1>2. TypeOK'
  BY <1>1 DEF TypeInv, TypeOK, Done
<1>3. a # NoUser
  BY AccountsAssumption
<1> QED
  BY <1>1, <1>2, <1>3 DEF TypeInv, TypeOK, TargetsExist, Exists, Done

LEMMA InitType == Init => TypeInv
<1> SUFFICES ASSUME Init
             PROVE  TypeInv
  OBVIOUS
<1>1. PICK u \in UserId, e \in Email :
        users = [v \in UserId |-> IF v = u THEN [email |-> e, role |-> "admin", active |-> TRUE]
                                           ELSE NoUser]
  BY DEF Init
<1> DEFINE a == [email |-> e, role |-> "admin", active |-> TRUE]
           f == [email |-> e, role |-> "admin", active |-> "true"]
           q == [pc |-> "idle", by |-> u, id |-> u, form |-> f, row |-> a]
<1>2. a \in Account /\ f \in FormData
  BY AccountsAssumption DEF Account, FormData, Role
<1>3. q \in Request
  BY <1>2 DEF Request
<1>4. Idle \in Request /\ Idle.pc = "idle"
  BY <1>3, IdleType
<1> QED
  BY <1>1, <1>2, <1>4 DEF Init, TypeInv, TypeOK, TargetsExist

LEMMA NextType == TypeInv /\ [Next]_vars => TypeInv'
<1> SUFFICES ASSUME TypeInv, [Next]_vars
             PROVE  TypeInv'
  OBVIOUS
<1>1. ASSUME NEW u \in UserId, Login(u) \/ Logout(u)
      PROVE  TypeInv'
  BY <1>1 DEF Login, Logout, TypeInv, TypeOK, TargetsExist, Exists
<1>2. ASSUME NEW r \in Req, UpdateAccount(r)
      PROVE  TypeInv'
  <2>1. PICK by \in UserId, id \in UserId, form \in FormData :
          Authorised(by) /\ Goto(r, "target", by, id, form, users[by])
    BY <1>2 DEF UpdateAccount
  <2> DEFINE q == [pc |-> "target", by |-> by, id |-> id, form |-> form, row |-> users[by]]
  <2>2. q \in Request /\ q.pc = "target"
    BY <2>1 DEF Authorised, AdminRow, TypeInv, TypeOK, Request
  <2>3. req' = [req EXCEPT ![r] = q] /\ UNCHANGED <<users, sessions>>
    BY <1>2, <2>1 DEF UpdateAccount, Goto
  <2> HIDE DEF q
  <2> QED
    BY <2>2, <2>3, GotoType
<1>3. ASSUME NEW r \in Req, LoadTarget(r)
      PROVE  TypeInv'
  <2>1. Exists(req[r].id) => TargetRow(r) \in Account
    BY DEF TypeInv, TypeOK, Request, TargetRow, Exists
  <2> QED
    BY <1>3, <2>1, ProceedType, DoneType DEF LoadTarget
<1>4. ASSUME NEW r \in Req, CheckEmail(r)
      PROVE  TypeInv'
  <2>1. Exists(req[r].id) /\ req[r].row \in Account
    BY <1>4 DEF CheckEmail, At, TypeInv, TypeOK, TargetsExist, Request
  <2> QED
    BY <1>4, <2>1, ProceedType, DoneType DEF CheckEmail
<1>5. ASSUME NEW r \in Req, CommitUpdate(r)
      PROVE  TypeInv'
  <2>1. req[r].id \in UserId
    BY DEF TypeInv, TypeOK, Request
  <2> QED
    BY <1>5, <2>1, WrittenType, WriteType, DoneType DEF CommitUpdate
<1>6. ASSUME NEW r \in Req, Create(r)
      PROVE  TypeInv'
  <2>1. PICK by \in UserId, id \in UserId, form \in FormData :
          Goto(r, "byemail", by, id, form, Idle.row)
    BY <1>6 DEF Create
  <2> DEFINE q == [pc |-> "byemail", by |-> by, id |-> id, form |-> form, row |-> Idle.row]
  <2>2. Idle.row \in Account
    BY IdleType DEF TypeInv, TypeOK, Request
  <2>3. q \in Request /\ q.pc = "byemail"
    BY <2>2 DEF Request
  <2>4. req' = [req EXCEPT ![r] = q] /\ UNCHANGED <<users, sessions>>
    BY <1>6, <2>1 DEF Create, Goto
  <2> HIDE DEF q
  <2> QED
    BY <2>3, <2>4, GotoType
<1>7. ASSUME NEW r \in Req, CheckNewEmail(r) \/ CheckNewId(r)
      PROVE  TypeInv'
  <2>1. req[r].row \in Account
    BY DEF TypeInv, TypeOK, Request
  <2> QED
    BY <1>7, <2>1, ProceedType, DoneType DEF CheckNewEmail, CheckNewId
<1>8. ASSUME NEW r \in Req, InsertAccount(r)
      PROVE  TypeInv'
  <2> DEFINE a == [email |-> req[r].form.email, role |-> req[r].form.role, active |-> TRUE]
  <2>1. req[r].id \in UserId /\ a \in Account
    BY DEF TypeInv, TypeOK, Request, FormData, Account
  <2>2. \/ users' = [users EXCEPT ![req[r].id] = a]
        \/ UNCHANGED users
    BY <1>8 DEF InsertAccount
  <2>3. Done(r) /\ UNCHANGED sessions
    BY <1>8 DEF InsertAccount
  <2> HIDE DEF a
  <2> QED
    BY <2>1, <2>2, <2>3, WriteType, DoneType
<1>9. CASE UNCHANGED vars
  BY <1>9 DEF vars, TypeInv, TypeOK, TargetsExist, Exists
<1> QED
  BY <1>1, <1>2, <1>3, <1>4, <1>5, <1>6, <1>7, <1>8, <1>9 DEF Next

\* Every reachable state is well typed, for any users and requests.
THEOREM AccountsTypeCorrect == Spec => []TypeOK
<1>1. TypeInv => TypeOK
  BY DEF TypeInv
<1> QED
  BY <1>1, InitType, NextType, PTL DEF Spec

-----------------------------------------------------------------------------
\* The constraint keeps the emails apart, whatever the checks before it saw.
LEMMA EmailsStep == TypeInv /\ EmailsUnique /\ [Next]_vars => EmailsUnique'
<1> SUFFICES ASSUME TypeInv, EmailsUnique, [Next]_vars
             PROVE  EmailsUnique'
  OBVIOUS
<1>1. CASE UNCHANGED users
  BY <1>1 DEF EmailsUnique, Exists
<1>2. ASSUME NEW id \in UserId, NEW a \in Account, Admits(id, a.email),
             users' = [users EXCEPT ![id] = a]
      PROVE  EmailsUnique'
  BY <1>2 DEF EmailsUnique, Exists, Admits, TypeInv, TypeOK
<1>3. ASSUME NEW r \in Req, CommitUpdate(r)
      PROVE  EmailsUnique'
  <2>1. req[r].id \in UserId /\ Written(r) \in Account
    BY <1>3, WrittenType DEF CommitUpdate, TypeInv, TypeOK, Request
  <2> QED
    BY <1>1, <1>2, <1>3, <2>1 DEF CommitUpdate
<1>4. ASSUME NEW r \in Req, InsertAccount(r)
      PROVE  EmailsUnique'
  <2> DEFINE a == [email |-> req[r].form.email, role |-> req[r].form.role, active |-> TRUE]
  <2>1. req[r].id \in UserId /\ a \in Account /\ a.email = req[r].form.email
    BY DEF TypeInv, TypeOK, Request, FormData, Account
  <2>2. \/ users' = [users EXCEPT ![req[r].id] = a] /\ Admits(req[r].id, req[r].form.email)
        \/ UNCHANGED users
    BY <1>4 DEF InsertAccount
  <2> HIDE DEF a
  <2> QED
    BY <1>1, <1>2, <2>1, <2>2
<1> QED
  BY <1>1, <1>3, <1>4 DEF Next, vars, Login, Logout, UpdateAccount, LoadTarget, CheckEmail,
                         Create, CheckNewEmail, CheckNewId

\* No two accounts ever share an email, for any number of concurrent requests.
THEOREM EmailsStayUnique == Spec => []EmailsUnique
<1>1. Init => EmailsUnique
  BY DEF Init, EmailsUnique, Exists
<1> QED
  BY <1>1, InitType, NextType, EmailsStep, PTL DEF Spec

\* Two accounts answer to one text at the login only if it is the id of the one and
\* the email of the other: never by their emails, and never three of them.
ClashesInPairs ==
  \A name \in UserId \cup Email : \A u, v \in Matches(name) :
    u # v => \/ u = name /\ users[v].email = name
             \/ v = name /\ users[u].email = name

\* What authenticate_user can find is at most such a pair, for any accounts and any
\* overlap of ids and emails.
THEOREM LoginsClashInPairs == Spec => []ClashesInPairs
<1>1. EmailsUnique => ClashesInPairs
  BY DEF EmailsUnique, ClashesInPairs, Matches, Exists
<1> QED BY <1>1, EmailsStayUnique, PTL

\* Everybody is found by the id and by the email, and nobody else is.
EverybodyFound ==
  \A u \in UserId : Exists(u) => Matches(u) = {u} /\ Matches(users[u].email) = {u}

\* Where no id is an email, every login text leads to its one account: the code
\* has no such rule for ids, so it is a condition here.
THEOREM LoginsFindEverybody == UserId \cap Email = {} => (Spec => []EverybodyFound)
<1> SUFFICES ASSUME UserId \cap Email = {} PROVE Spec => []EverybodyFound
  OBVIOUS
<1>1. TypeInv /\ EmailsUnique => EverybodyFound
  <2> SUFFICES ASSUME TypeInv, EmailsUnique, NEW u \in UserId, Exists(u)
               PROVE  Matches(u) = {u} /\ Matches(users[u].email) = {u}
    BY DEF EverybodyFound
  <2>1. \A v \in UserId : Exists(v) => users[v].email \in Email
    BY DEF TypeInv, TypeOK, Exists, Account
  <2>2. Matches(u) = {u}
    BY <2>1 DEF Matches
  <2>3. Matches(users[u].email) = {u}
    BY <2>1 DEF Matches, EmailsUnique
  <2> QED BY <2>2, <2>3
<1>2. Spec => []TypeInv
  BY InitType, NextType, PTL DEF Spec
<1> QED BY <1>1, <1>2, EmailsStayUnique, PTL

-----------------------------------------------------------------------------
\* What a request decides from: an active administrator's row before it has read
\* the target; and, about the author's own account, a form that asks for the
\* standing this row has.
OwnRequest(q) ==
  /\ q.pc = "target" => AdminRow(q.row)
  /\ q.pc \in {"email", "update"} /\ q.id = q.by =>
       AdminRow(q.row) /\ q.form.role = q.row.role /\ q.form.active = "true"
OwnRequests == \A r \in Req : OwnRequest(req[r])

LEMMA OwnIdle ==
  ASSUME TypeInv, NEW r \in Req
  PROVE  OwnRequest(Idle)
<1>1. Idle.pc = "idle"
  BY IdleType DEF TypeInv, TypeOK
<1> QED
  BY <1>1 DEF OwnRequest

LEMMA OwnProceed ==
  ASSUME TypeInv, NEW r \in Req, NEW pc, NEW row, Proceed(r, pc, row),
         pc \in {"email", "update"} /\ req[r].id = req[r].by =>
           AdminRow(row) /\ req[r].form.role = row.role /\ req[r].form.active = "true",
         pc # "target",
         OwnRequests
  PROVE  OwnRequests'
<1> DEFINE q == [pc |-> pc, by |-> req[r].by, id |-> req[r].id,
                 form |-> req[r].form, row |-> row]
<1>1. OwnRequest(q)
  BY DEF OwnRequest
<1>2. req' = [req EXCEPT ![r] = q]
  BY DEF Proceed, Goto
<1> HIDE DEF q
<1> QED
  BY <1>1, <1>2 DEF OwnRequests, TypeInv, TypeOK

LEMMA OwnDone ==
  ASSUME TypeInv, NEW r \in Req, Done(r), OwnRequests
  PROVE  OwnRequests'
BY OwnIdle DEF OwnRequests, Done, TypeInv, TypeOK

LEMMA OwnStep ==
  ASSUME FormValuesOnly, TypeInv, OwnRequests, [Next]_vars
  PROVE  OwnRequests'
<1>1. ASSUME NEW r \in Req, UpdateAccount(r)
      PROVE  OwnRequests'
  <2>1. PICK by \in UserId, id \in UserId, form \in FormData :
          Authorised(by) /\ Goto(r, "target", by, id, form, users[by])
    BY <1>1 DEF UpdateAccount
  <2> DEFINE q == [pc |-> "target", by |-> by, id |-> id, form |-> form, row |-> users[by]]
  <2>2. OwnRequest(q)
    BY <2>1 DEF OwnRequest, Authorised
  <2>3. req' = [req EXCEPT ![r] = q]
    BY <2>1 DEF Goto
  <2> HIDE DEF q
  <2> QED
    BY <2>2, <2>3 DEF OwnRequests, TypeInv, TypeOK
<1>2. ASSUME NEW r \in Req, LoadTarget(r)
      PROVE  OwnRequests'
  <2>1. req[r].form.active \in {"true", "false"}
    BY DEF FormValuesOnly, TypeInv, TypeOK, Request, FormData
  <2>2. AdminRow(req[r].row)
    BY <1>2 DEF LoadTarget, At, OwnRequests, OwnRequest
  <2>3. CASE Done(r)
    BY <2>3, OwnDone
  <2>4. CASE /\ ~(req[r].id = req[r].by /\ Retires(r))
             /\ Proceed(r, "email", TargetRow(r))
    BY <2>1, <2>2, <2>4, OwnProceed DEF Retires, TargetRow
  <2> QED
    BY <1>2, <2>3, <2>4 DEF LoadTarget
<1>3. ASSUME NEW r \in Req, CheckEmail(r)
      PROVE  OwnRequests'
  <2>1. req[r].id = req[r].by =>
          AdminRow(req[r].row) /\ req[r].form.role = req[r].row.role /\ req[r].form.active = "true"
    BY <1>3 DEF CheckEmail, At, OwnRequests, OwnRequest
  <2> QED
    BY <1>3, <2>1, OwnDone, OwnProceed DEF CheckEmail
<1>4. ASSUME NEW r \in Req, CommitUpdate(r) \/ InsertAccount(r)
      PROVE  OwnRequests'
  BY <1>4, OwnDone DEF CommitUpdate, InsertAccount
<1>5. ASSUME NEW r \in Req, Create(r)
      PROVE  OwnRequests'
  <2>1. PICK by \in UserId, id \in UserId, form \in FormData :
          Goto(r, "byemail", by, id, form, Idle.row)
    BY <1>5 DEF Create
  <2> DEFINE q == [pc |-> "byemail", by |-> by, id |-> id, form |-> form, row |-> Idle.row]
  <2>2. OwnRequest(q)
    BY DEF OwnRequest
  <2>3. req' = [req EXCEPT ![r] = q]
    BY <2>1 DEF Goto
  <2> HIDE DEF q
  <2> QED
    BY <2>2, <2>3 DEF OwnRequests, TypeInv, TypeOK
<1>6. ASSUME NEW r \in Req, CheckNewEmail(r) \/ CheckNewId(r)
      PROVE  OwnRequests'
  BY <1>6, OwnDone, OwnProceed DEF CheckNewEmail, CheckNewId
<1>7. CASE UNCHANGED req
  BY <1>7 DEF OwnRequests
<1> QED
  BY <1>1, <1>2, <1>3, <1>4, <1>5, <1>6, <1>7 DEF Next, vars, Login, Logout

LEMMA OwnInit == Init => OwnRequests
<1> SUFFICES ASSUME Init, NEW r \in Req
             PROVE  OwnRequest(req[r])
  BY DEF OwnRequests
<1>1. OwnRequest(Idle)
  BY InitType, OwnIdle
<1> QED
  BY <1>1 DEF Init

LEMMA OwnStandingStep ==
  ASSUME TypeInv, OwnRequests, [Next]_vars, NEW r \in Req, Commits(r)
  PROVE  LET u == req[r].by
         IN /\ users'[u].role = users[u].role
            /\ users'[u].active = users[u].active
<1>1. CASE UNCHANGED users
  BY <1>1
<1>2. ASSUME NEW s \in Req, CommitUpdate(s), ~UNCHANGED users
      PROVE  r = s /\ users' = [users EXCEPT ![req[r].id] = Written(r)]
  BY <1>2 DEF CommitUpdate, Done, Commits, At, TypeInv, TypeOK
<1>3. ASSUME NEW s \in Req, CommitUpdate(s), ~UNCHANGED users
      PROVE  /\ users'[req[r].by].role = users[req[r].by].role
             /\ users'[req[r].by].active = users[req[r].by].active
  <2>1. users' = [users EXCEPT ![req[r].id] = Written(r)]
    BY <1>2, <1>3
  <2>2. CASE req[r].id = req[r].by
    <3>1. /\ req[r].row.active = TRUE
          /\ req[r].form.role = req[r].row.role /\ req[r].form.active = "true"
      <4>1. AdminRow(req[r].row) /\ req[r].row \in Account
        BY <2>2 DEF OwnRequests, OwnRequest, Commits, At, TypeInv, TypeOK, Request
      <4> QED
        BY <2>2, <4>1 DEF OwnRequests, OwnRequest, Commits, At, AdminRow, Account
    <3>2. /\ Written(r).role = users[req[r].id].role
          /\ Written(r).active = users[req[r].id].active
      BY <3>1 DEF Written, Changed
    <3> QED
      BY <2>1, <2>2, <3>2 DEF TypeInv, TypeOK, Request
  <2>3. CASE req[r].id # req[r].by
    BY <2>1, <2>3 DEF TypeInv, TypeOK, Request
  <2> QED
    BY <2>2, <2>3
<1>4. ASSUME NEW s \in Req, InsertAccount(s)
      PROVE  UNCHANGED users
  BY <1>4 DEF InsertAccount, Done, Commits, At, TypeInv, TypeOK
<1> QED
  BY <1>1, <1>3, <1>4 DEF Next, vars, Login, Logout, UpdateAccount, LoadTarget, CheckEmail,
                         Create, CheckNewEmail, CheckNewId

\* With the values the page sends, no request changes the standing of its own
\* author, for any number of concurrent requests.
THEOREM OwnStandingStays == FormValuesOnly => (Spec => OwnStandingKept)
<1>1. TypeInv /\ OwnRequests /\ [Next]_vars =>
        [\A r \in Req : Commits(r) =>
           LET u == req[r].by
           IN /\ users'[u].role = users[u].role
              /\ users'[u].active = users[u].active]_vars
  BY OwnStandingStep
<1>2. ASSUME FormValuesOnly
      PROVE  OwnRequests /\ TypeInv /\ [Next]_vars => OwnRequests'
  BY <1>2, OwnStep
<1>3. ASSUME FormValuesOnly
      PROVE  Spec => OwnStandingKept
  BY <1>1, <1>2, <1>3, InitType, OwnInit, NextType, PTL DEF Spec, OwnStandingKept
<1> QED
  BY <1>3

-----------------------------------------------------------------------------
\* A commit whose author is still an administrator leaves one: the author.
LEMMA AuthorStays ==
  ASSUME TypeInv, OwnRequests, [Next]_vars, NEW r \in Req, CommitUpdate(r),
         AdminRow(users[req[r].by])
  PROVE  AdminRemains'
<1>1. req[r].by \in UserId /\ req[r].id \in UserId
  BY DEF TypeInv, TypeOK, Request
<1>2. CASE UNCHANGED users
  BY <1>1, <1>2 DEF AdminRemains
<1>3. CASE users' = [users EXCEPT ![req[r].id] = Written(r)]
  <2>1. Commits(r)
    BY IdleType DEF CommitUpdate, Done, Commits, TypeInv, TypeOK
  <2>2. /\ users'[req[r].by].role = users[req[r].by].role
        /\ users'[req[r].by].active = users[req[r].by].active
    BY <2>1, OwnStandingStep
  <2>3. users'[req[r].by] # NoUser
    <3>1. Written(r) # NoUser
      BY WrittenType, AccountsAssumption DEF CommitUpdate
    <3> QED
      BY <1>1, <1>3, <3>1 DEF AdminRow, TypeInv, TypeOK
  <2>4. AdminRow(users'[req[r].by])
    BY <2>2, <2>3 DEF AdminRow
  <2> QED
    BY <1>1, <2>4 DEF AdminRemains
<1> QED
  BY <1>2, <1>3 DEF CommitUpdate

LEMMA LastAdminStep ==
  ASSUME TypeInv, OwnRequests, [Next]_vars, AdminRemains, ~AdminRemains'
  PROVE  \E r \in Req : Commits(r) /\ ~AdminRow(users[req[r].by])
<1>1. ~UNCHANGED users
  BY DEF AdminRemains
<1>2. ASSUME NEW r \in Req, InsertAccount(r)
      PROVE  FALSE
  <2>1. PICK u \in UserId : AdminRow(users[u])
    BY DEF AdminRemains
  <2>2. AdminRow(users'[u])
    BY <1>2, <2>1 DEF InsertAccount, AdminRow, Exists, TypeInv, TypeOK
  <2> QED
    BY <2>2 DEF AdminRemains
<1>3. PICK r \in Req : CommitUpdate(r)
  BY <1>1, <1>2 DEF Next, vars, Login, Logout, UpdateAccount, LoadTarget, CheckEmail,
                    Create, CheckNewEmail, CheckNewId
<1>4. Commits(r)
  BY <1>3, IdleType DEF CommitUpdate, Done, Commits, TypeInv, TypeOK
<1> QED
  BY <1>3, <1>4, AuthorStays

\* With the values the page sends, only a request whose author has meanwhile lost
\* the authority can remove the last administrator, for any number of requests.
THEOREM LastAdminStays == FormValuesOnly => (Spec => LastAdminKept)
<1>1. TypeInv /\ OwnRequests /\ [Next]_vars =>
        [AdminRemains /\ ~AdminRemains' =>
           \E r \in Req : Commits(r) /\ ~AdminRow(users[req[r].by])]_vars
  BY LastAdminStep
<1>2. ASSUME FormValuesOnly
      PROVE  OwnRequests /\ TypeInv /\ [Next]_vars => OwnRequests'
  BY <1>2, OwnStep
<1>3. ASSUME FormValuesOnly
      PROVE  Spec => LastAdminKept
  BY <1>1, <1>2, <1>3, InitType, OwnInit, NextType, PTL DEF Spec, LastAdminKept
<1> QED
  BY <1>3

-----------------------------------------------------------------------------
\* No two updates overlap: the author of one keeps the authority it was admitted
\* with until it commits.
Updating(q) == q.pc \in {"target", "email", "update"}
AuthorsAdminister ==
  \A r \in Req : Updating(req[r]) => AdminRow(users[req[r].by])

\* An administrator who is there stays through whatever does not update accounts.
LEMMA NewAccountsKeepAdmins ==
  ASSUME TypeInv, NEW r \in Req, InsertAccount(r), NEW u \in UserId, AdminRow(users[u])
  PROVE  AdminRow(users'[u])
BY DEF InsertAccount, AdminRow, Exists, TypeInv, TypeOK

\* A request comes to update accounts only when it is authorised, or goes on.
LEMMA UpdatesBegin ==
  ASSUME TypeInv, [Next]_vars, NEW r \in Req, Updating(req'[r])
  PROVE  \/ Updating(req[r]) /\ req'[r].by = req[r].by
         \/ AdminRow(users[req'[r].by]) /\ UNCHANGED users
<1> USE DEF TypeInv, TypeOK, Updating, Goto, Proceed, Done, At
<1>1. CASE UNCHANGED req
  BY <1>1
<1>2. ASSUME NEW s \in Req, UpdateAccount(s)
      PROVE  \/ Updating(req[r]) /\ req'[r].by = req[r].by
             \/ AdminRow(users[req'[r].by]) /\ UNCHANGED users
  BY <1>2 DEF UpdateAccount, Authorised
<1>3. ASSUME NEW s \in Req,
             \/ LoadTarget(s) \/ CheckEmail(s) \/ CommitUpdate(s) \/ CheckNewEmail(s)
             \/ CheckNewId(s) \/ InsertAccount(s) \/ Create(s)
      PROVE  Updating(req[r]) /\ req'[r].by = req[r].by
  <2>1. CASE s # r
    BY <1>3, <2>1 DEF LoadTarget, CheckEmail, CommitUpdate, CheckNewEmail, CheckNewId,
      InsertAccount, Create
  <2>2. CASE s = r
    BY <1>3, <2>2, IdleType DEF LoadTarget, CheckEmail, CommitUpdate, CheckNewEmail, CheckNewId,
      InsertAccount, Create
  <2> QED BY <2>1, <2>2
<1> QED BY <1>1, <1>2, <1>3 DEF Next, vars, Login, Logout

LEMMA AuthorsStep ==
  ASSUME TypeInv, AuthorsAdminister, ~UpdatesOverlap, [Next]_vars
  PROVE  AuthorsAdminister'
<1> SUFFICES ASSUME NEW r \in Req, Updating(req'[r])
             PROVE  AdminRow(users'[req'[r].by])
  BY DEF AuthorsAdminister
<1>1. CASE UNCHANGED users
  BY <1>1, UpdatesBegin DEF AuthorsAdminister
<1>2. ASSUME NEW s \in Req, InsertAccount(s), ~UNCHANGED users
      PROVE  AdminRow(users'[req'[r].by])
  BY <1>2, UpdatesBegin, NewAccountsKeepAdmins DEF AuthorsAdminister, TypeInv, TypeOK, Request
<1>3. ASSUME NEW s \in Req, CommitUpdate(s), ~UNCHANGED users
      PROVE  FALSE
  <2>1. Updating(req[r]) /\ Updating(req[s])
    BY <1>3, UpdatesBegin DEF CommitUpdate, At, Updating
  <2>2. r = s
    BY <2>1 DEF UpdatesOverlap, Updating
  <2>3. req'[s].pc = "idle"
    BY <1>3, IdleType DEF CommitUpdate, Done, TypeInv, TypeOK
  <2> QED BY <2>2, <2>3 DEF Updating
<1> QED BY <1>1, <1>2, <1>3 DEF Next, vars, Login, Logout, UpdateAccount, LoadTarget, CheckEmail,
    Create, CheckNewEmail, CheckNewId

LEMMA AdminInit == Init => AdminRemains /\ AuthorsAdminister
<1> SUFFICES ASSUME Init
             PROVE  AdminRemains /\ AuthorsAdminister
  OBVIOUS
<1>1. AdminRemains
  <2>1. PICK u \in UserId, e \in Email :
          users = [v \in UserId |-> IF v = u THEN [email |-> e, role |-> "admin", active |-> TRUE]
                                             ELSE NoUser]
    BY DEF Init
  <2> DEFINE a == [email |-> e, role |-> "admin", active |-> TRUE]
  <2>2. a \in Account /\ a.role = "admin" /\ a.active = TRUE
    BY DEF Account, Role
  <2>3. users[u] = a
    BY <2>1
  <2> HIDE DEF a
  <2>4. AdminRow(users[u])
    BY <2>2, <2>3, AccountsAssumption DEF AdminRow
  <2> QED
    BY <2>4 DEF AdminRemains
<1>2. ASSUME NEW r \in Req
      PROVE  req[r].pc = "idle"
  BY InitType, IdleType DEF Init, TypeInv, TypeOK
<1> QED
  BY <1>1, <1>2 DEF AuthorsAdminister, Updating

\* While administrators change accounts one after the other, with the values the
\* page sends, an active administrator always remains: for any number of accounts,
\* and whatever signups, logins and new accounts go on at the same time.
THEOREM AdminSurvives == FormValuesOnly => (Spec => AdminStays)
<1> DEFINE Kept == AdminRemains /\ AuthorsAdminister
<1>1. FormValuesOnly /\ TypeInv /\ OwnRequests /\ [Next]_vars => OwnRequests'
  BY OwnStep
<1>2. TypeInv /\ OwnRequests /\ Kept /\ ~UpdatesOverlap /\ [Next]_vars => Kept'
  <2> SUFFICES ASSUME TypeInv, OwnRequests, Kept, ~UpdatesOverlap, [Next]_vars
               PROVE  Kept'
    OBVIOUS
  <2>1. AdminRemains'
    BY LastAdminStep DEF Commits, At, AuthorsAdminister, Updating
  <2>2. AuthorsAdminister'
    BY AuthorsStep
  <2> QED BY <2>1, <2>2
<1>3. ASSUME FormValuesOnly
      PROVE  Spec /\ []~UpdatesOverlap => []AdminRemains
  BY <1>1, <1>2, <1>3, InitType, NextType, OwnInit, AdminInit, PTL DEF Spec
<1> QED
  BY <1>3 DEF AdminStays
=============================================================================
