---------------------------- MODULE AdminAccounts ----------------------------
(***************************************************************************)
(* The accounts of the administrators: UsersService (users.service.ts),    *)
(* AuthService.login (auth.service.ts) and the guards in front of          *)
(* UsersController, which stand there twice, as global guards and as its   *)
(* own: JwtStrategy.validate reads the sender's account each time, so that *)
(* a token is worth what the account is worth at that moment.              *)
(*                                                                         *)
(* A password is named by the request that set it, Nobody for the first.   *)
(* The password column is not selected with a row: save() leaves it alone  *)
(* unless the request brings one, and cannot insert a row without.  Guards *)
(* are modelled as they are outside of NODE_ENV=development.               *)
(***************************************************************************)
EXTENDS HttpRequests, OrmSave

CONSTANTS
    Emails, Usernames,  \* the values there are for the two unique columns
    FirstAccount,       \* the account of the seed
    NewUsers,           \* what a create may bring
    UserChanges         \* what an update may bring

Roles == {"superadmin", "admin", "manager", "cashier"}
Statuses == {"active", "inactive", "invited", "suspended"}

\* The status is "invited" unless the request gives one.
CreateUserDtos == [email : Emails, username : Usernames, role : Roles, status : Statuses]

\* All of it is optional: Nothing leaves a column alone.
UpdateUserDtos ==
    [email : Emails \cup {Nothing}, username : Usernames \cup {Nothing}, password : BOOLEAN,
     role : Roles \cup {Nothing}, status : Statuses \cup {Nothing}]

AccountRows ==
    [email : Emails, username : Usernames, password : Creators, role : Roles,
     status : Statuses, lastLogin : Requests \cup {Nothing}]

\* What is asked of the accounts, and by whom.
AccountJobs ==
    [op : {"login"}, email : Emails] \cup
    [op : {"createUser"}, by : Creators, dto : NewUsers] \cup
    [op : {"updateUser"}, by : Creators, account : Creators, dto : UserChanges] \cup
    [op : {"deleteUser"}, by : Creators, account : Creators]

ASSUME NothingIsNoAccountJob == Nothing \notin AccountJobs

ASSUME AccountConstants ==
    /\ FirstAccount \in AccountRows
    /\ NewUsers \subseteq CreateUserDtos
    /\ UserChanges \subseteq UpdateUserDtos

VARIABLE accounts \* account -> its row

accountVars == <<accounts, httpVars>>

AccountTablesEmpty == accounts = [a \in {} |-> Nobody]
AccountTablesSeeded == accounts = [a \in {Nobody} |-> FirstAccount]

AccountInit == HttpInit /\ AccountTablesSeeded

Account(a) == a \in DOMAIN accounts

PutAccount(a, row) ==
    accounts' = [b \in DOMAIN accounts \cup {a} |-> IF b = a THEN row ELSE accounts[b]]

EmailTaken(email, others) == \E a \in others : accounts[a].email = email
UsernameTaken(username, others) == \E a \in others : accounts[a].username = username

\* Would the row violate one of the unique indexes?
Clashes(a, row) ==
    LET others == DOMAIN accounts \ {a}
    IN  EmailTaken(row.email, others) \/ UsernameTaken(row.username, others)
-----------------------------------------------------------------------------
(* Login *)

Login(r, email, password) ==
    LET j == [op |-> "login", email |-> email]
        found == {a \in DOMAIN accounts : accounts[a].email = email}
        welcome(a) == accounts[a].password = password /\ accounts[a].status = "active"
    IN  /\ \/ found = {} /\ Serve(r, j, "notFound")
           \/ \E a \in found : ~welcome(a) /\ Serve(r, j, "refused")
           \/ \E a \in found : welcome(a) /\ Begin(r, j, "stamp", [account |-> a])
        /\ UNCHANGED accounts

\* updateLastLogin: of no row if it is gone.
UpdateLastLogin(r) ==
    /\ pc[r] = "stamp"
    /\ accounts' = [a \in DOMAIN accounts |->
          IF a = held[r].account THEN [accounts[a] EXCEPT !.lastLogin = r] ELSE accounts[a]]
    /\ Answer(r, "ok")
-----------------------------------------------------------------------------
(* The guards *)

Permitted(op) == IF op = "deleteUser" THEN {"superadmin"} ELSE {"superadmin", "admin"}

\* Mutation: the role is taken from the database, the status is not looked at.
Admitted_AnyStatus(by, op) == accounts[by].role \in Permitted(op)

Admitted(by, op) == accounts[by].status = "active" /\ accounts[by].role \in Permitted(op)

\* The first pair of guards ...
Guard(r, j) ==
    /\ \/ ~Account(j.by) /\ Serve(r, j, "notFound")
       \/ Account(j.by) /\ ~Admitted(j.by, j.op) /\ Serve(r, j, "refused")
       \/ Account(j.by) /\ Admitted(j.by, j.op) /\ Begin(r, j, "guard", Nothing)
    /\ UNCHANGED accounts

\* ... and the second.
GuardAgain(r) ==
    /\ pc[r] = "guard"
    /\ LET by == job[r].by
       IN  \/ ~Account(by) /\ Answer(r, "notFound")
           \/ Account(by) /\ ~Admitted(by, job[r].op) /\ Answer(r, "refused")
           \/ Account(by) /\ Admitted(by, job[r].op) /\ Continue(r, "find", Nothing)
    /\ UNCHANGED accounts
-----------------------------------------------------------------------------
(* UsersService *)

\* createUser: one look for either of the two.
FindDuplicate(r) ==
    /\ At(r, "find", "createUser")
    /\ LET dto == job[r].dto
           taken == EmailTaken(dto.email, DOMAIN accounts)
                    \/ UsernameTaken(dto.username, DOMAIN accounts)
       IN  IF taken THEN Answer(r, "refused") ELSE Continue(r, "insert", Nothing)
    /\ UNCHANGED accounts

InsertUser(r) ==
    /\ At(r, "insert", "createUser")
    /\ LET dto == job[r].dto
           row == [email |-> dto.email, username |-> dto.username, password |-> r,
                   role |-> dto.role, status |-> dto.status, lastLogin |-> Nothing]
       IN  \/ Clashes(r, row) /\ Answer(r, "error") /\ UNCHANGED accounts
           \/ ~Clashes(r, row) /\ Answer(r, "ok") /\ PutAccount(r, row)

Or(new, old) == IF new = Nothing THEN old ELSE new

\* Object.assign(user, dto)
Renewed(row, r) ==
    LET dto == job[r].dto
    IN  [row EXCEPT !.email = Or(dto.email, @), !.username = Or(dto.username, @),
                    !.password = IF dto.password THEN r ELSE @,
                    !.role = Or(dto.role, @), !.status = Or(dto.status, @)]

\* A name is looked for if it is not the one that was read.
Checks(user, row) ==
    {c \in {"email", "username"} : row[c] # user[c]}

AfterEmail(checks) == IF "username" \in checks THEN "checkUsername" ELSE "load"

FindUser(r) ==
    /\ At(r, "find", "updateUser")
    /\ LET a == job[r].account
           row == Renewed(accounts[a], r)
           checks == Checks(accounts[a], row)
       IN  \/ ~Account(a) /\ Answer(r, "notFound")
           \/ /\ Account(a)
              /\ Continue(r, IF "email" \in checks THEN "checkEmail" ELSE AfterEmail(checks),
                          [entity |-> row, checks |-> checks])
    /\ UNCHANGED accounts

CheckEmail(r) ==
    /\ pc[r] = "checkEmail"
    /\ IF EmailTaken(job[r].dto.email, DOMAIN accounts) THEN Answer(r, "refused")
          ELSE Continue(r, AfterEmail(held[r].checks), held[r])
    /\ UNCHANGED accounts

CheckUsername(r) ==
    /\ pc[r] = "checkUsername"
    /\ IF UsernameTaken(job[r].dto.username, DOMAIN accounts) THEN Answer(r, "refused")
          ELSE Continue(r, "load", held[r])
    /\ UNCHANGED accounts

\* The columns to write; the password is one of them if the request brings it.
DirtyColumns(entity, row, password) ==
    (Dirty(entity, row) \ {"password"}) \cup (IF password THEN {"password"} ELSE {})

LoadUser(r) ==
    /\ At(r, "load", "updateUser")
    /\ LET a == job[r].account
           row == held[r].entity
       IN  Continue(r, "write",
               [there |-> Account(a), entity |-> row,
                dirty |-> IF Account(a) THEN DirtyColumns(row, accounts[a], job[r].dto.password)
                                        ELSE {}])
    /\ UNCHANGED accounts

\* UPDATE of those columns, of no row if it has gone since; or INSERT, which takes a
\* password.
WriteUser(r) ==
    /\ At(r, "write", "updateUser")
    /\ LET a == job[r].account
           there == held[r].there
           row == IF there /\ Account(a) THEN Merge(accounts[a], held[r].entity, held[r].dirty)
                                         ELSE held[r].entity
           written == there => Account(a)
           fails == \/ written /\ Clashes(a, row)
                    \/ ~there /\ (Account(a) \/ ~job[r].dto.password)
       IN  /\ Answer(r, IF fails THEN "error" ELSE "ok")
           /\ IF written /\ ~fails THEN PutAccount(a, row) ELSE UNCHANGED accounts

FindToDelete(r) ==
    /\ At(r, "find", "deleteUser")
    /\ IF Account(job[r].account) THEN Continue(r, "remove", Nothing) ELSE Answer(r, "notFound")
    /\ UNCHANGED accounts

RemoveUser(r) ==
    /\ At(r, "remove", "deleteUser")
    /\ accounts' = [a \in DOMAIN accounts \ {job[r].account} |-> accounts[a]]
    /\ Answer(r, "ok")
-----------------------------------------------------------------------------
KnownAccounts == DOMAIN accounts \cup {Nobody}

\* A login gives the password of some account, not always of the right one.
LoginRequest(r) ==
    \E email \in Emails : \E a \in DOMAIN accounts : Login(r, email, accounts[a].password)

UserRequest(r) ==
    \E by \in KnownAccounts :
       \/ \E dto \in NewUsers : Guard(r, [op |-> "createUser", by |-> by, dto |-> dto])
       \/ \E a \in KnownAccounts :
             \/ \E dto \in UserChanges :
                   Guard(r, [op |-> "updateUser", by |-> by, account |-> a, dto |-> dto])
             \/ Guard(r, [op |-> "deleteUser", by |-> by, account |-> a])

AccountStep(r) ==
    \/ UpdateLastLogin(r) \/ GuardAgain(r) \/ FindDuplicate(r) \/ InsertUser(r)
    \/ FindUser(r) \/ CheckEmail(r) \/ CheckUsername(r) \/ LoadUser(r) \/ WriteUser(r)
    \/ FindToDelete(r) \/ RemoveUser(r)
    \/ StatementFails(r) /\ UNCHANGED accounts

AccountNext == \E r \in Requests : LoginRequest(r) \/ UserRequest(r) \/ AccountStep(r)

AccountSpec == AccountInit /\ [][AccountNext]_accountVars
-----------------------------------------------------------------------------
(* Properties *)

\* Every row is of its type, and no two accounts share an email or a username,
\* whatever the checks before the writes have seen (user.entity.ts:33-41).
AccountTypeOK ==
    /\ HttpTypeOK
    /\ DOMAIN accounts \subseteq Creators
    /\ \A a \in DOMAIN accounts : accounts[a] \in AccountRows /\ ~Clashes(a, accounts[a])

AsksAbout(r, op, a) == pc[r] # "idle" /\ job[r].op = op /\ job[r].account = a
Logins == {l \in Requests : pc[l] # "idle" /\ job[l].op = "login"}
UpdatesOf(a) == {u \in Requests : AsksAbout(u, "updateUser", a)}
RemovalsOf(a) == {d \in Requests : AsksAbout(d, "deleteUser", a)}

\* An account that was deleted with success is there again only if an update of it
\* overlapped the deletion and brought a password (users.service.ts:173-179, 187).
DeletedAccountsStayDeleted ==
    \A a \in DOMAIN accounts : \A d \in RemovalsOf(a) :
       Succeeded(d) => \E u \in UpdatesOf(a) : job[u].dto.password /\ Overlap(u, d)

\* A guarded request of an account that had been given another status than active is
\* not served, unless the account got a status again, or an update that overlapped
\* the deactivation wrote the old one back (jwt.strategy.ts:25-34,
\* users.service.ts:178-179).
DeactivationsHold ==
    \A r \in Requests : (r \notin Logins /\ Succeeded(r)) =>
       \A u \in UpdatesOf(job[r].by) \cap earlier[r] :
          (Succeeded(u) /\ job[u].dto.status \notin {"active", Nothing}) =>
             \E v \in UpdatesOf(job[r].by) \ {u, r} :
                \/ Overlap(u, v)
                \/ u \in earlier[v] /\ job[v].dto.status # Nothing

\* The time of the last login stays in the row until the next one, unless an update
\* that overlapped the login writes back the one it read, or the login's email has
\* changed its account (auth.service.ts:47, users.service.ts:178-179).
LastLoginsAreKept ==
    \A a \in DOMAIN accounts : \A l \in Requests :
       (l \in Logins /\ Succeeded(l) /\ job[l].email = accounts[a].email) =>
          \/ accounts[a].lastLogin = l
          \/ \E m \in Logins : Overlap(m, l) \/ l \in earlier[m]
          \/ \E u \in UpdatesOf(a) : Overlap(u, l)
          \/ \E u \in Requests : /\ pc[u] # "idle" /\ job[u].op = "updateUser"
                                 /\ job[u].dto.email # Nothing
          \/ a \in Requests /\ a \notin earlier[l]
=============================================================================
