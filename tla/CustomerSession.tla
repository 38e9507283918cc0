--------------------------- MODULE CustomerSession ---------------------------
(***************************************************************************)
(* CustomersService.login, refresh and logout: one refresh token per       *)
(* customer, kept in his row and replaced by every login and refresh.      *)
(*                                                                         *)
(* Each handler reads the row, signs a token and writes it in an UPDATE of *)
(* its own, so handlers of one customer interleave between the comparison  *)
(* of the token and its replacement.  Tokens carry no random part: two     *)
(* signed for one customer in the same second are the same token.          *)
(***************************************************************************)
EXTENDS Naturals

CONSTANTS
    Requests,   \* HTTP requests, each handled once
    Users,      \* toss users
    SeedUsers,  \* those who have an account already, from an earlier login
    Lifetime,   \* of a refresh token, in ticks of the clock (7 days)
    Horizon,    \* bound: the clock stops here
    Null

\* An account is named by the login that creates it or, an earlier one, by its user.
Ids == Requests \cup Users

Tokens == [id : Ids, at : Nat]

ASSUME SessionConstants ==
    /\ SeedUsers \subseteq Users
    /\ Requests \cap Users = {}
    /\ Null \notin Ids \cup Tokens
    /\ Lifetime \in Nat
    /\ Horizon \in Nat

VARIABLES
    now,        \* the clock that stamps and expires tokens
    customers,  \* the table: the accounts and their users
    stored,     \* account -> refresh_token
    pc,         \* request -> where its handler is
    kind,       \* request -> the handler it called
    account,    \* request -> the account it found or created
    presented,  \* request -> the token it sent
    token,      \* request -> the token it has signed and will store
    answer,     \* request -> what its caller is told
    alone,      \* history: no other request has written the account since this
                \* request last read or wrote it
    ended       \* history: account -> a logout took effect while no login or
                \* refresh of it was under way, and no login has come since

rows == <<customers, stored>>
vars == <<now, rows, pc, kind, account, presented, token, answer, alone, ended>>

Phases == {"idle", "insert", "compare", "sign", "update", "stored", "answered"}
Kinds == {"none", "login", "refresh", "logout"}

SeedToken(u) == [id |-> u, at |-> 0]

\* Some of the earlier customers are still logged in, with a token of time 0.
Init ==
    /\ now = 0
    /\ customers = {[id |-> u, user |-> u] : u \in SeedUsers}
    /\ \E in \in SUBSET SeedUsers :
          stored = [i \in Ids |-> IF i \in in THEN SeedToken(i) ELSE Null]
    /\ pc = [r \in Requests |-> "idle"]
    /\ kind = [r \in Requests |-> "none"]
    /\ account = [r \in Requests |-> Null]
    /\ presented = [r \in Requests |-> Null]
    /\ token = [r \in Requests |-> Null]
    /\ answer = [r \in Requests |-> "none"]
    /\ alone = [r \in Requests |-> FALSE]
    /\ ended = [i \in Ids |-> FALSE]
-----------------------------------------------------------------------------
InProgress(r) == pc[r] \notin {"idle", "answered"}

\* r will write a token of its own to account i.
Renewing(r, i) == pc[r] \in {"sign", "update"} /\ kind[r] # "logout" /\ account[r] = i

Goto(r, phase) == pc' = [pc EXCEPT ![r] = phase]

Answer(r, what) ==
    /\ Goto(r, "answered")
    /\ answer' = [answer EXCEPT ![r] = what]

\* r goes on with account i, as it has just read it.
Enter(r, i, phase) ==
    /\ Goto(r, phase)
    /\ account' = [account EXCEPT ![r] = i]
    /\ alone' = [alone EXCEPT ![r] = TRUE]

Calls(r, handler) ==
    /\ pc[r] = "idle"
    /\ kind' = [kind EXCEPT ![r] = handler]

\* findByTossUserId.  The user a new account is for is kept in "presented".
Login(r, u) ==
    /\ Calls(r, "login")
    /\ presented' = [presented EXCEPT ![r] = u]
    /\ \/ \E c \in customers :
             /\ c.user = u
             /\ Enter(r, c.id, "sign")
             /\ ended' = [ended EXCEPT ![c.id] = FALSE]
       \/ /\ \A c \in customers : c.user # u
          /\ Goto(r, "insert")
          /\ UNCHANGED <<account, alone, ended>>
    /\ UNCHANGED <<now, rows, token, answer>>

\* Mutation: toss_user_id has lost its unique index.
HasAccount_NotUnique(u) == FALSE

\* The unique index on toss_user_id.
HasAccount(u) == \E c \in customers : c.user = u

Insert(r) ==
    /\ pc[r] = "insert"
    /\ ~HasAccount(presented[r])
    /\ customers' = customers \cup {[id |-> r, user |-> presented[r]]}
    /\ Enter(r, r, "sign")
    /\ UNCHANGED <<now, stored, kind, presented, token, answer, ended>>

InsertConflict(r) ==
    /\ pc[r] = "insert"
    /\ HasAccount(presented[r])
    /\ Answer(r, "failed")
    /\ UNCHANGED <<now, rows, kind, account, presented, token, alone, ended>>

\* A token some client may hold: it was answered, or dates from before.
HandedOut == {token[q] : q \in {p \in Requests : answer[p] = "ok" /\ kind[p] # "logout"}}
                \cup {SeedToken(u) : u \in SeedUsers}

\* verify(): the signature and the expiry.
Refresh(r, t) ==
    /\ Calls(r, "refresh")
    /\ \/ /\ t \in HandedOut /\ now < t.at + Lifetime
          /\ Goto(r, "compare")
          /\ presented' = [presented EXCEPT ![r] = t]
          /\ UNCHANGED answer
       \/ /\ t \in HandedOut => now >= t.at + Lifetime
          /\ Answer(r, "refused")
          /\ UNCHANGED presented
    /\ UNCHANGED <<now, rows, account, token, alone, ended>>

\* Mutation: any token that verifies is accepted.
Compare_Skipped(r) ==
    /\ pc[r] = "compare"
    /\ Enter(r, presented[r].id, "sign")
    /\ UNCHANGED <<now, rows, kind, presented, token, answer, ended>>

\* findByUuid and the comparison with the stored token.
Compare(r) ==
    /\ pc[r] = "compare"
    /\ \/ /\ stored[presented[r].id] = presented[r]
          /\ Enter(r, presented[r].id, "sign")
          /\ UNCHANGED answer
       \/ /\ stored[presented[r].id] # presented[r]
          /\ Answer(r, "refused")
          /\ UNCHANGED <<account, alone>>
    /\ UNCHANGED <<now, rows, kind, presented, token, ended>>

\* The guard has found the customer of the access token.
Logout(r, i) ==
    /\ Calls(r, "logout")
    /\ \E c \in customers : c.id = i
    /\ Enter(r, i, "update")
    /\ UNCHANGED <<now, rows, presented, token, answer, ended>>

\* generateTokens: the time of issue is all that tells two tokens apart.
Sign(r) ==
    /\ pc[r] = "sign"
    /\ Goto(r, "update")
    /\ token' = [token EXCEPT ![r] = [id |-> account[r], at |-> now]]
    /\ UNCHANGED <<now, rows, kind, account, presented, answer, alone, ended>>

\* Mutation: logout passes undefined, and TypeORM leaves the column out.
NewValue_Undefined(r) == IF kind[r] = "logout" THEN stored[account[r]] ELSE token[r]

\* What the handler sets refresh_token to.
NewValue(r) == IF kind[r] = "logout" THEN Null ELSE token[r]

\* The UPDATE of updateRefreshToken or of logout.
Store(r) ==
    LET i == account[r]
    IN  /\ pc[r] = "update"
        /\ Goto(r, "stored")
        /\ stored' = [stored EXCEPT ![i] = NewValue(r)]
        /\ alone' = [q \in Requests |-> q = r \/ (alone[q] /\ account[q] # i)]
        /\ ended' = [ended EXCEPT ![i] =
              IF kind[r] = "logout" THEN @ \/ ~\E q \in Requests : Renewing(q, i) ELSE @]
        /\ UNCHANGED <<now, customers, kind, account, presented, token, answer>>

\* Mutation: the UPDATE is not awaited.
Reply_NotAwaited(r) ==
    /\ pc[r] \in {"update", "stored"}
    /\ Answer(r, "ok")
    /\ UNCHANGED <<now, rows, kind, account, presented, token, alone, ended>>

Reply(r) ==
    /\ pc[r] = "stored"
    /\ Answer(r, "ok")
    /\ UNCHANGED <<now, rows, kind, account, presented, token, alone, ended>>

\* A query fails, or its answer is lost, or the process dies: what was written
\* stays written.
Fail(r) ==
    /\ InProgress(r)
    /\ Answer(r, "failed")
    /\ UNCHANGED <<now, rows, kind, account, presented, token, alone, ended>>

Tick ==
    /\ now < Horizon
    /\ now' = now + 1
    /\ UNCHANGED <<rows, pc, kind, account, presented, token, answer, alone, ended>>

Arrive(r) ==
    \/ \E u \in Users : Login(r, u)
    \/ \E t \in HandedOut \cup {Null} : Refresh(r, t)
    \/ \E i \in Ids : Logout(r, i)

HandlerStep(r) ==
    \/ Insert(r)
    \/ InsertConflict(r)
    \/ Compare(r)
    \/ Sign(r)
    \/ Store(r)
    \/ Reply(r)
    \/ Fail(r)

Next ==
    \/ \E r \in Requests : Arrive(r) \/ HandlerStep(r)
    \/ Tick

Spec == Init /\ [][Next]_vars
-----------------------------------------------------------------------------
(* Properties *)

\* Every variable stays in its type, a token is stored with the account it was
\* signed for, and a toss user has one account.
TypeOK ==
    /\ now \in Nat
    /\ customers \subseteq [id : Ids, user : Users]
    /\ \A c, d \in customers : c.id = d.id \/ c.user = d.user => c = d
    /\ stored \in [Ids -> Tokens \cup {Null}]
    /\ \A i \in Ids : stored[i] # Null => stored[i].id = i /\ stored[i].at <= now
    /\ pc \in [Requests -> Phases]
    /\ kind \in [Requests -> Kinds]
    /\ account \in [Requests -> Ids \cup {Null}]
    /\ presented \in [Requests -> Tokens \cup Users \cup {Null}]
    /\ token \in [Requests -> Tokens \cup {Null}]
    /\ answer \in [Requests -> {"none", "ok", "refused", "failed"}]
    /\ alone \in [Requests -> BOOLEAN]
    /\ ended \in [Ids -> BOOLEAN]

\* A logout that no login or refresh of the account overlapped ends the session
\* for good: no token handed out before, expired or not, brings it back; only a
\* new login does (customers.service.ts:139-150, 167-171).
EndedStaysEnded == \A i \in Ids : ended[i] => stored[i] = Null

\* Whoever is told "ok" holds the token that the next refresh will accept, unless
\* another request of the same account has written since; after a logout there is
\* none to accept (customers.service.ts:104-110, 150-155).
OkIsUsable ==
    \A r \in Requests :
       answer[r] = "ok" /\ alone[r] =>
          stored[account[r]] = IF kind[r] = "logout" THEN Null ELSE token[r]

Writes(r) == pc[r] = "update" /\ pc'[r] = "stored"

\* Overlap is the only way a session can go wrong: a login or refresh that saw no
\* other write to the account between its read and its UPDATE replaces a token by
\* one that is not older, and a refresh replaces the very token that was presented
\* to it (customers.service.ts:140-150).
AloneIsFaithful ==
    [][\A r \in Requests :
          Writes(r) /\ alone[r] /\ kind[r] # "logout" =>
             LET before == stored[account[r]]
                 after  == stored'[account[r]]
             IN  /\ before # Null => after # Null /\ before.at <= after.at
                 /\ kind[r] = "refresh" => before = presented[r]]_vars
=============================================================================
