------------------------ MODULE CustomerSessionProofs ------------------------
(***************************************************************************)
(* Machine-checked theorems about CustomerSession, for every set of        *)
(* requests and users and every lifetime of a token.                       *)
(***************************************************************************)
EXTENDS CustomerSession, TLAPS

\* What request r holds, and what it still knows of its account while alone.
ReqInv(r) ==
    /\ answer[r] # "none" <=> pc[r] = "answered"
    /\ pc[r] = "insert" => kind[r] = "login" /\ presented[r] \in Users
    /\ pc[r] = "compare" => kind[r] = "refresh" /\ presented[r] \in Tokens
    /\ pc[r] = "sign" => kind[r] \in {"login", "refresh"}
    /\ pc[r] \in {"sign", "update"} => \E c \in customers : c.id = account[r]
    /\ pc[r] \in {"sign", "update", "stored"} \/ answer[r] = "ok" => account[r] \in Ids
    /\ (pc[r] \in {"update", "stored"} \/ answer[r] = "ok") /\ kind[r] # "logout" =>
          /\ token[r] \in Tokens
          /\ token[r].id = account[r]
          /\ token[r].at <= now
    /\ alone[r] =>
          /\ pc[r] = "stored" \/ answer[r] = "ok" => stored[account[r]] = NewValue(r)
          /\ pc[r] \in {"sign", "update"} /\ kind[r] = "refresh" =>
                stored[account[r]] = presented[r]
          /\ pc[r] = "update" /\ kind[r] # "logout" /\ stored[account[r]] # Null =>
                stored[account[r]].at <= token[r].at

\* An account that a login has not created yet has no session to end; an ended
\* session holds no token, and nobody is about to write one.
IdInv(i) ==
    /\ stored[i] # Null => \E c \in customers : c.id = i
    /\ ended[i] => /\ stored[i] = Null
                   /\ \A q \in Requests : ~Renewing(q, i)
                   /\ \E c \in customers : c.id = i

AccountsStarted ==
    \A c \in customers : c.id \in Requests => pc[c.id] \notin {"idle", "insert"}

IInv ==
    /\ TypeOK
    /\ \A r \in Requests : ReqInv(r)
    /\ \A i \in Ids : IdInv(i)
    /\ AccountsStarted

LEMMA InitIInv == Init => IInv
  <1> SUFFICES ASSUME Init PROVE IInv
    OBVIOUS
  <1> USE SessionConstants
  <1>1. PICK in \in SUBSET SeedUsers :
           stored = [i \in Ids |-> IF i \in in THEN SeedToken(i) ELSE Null]
    BY DEF Init
  <1>2. \A i \in in : SeedToken(i) \in Tokens /\ SeedToken(i).id = i /\ SeedToken(i).at = 0
    BY DEF SeedToken, Tokens, Ids
  <1>3. \A i \in Ids : stored[i] = Null \/ (i \in in /\ stored[i] = SeedToken(i))
    BY <1>1
  <1>4. /\ stored \in [Ids -> Tokens \cup {Null}]
        /\ \A i \in Ids : stored[i] # Null => stored[i].id = i /\ stored[i].at <= now
    BY <1>1, <1>2, <1>3 DEF Init
  <1>5. customers \subseteq [id : Ids, user : Users]
    BY DEF Init, Ids
  <1>6. \A c, d \in customers : c.id = d.id \/ c.user = d.user => c = d
    BY DEF Init
  <1>7. TypeOK
    BY <1>4, <1>5, <1>6 DEF Init, TypeOK, Phases, Kinds
  <1>8. \A r \in Requests : ReqInv(r)
    BY DEF Init, ReqInv
  <1>9. ASSUME NEW i \in Ids PROVE IdInv(i)
    <2>1. stored[i] # Null => \E c \in customers : c.id = i
      <3>1. SUFFICES ASSUME i \in SeedUsers PROVE \E c \in customers : c.id = i
        BY <1>3
      <3>2. [id |-> i, user |-> i] \in customers
        BY <3>1 DEF Init
      <3>3. QED
        BY <3>2
    <2>2. ~ended[i]
      BY DEF Init
    <2>3. QED
      BY <2>1, <2>2 DEF IdInv
  <1>10. AccountsStarted
    BY DEF Init, AccountsStarted
  <1>11. QED
    BY <1>7, <1>8, <1>9, <1>10 DEF IInv

\* What a step of r keeps of the other requests, if it writes no account.
LEMMA OthersKept ==
    ASSUME IInv, NEW r \in Requests, NEW q \in Requests \ {r},
           pc'[q] = pc[q], kind'[q] = kind[q], account'[q] = account[q],
           presented'[q] = presented[q], token'[q] = token[q], answer'[q] = answer[q],
           alone'[q] = alone[q], stored' = stored, now' = now,
           customers \subseteq customers'
    PROVE  ReqInv(q)'
  BY DEF IInv, ReqInv, NewValue

LEMMA LoginKeepsIInv ==
    ASSUME IInv, NEW r \in Requests, NEW u \in Users, Login(r, u)
    PROVE  IInv'
  <1> USE DEF IInv
  <1> USE DEF Calls, Enter, Goto
  <1>1. /\ pc[r] = "idle" /\ kind'[r] = "login" /\ presented'[r] = u
        /\ \A q \in Requests \ {r} :
              /\ pc'[q] = pc[q] /\ kind'[q] = kind[q] /\ account'[q] = account[q]
              /\ presented'[q] = presented[q] /\ alone'[q] = alone[q]
        /\ UNCHANGED <<now, customers, stored, token, answer>>
        /\ answer[r] = "none"
    BY DEF Login, TypeOK, rows, ReqInv
  <1>2. TypeOK'
    BY DEF Login, TypeOK, rows, Phases, Kinds
  <1>3. /\ pc'[r] \in {"sign", "insert"}
        /\ pc'[r] = "sign" => /\ account'[r] \in Ids /\ ~ended'[account'[r]]
                              /\ \E c \in customers : c.id = account'[r]
        /\ \A i \in Ids : ended'[i] => ended[i]
    BY DEF Login, TypeOK
  <1>4. ReqInv(r)'
    BY <1>1, <1>3 DEF ReqInv
  <1>5. \A q \in Requests : ReqInv(q)'
    BY <1>1, <1>4, OthersKept
  <1>6. ASSUME NEW i \in Ids PROVE IdInv(i)'
    BY <1>1, <1>3 DEF IdInv, Renewing
  <1>7. AccountsStarted'
    BY <1>1 DEF AccountsStarted
  <1>8. QED
    BY <1>2, <1>5, <1>6, <1>7

LEMMA InsertKeepsIInv ==
    ASSUME IInv, NEW r \in Requests, Insert(r)
    PROVE  IInv'
  <1> USE DEF IInv
  <1> USE DEF Enter, Goto
  <1>1. /\ pc[r] = "insert" /\ kind[r] = "login" /\ presented[r] \in Users
        /\ r \in Ids /\ answer[r] = "none"
    BY DEF Insert, ReqInv, Ids
  <1>2. /\ pc'[r] = "sign" /\ account'[r] = r /\ alone'[r] = TRUE
        /\ \A q \in Requests \ {r} :
              /\ pc'[q] = pc[q] /\ account'[q] = account[q] /\ alone'[q] = alone[q]
        /\ UNCHANGED <<now, stored, kind, presented, token, answer, ended>>
        /\ customers' = customers \cup {[id |-> r, user |-> presented[r]]}
    BY DEF Insert, TypeOK
  <1>3. \A c \in customers : c.id # r /\ c.user # presented[r]
    BY <1>1 DEF Insert, HasAccount, AccountsStarted
  <1>4. TypeOK'
    <2>1. customers' \subseteq [id : Ids, user : Users]
      BY <1>1, <1>2 DEF TypeOK
    <2>2. \A c, d \in customers' : c.id = d.id \/ c.user = d.user => c = d
      BY <1>2, <1>3 DEF TypeOK
    <2>3. /\ pc' \in [Requests -> Phases] /\ account' \in [Requests -> Ids \cup {Null}]
          /\ alone' \in [Requests -> BOOLEAN]
      BY <1>1 DEF Insert, TypeOK, Phases
    <2>4. QED
      BY <1>2, <2>1, <2>2, <2>3 DEF TypeOK
  <1>5. ReqInv(r)'
    <2>1. [id |-> r, user |-> presented[r]] \in customers' /\ account'[r] = r
      BY <1>2
    <2>2. QED
      BY <1>1, <1>2, <2>1 DEF ReqInv
  <1>6. \A q \in Requests : ReqInv(q)'
    BY <1>2, <1>5, OthersKept
  <1>7. ~ended[r]
    BY <1>1, <1>3 DEF IdInv
  <1>8. ASSUME NEW i \in Ids PROVE IdInv(i)'
    BY <1>2, <1>7 DEF IdInv, Renewing
  <1>9. AccountsStarted'
    BY <1>2 DEF AccountsStarted
  <1>10. QED
    BY <1>4, <1>6, <1>8, <1>9

LEMMA RefreshKeepsIInv ==
    ASSUME IInv, NEW r \in Requests, NEW t \in HandedOut \cup {Null}, Refresh(r, t)
    PROVE  IInv'
  <1> USE DEF IInv
  <1> USE DEF Calls, Answer, Goto
  <1>1. HandedOut \subseteq Tokens
    BY SessionConstants DEF HandedOut, SeedToken, Tokens, Ids, ReqInv
  <1>2. /\ pc[r] = "idle" /\ kind'[r] = "refresh"
        /\ \A q \in Requests \ {r} :
              /\ pc'[q] = pc[q] /\ kind'[q] = kind[q]
              /\ presented'[q] = presented[q] /\ answer'[q] = answer[q]
        /\ UNCHANGED <<now, customers, stored, account, token, alone, ended>>
        /\ \/ pc'[r] = "compare" /\ presented'[r] \in Tokens /\ answer'[r] = answer[r]
           \/ pc'[r] = "answered" /\ answer'[r] = "refused"
        /\ answer[r] = "none"
    BY <1>1 DEF Refresh, TypeOK, rows, ReqInv
  <1>3. TypeOK'
    BY <1>1 DEF Refresh, TypeOK, rows, Phases, Kinds
  <1>4. ReqInv(r)'
    BY <1>2 DEF ReqInv
  <1>5. \A q \in Requests : ReqInv(q)'
    BY <1>2, <1>4, OthersKept
  <1>6. ASSUME NEW i \in Ids PROVE IdInv(i)'
    BY <1>2 DEF IdInv, Renewing
  <1>7. AccountsStarted'
    BY <1>2 DEF AccountsStarted
  <1>8. QED
    BY <1>3, <1>5, <1>6, <1>7

LEMMA CompareKeepsIInv ==
    ASSUME IInv, NEW r \in Requests, Compare(r)
    PROVE  IInv'
  <1> USE DEF IInv
  <1> USE DEF Enter, Answer, Goto
  <1>1. /\ pc[r] = "compare" /\ kind[r] = "refresh" /\ presented[r] \in Tokens
        /\ presented[r].id \in Ids /\ answer[r] = "none"
    BY DEF Compare, ReqInv, Tokens
  <1>2. /\ \A q \in Requests \ {r} :
              /\ pc'[q] = pc[q] /\ account'[q] = account[q]
              /\ alone'[q] = alone[q] /\ answer'[q] = answer[q]
        /\ UNCHANGED <<now, customers, stored, kind, presented, token, ended>>
        /\ \/ /\ stored[presented[r].id] = presented[r] /\ pc'[r] = "sign"
              /\ account'[r] = presented[r].id /\ answer'[r] = "none"
           \/ pc'[r] = "answered" /\ answer'[r] = "refused"
    BY <1>1 DEF Compare, TypeOK, rows
  <1>3. TypeOK'
    BY <1>1 DEF Compare, TypeOK, rows, Phases
  <1>4. Null \notin Tokens
    BY SessionConstants
  <1>5. stored[presented[r].id] = presented[r] => \E c \in customers : c.id = presented[r].id
    BY <1>1, <1>4 DEF IdInv
  <1>6. ReqInv(r)'
    BY <1>1, <1>2, <1>5 DEF ReqInv
  <1>7. \A q \in Requests : ReqInv(q)'
    BY <1>2, <1>6, OthersKept
  <1>8. ASSUME NEW i \in Ids PROVE IdInv(i)'
    BY <1>1, <1>2, <1>4 DEF IdInv, Renewing
  <1>9. AccountsStarted'
    BY <1>2 DEF AccountsStarted
  <1>10. QED
    BY <1>3, <1>7, <1>8, <1>9

LEMMA LogoutKeepsIInv ==
    ASSUME IInv, NEW r \in Requests, NEW i \in Ids, Logout(r, i)
    PROVE  IInv'
  <1> USE DEF IInv
  <1> USE DEF Calls, Enter, Goto
  <1>1. /\ pc[r] = "idle" /\ pc'[r] = "update" /\ kind'[r] = "logout" /\ account'[r] = i
        /\ \A q \in Requests \ {r} :
              /\ pc'[q] = pc[q] /\ kind'[q] = kind[q]
              /\ account'[q] = account[q] /\ alone'[q] = alone[q]
        /\ UNCHANGED <<now, customers, stored, presented, token, answer, ended>>
        /\ answer[r] = "none" /\ \E c \in customers : c.id = i
    BY DEF Logout, TypeOK, rows, ReqInv
  <1>2. TypeOK'
    BY DEF Logout, TypeOK, rows, Phases, Kinds
  <1>3. ReqInv(r)'
    BY <1>1 DEF ReqInv
  <1>4. \A q \in Requests : ReqInv(q)'
    BY <1>1, <1>3, OthersKept
  <1>5. ASSUME NEW j \in Ids PROVE IdInv(j)'
    BY <1>1 DEF IdInv, Renewing
  <1>6. AccountsStarted'
    BY <1>1 DEF AccountsStarted
  <1>7. QED
    BY <1>2, <1>4, <1>5, <1>6

LEMMA SignKeepsIInv ==
    ASSUME IInv, NEW r \in Requests, Sign(r)
    PROVE  IInv'
  <1> USE DEF IInv
  <1> USE DEF Goto
  <1>1. /\ pc[r] = "sign" /\ pc'[r] = "update" /\ account[r] \in Ids /\ now \in Nat
        /\ token'[r] = [id |-> account[r], at |-> now] /\ kind[r] \in {"login", "refresh"}
        /\ \A q \in Requests \ {r} : pc'[q] = pc[q] /\ token'[q] = token[q]
        /\ UNCHANGED <<now, customers, stored, kind, account, presented, answer, alone, ended>>
    BY DEF Sign, TypeOK, rows, ReqInv
  <1>2. token'[r] \in Tokens /\ token'[r].id = account[r] /\ token'[r].at = now
    BY <1>1 DEF Tokens
  <1>3. TypeOK'
    <2>1. token' \in [Requests -> Tokens \cup {Null}]
      BY <1>2 DEF Sign, TypeOK
    <2>2. QED
      BY <1>1, <2>1 DEF Sign, TypeOK, Phases
  <1>4. stored[account[r]] # Null => stored[account[r]].at <= now
    BY <1>1 DEF TypeOK
  <1>5. ReqInv(r)'
    BY <1>1, <1>2, <1>4 DEF ReqInv
  <1>6. \A q \in Requests : ReqInv(q)'
    BY <1>1, <1>5, OthersKept
  <1>7. ASSUME NEW i \in Ids PROVE IdInv(i)'
    BY <1>1 DEF IdInv, Renewing
  <1>8. AccountsStarted'
    BY <1>1 DEF AccountsStarted
  <1>9. QED
    BY <1>3, <1>6, <1>7, <1>8

\* The UPDATE: the only step that writes refresh_token.
LEMMA StoreKeepsIInv ==
    ASSUME IInv, NEW r \in Requests, Store(r)
    PROVE  IInv'
  <1> USE DEF IInv
  <1> DEFINE i == account[r]
  <1>1. /\ pc[r] = "update" /\ pc'[r] = "stored" /\ i \in Ids
        /\ \A q \in Requests \ {r} : pc'[q] = pc[q]
        /\ UNCHANGED <<now, customers, kind, account, presented, token, answer>>
        /\ stored'[i] = NewValue(r) /\ \A j \in Ids \ {i} : stored'[j] = stored[j]
        /\ \A q \in Requests : alone'[q] = (q = r \/ (alone[q] /\ account[q] # i))
    BY DEF Store, Goto, TypeOK, ReqInv
  <1>2. \/ NewValue(r) = Null
        \/ NewValue(r) \in Tokens /\ NewValue(r).id = i /\ NewValue(r).at <= now
    BY <1>1 DEF ReqInv, NewValue
  <1>3. TypeOK'
    <2>1. stored' \in [Ids -> Tokens \cup {Null}]
      BY <1>1, <1>2 DEF Store, TypeOK
    <2>2. \A j \in Ids : stored'[j] # Null => stored'[j].id = j /\ stored'[j].at <= now
      BY <1>1, <1>2 DEF TypeOK
    <2>3. /\ pc' \in [Requests -> Phases] /\ alone' \in [Requests -> BOOLEAN]
          /\ ended' \in [Ids -> BOOLEAN]
      BY DEF Store, Goto, TypeOK, Phases
    <2>4. QED
      BY <1>1, <2>1, <2>2, <2>3 DEF TypeOK
  <1>4. ASSUME NEW q \in Requests PROVE ReqInv(q)'
    <2>1. CASE q = r
      BY <1>1, <1>2, <2>1 DEF ReqInv, NewValue
    <2>2. CASE q # r
      <3>1. alone'[q] => alone[q] /\ account[q] # i
        BY <1>1, <2>2
      <3>2. ReqInv(q)
        OBVIOUS
      <3>3. alone'[q] /\ account[q] \in Ids => stored'[account[q]] = stored[account[q]]
        BY <1>1, <3>1
      <3>4. QED
        BY <1>1, <2>2, <3>1, <3>2, <3>3 DEF ReqInv, NewValue
    <2>3. QED
      BY <2>1, <2>2
  <1>5. ASSUME NEW j \in Ids PROVE IdInv(j)'
    <2>1. CASE j # i
      BY <1>1, <2>1 DEF Store, IdInv, Renewing, TypeOK
    <2>2. CASE j = i /\ kind[r] # "logout"
      <3>1. ~ended[i]
        BY <1>1, <2>2 DEF IdInv, Renewing
      <3>2. ended'[i] = ended[i]
        BY <1>1, <2>2 DEF Store, TypeOK
      <3>3. \E c \in customers : c.id = i
        BY <1>1 DEF ReqInv
      <3>4. QED
        BY <1>1, <2>2, <3>1, <3>2, <3>3 DEF IdInv
    <2>3. CASE j = i /\ kind[r] = "logout"
      <3>1. stored'[i] = Null
        BY <1>1, <2>3 DEF NewValue
      <3>2. ended'[i] => \A q \in Requests : ~Renewing(q, i)
        BY <1>1, <2>3 DEF Store, IdInv, TypeOK
      <3>3. \A q \in Requests : Renewing(q, i)' => Renewing(q, i)
        BY <1>1 DEF Renewing
      <3>4. \E c \in customers : c.id = i
        BY <1>1 DEF ReqInv
      <3>5. QED
        BY <1>1, <2>3, <3>1, <3>2, <3>3, <3>4 DEF IdInv
    <2>4. QED
      BY <2>1, <2>2, <2>3
  <1>6. AccountsStarted'
    BY <1>1 DEF AccountsStarted
  <1>7. QED
    BY <1>3, <1>4, <1>5, <1>6

\* Steps that only answer, and the clock.
LEMMA AnswerKeepsIInv ==
    ASSUME IInv, NEW r \in Requests, InsertConflict(r) \/ Reply(r) \/ Fail(r)
    PROVE  IInv'
  <1> USE DEF IInv
  <1>1. /\ pc'[r] = "answered" /\ answer'[r] \in {"ok", "failed"}
        /\ answer'[r] = "ok" => pc[r] = "stored"
        /\ \A q \in Requests \ {r} : pc'[q] = pc[q] /\ answer'[q] = answer[q]
        /\ UNCHANGED <<now, customers, stored, kind, account, presented, token, alone, ended>>
    BY DEF InsertConflict, Reply, Fail, Answer, Goto, TypeOK, rows
  <1>2. TypeOK'
    BY DEF InsertConflict, Reply, Fail, Answer, Goto, TypeOK, rows, Phases
  <1>3. ReqInv(r)'
    BY <1>1 DEF ReqInv, NewValue
  <1>4. \A q \in Requests : ReqInv(q)'
    BY <1>1, <1>3, OthersKept
  <1>5. ASSUME NEW i \in Ids PROVE IdInv(i)'
    BY <1>1 DEF IdInv, Renewing
  <1>6. AccountsStarted'
    BY <1>1 DEF AccountsStarted
  <1>7. QED
    BY <1>2, <1>4, <1>5, <1>6

LEMMA TickKeepsIInv == ASSUME IInv, Tick PROVE IInv'
  <1> USE DEF IInv
  <1>1. /\ now \in Nat /\ now' = now + 1
        /\ UNCHANGED <<customers, stored, pc, kind, account, presented, token, answer, alone,
                       ended>>
    BY DEF Tick, TypeOK, rows
  <1>2. \A t \in Tokens : t.at <= now => t.at <= now'
    BY <1>1 DEF Tokens
  <1>3. \A i \in Ids : stored[i] # Null => stored[i].id = i /\ stored[i].at <= now'
    BY <1>1, <1>2 DEF TypeOK
  <1>4. TypeOK'
    BY <1>1, <1>3 DEF TypeOK
  <1>5. ASSUME NEW q \in Requests PROVE ReqInv(q)'
    BY <1>1, <1>2 DEF ReqInv, NewValue
  <1>6. ASSUME NEW i \in Ids PROVE IdInv(i)'
    BY <1>1 DEF IdInv, Renewing
  <1>7. AccountsStarted'
    BY <1>1 DEF AccountsStarted
  <1>8. QED
    BY <1>4, <1>5, <1>6, <1>7

LEMMA NextKeepsIInv == IInv /\ [Next]_vars => IInv'
  <1> SUFFICES ASSUME IInv, [Next]_vars PROVE IInv'
    OBVIOUS
  <1>1. CASE UNCHANGED vars
    BY <1>1 DEF vars, rows, IInv, TypeOK, ReqInv, NewValue, IdInv, Renewing, AccountsStarted
  <1>2. QED
    BY <1>1, LoginKeepsIInv, InsertKeepsIInv, RefreshKeepsIInv, CompareKeepsIInv,
       LogoutKeepsIInv, SignKeepsIInv, StoreKeepsIInv, AnswerKeepsIInv, TickKeepsIInv
       DEF Next, Arrive, HandlerStep

LEMMA IInvHolds == Spec => []IInv
  BY InitIInv, NextKeepsIInv, PTL DEF Spec
-----------------------------------------------------------------------------

\* Type correctness; a token is stored with the account it was signed for, and a
\* toss user has one account however many first logins run at once.
THEOREM TypeCorrect == Spec => []TypeOK
  <1>1. IInv => TypeOK
    BY DEF IInv
  <1>2. QED
    BY <1>1, IInvHolds, PTL

\* A session ended by a logout that nothing overlapped is not brought back by any
\* token handed out before.
THEOREM LogoutEnds == Spec => []EndedStaysEnded
  <1>1. IInv => EndedStaysEnded
    BY DEF IInv, IdInv, EndedStaysEnded
  <1>2. QED
    BY <1>1, IInvHolds, PTL

\* A token answered with "ok" is the one that will be accepted, until another
\* request writes the account.
THEOREM AnswersUsable == Spec => []OkIsUsable
  <1>1. IInv => OkIsUsable
    BY DEF IInv, ReqInv, NewValue, OkIsUsable
  <1>2. QED
    BY <1>1, IInvHolds, PTL

\* A login or refresh that no other write overlapped replaces a token by one that
\* is not older, and a refresh the one presented to it.
THEOREM AloneFaithful == Spec => AloneIsFaithful
  <1>1. ASSUME IInv, [Next]_vars, NEW r \in Requests, Writes(r), alone[r], kind[r] # "logout"
        PROVE  LET before == stored[account[r]]
                   after  == stored'[account[r]]
               IN  /\ before # Null => after # Null /\ before.at <= after.at
                   /\ kind[r] = "refresh" => before = presented[r]
    <2>1. Store(r)
      <3>1. pc[r] = "update" /\ pc'[r] = "stored" /\ TypeOK
        BY <1>1 DEF Writes, IInv
      <3>2. ASSUME NEW q \in Requests, Store(q), q # r PROVE FALSE
        BY <3>1, <3>2 DEF Store, Goto, TypeOK
      <3>3. ASSUME NEW q \in Requests, Arrive(q) PROVE FALSE
        BY <3>1, <3>3 DEF Arrive, Login, Refresh, Logout, Calls, Enter, Answer, Goto, TypeOK
      <3>4. ASSUME NEW q \in Requests, HandlerStep(q), ~Store(q) PROVE FALSE
        BY <3>1, <3>4 DEF HandlerStep, Insert, InsertConflict, Compare, Sign, Reply, Fail,
                          Enter, Answer, Goto, TypeOK
      <3>5. ~Tick /\ ~UNCHANGED vars
        BY <3>1 DEF Tick, vars
      <3>6. QED
        BY <1>1, <3>2, <3>3, <3>4, <3>5 DEF Next
    <2>2. ReqInv(r) /\ account[r] \in Ids /\ pc[r] = "update"
      BY <1>1, <2>1 DEF IInv, ReqInv, Store
    <2>3. stored'[account[r]] = token[r]
      BY <1>1, <2>1, <2>2 DEF Store, NewValue, IInv, TypeOK
    <2>4. token[r] # Null
      BY <1>1, <2>2, SessionConstants DEF ReqInv
    <2>5. QED
      BY <1>1, <2>2, <2>3, <2>4 DEF ReqInv
  <1>2. IInv /\ [Next]_vars =>
           [\A r \in Requests :
               Writes(r) /\ alone[r] /\ kind[r] # "logout" =>
                  LET before == stored[account[r]]
                      after  == stored'[account[r]]
                  IN  /\ before # Null => after # Null /\ before.at <= after.at
                      /\ kind[r] = "refresh" => before = presented[r]]_vars
    BY <1>1
  <1>3. QED
    BY <1>2, IInvHolds, PTL DEF Spec, AloneIsFaithful
=============================================================================
