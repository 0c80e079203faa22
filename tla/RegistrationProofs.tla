------------------------- MODULE RegistrationProofs -------------------------
(***************************************************************************)
(* For any number of registrations, emails and connections: no user is     *)
(* ever partially onboarded and no email gets two accounts.  The argument  *)
(* is about the transactions still open: each holds a user and an email    *)
(* that no committed account and no other open transaction has (IndInv),   *)
(* so that the COMMIT of one never makes the others' rows wrong.           *)
(* And whoever holds an email or a connection goes on, or waits for one    *)
(* who does.                                                               *)
(***************************************************************************)
EXTENDS Registration, FiniteSetTheorems, TLAPS

LEMMA IdleIsSound ==
  ASSUME NEW reply \in Reply
  PROVE  Idle(reply) \in Request /\ Holds(Idle(reply))
         /\ \A r : Apart(Idle(reply), r) /\ Apart(r, Idle(reply))
BY DEF Idle, Request, Optional, Step, InTransactionStep, Holds, Apart

\* One request changes and the table does not.
LEMMA RequestStep ==
  ASSUME IndInv, NEW c \in Client, NEW r \in Request, req' = [req EXCEPT ![c] = r],
         accounts' = accounts, cleanups' \subseteq Client, Holds(r),
         \A d \in Client \ {c} : Apart(r, req[d]) /\ Apart(req[d], r)
  PROVE  IndInv'
<1>1. TypeOK' /\ Onboarded' /\ EmailsUnique'
  BY DEF IndInv, TypeOK, Onboarded, EmailsUnique
<1>2. \A d \in Client : req'[d] = IF d = c THEN r ELSE req[d]
  BY DEF IndInv, TypeOK
<1>3. \A d \in Client : Holds(req[d])'
  BY <1>2 DEF IndInv, Holds, Registered
<1>4. \A d, e \in Client : d # e => Apart(req[d], req[e])'
  BY <1>2 DEF IndInv, Apart
<1> QED BY <1>1, <1>3, <1>4 DEF IndInv

LEMMA AnswerStep ==
  ASSUME IndInv, UNCHANGED <<accounts, cleanups>>, NEW c \in Client, NEW reply \in Reply,
         Answer(c, reply)
  PROVE  IndInv'
BY IdleIsSound, RequestStep DEF Answer, IndInv, TypeOK

-----------------------------------------------------------------------------
LEMMA RegisterStep ==
  ASSUME IndInv, NEW c \in Client, NEW e \in Email, Register(c, e)
  PROVE  IndInv'
<1> DEFINE r == [Idle("NONE") EXCEPT !.at = "findUserIdByEmail", !.email = e]
<1>1. r \in Request /\ Holds(r) /\ r.account = None
  BY DEF Idle, Request, Optional, Step, InTransactionStep, Reply, Holds
<1>2. \A d \in Client : Apart(r, req[d]) /\ Apart(req[d], r)
  BY <1>1 DEF Apart
<1>3. req' = [req EXCEPT ![c] = r] /\ UNCHANGED <<accounts, cleanups>>
  BY DEF Register
<1> HIDE DEF r
<1> QED BY <1>1, <1>2, <1>3, RequestStep DEF IndInv, TypeOK

\* The steps before createUser, which hold nothing.
LEMMA EarlyStep ==
  ASSUME IndInv, NEW c \in Client, At(c, "findUserIdByEmail") \/ At(c, "begin"),
         NEW step \in {"begin", "createUser"}, req' = [req EXCEPT ![c].at = step],
         UNCHANGED <<accounts, cleanups>>
  PROVE  IndInv'
<1>1. PICK r \in Request : r = [req[c] EXCEPT !.at = step] /\ Holds(r) /\ r.account = None
  <2> DEFINE q == [req[c] EXCEPT !.at = step]
  <2>1. req[c] \in Request /\ req[c].email \in Email /\ req[c].user = None /\ req[c].account = None
    BY DEF At, IndInv, TypeOK, Holds, Step
  <2>2. /\ q \in Request /\ q.at = step /\ q.email = req[c].email
        /\ q.user = None /\ q.account = None
    BY <2>1 DEF Request, Step, InTransactionStep
  <2>3. Holds(q)
    BY <2>1, <2>2 DEF Holds
  <2> QED BY <2>2, <2>3
<1>2. \A d \in Client : Apart(r, req[d]) /\ Apart(req[d], r)
  BY <1>1 DEF Apart
<1>3. req' = [req EXCEPT ![c] = r]
  BY <1>1 DEF IndInv, TypeOK
<1> QED BY <1>1, <1>2, <1>3, RequestStep DEF IndInv, TypeOK

\* The email is free, and locked by nobody: no open transaction has it.
LEMMA CreateUserStep ==
  ASSUME IndInv, NEW c \in Client, CreateUser(c)
  PROVE  IndInv'
<1> USE NoneIsFresh DEF Optional
<1>1. CASE Answer(c, "INTERNAL_SERVER_ERROR") /\ UNCHANGED accounts
  BY <1>1, AnswerStep DEF CreateUser, Reply
<1>2. ASSUME NEW u \in UserId, ~Drawn(u), UniqueEmail(req[c].email),
             accounts' = CreatedUser(u, NewAccount(req[c].email)),
             req' = [req EXCEPT ![c].at = "createDefaultCategories", ![c].user = u,
                                ![c].account = NewAccount(req[c].email)]
      PROVE  IndInv'
  <2>1. req[c] \in Request /\ req[c].email \in Email /\ ~Locked(req[c].email, c)
    BY DEF CreateUser, At, IndInv, TypeOK, Holds, Step, InTransactionStep
  <2>2. PICK r \in Request :
          /\ r = [req[c] EXCEPT !.at = "createDefaultCategories", !.user = u,
                                !.account = NewAccount(req[c].email)]
          /\ r.at = "createDefaultCategories" /\ r.email = req[c].email /\ r.user = u
          /\ r.account \in Account /\ r.account.email = req[c].email /\ r.account.role = "USER"
    <3> DEFINE a == NewAccount(req[c].email)
               q == [req[c] EXCEPT !.at = "createDefaultCategories", !.user = u, !.account = a]
    <3>1. a \in Account /\ a.email = req[c].email /\ a.role = "USER"
      BY <2>1 DEF NewAccount, Account, Role
    <3> HIDE DEF a
    <3>2. /\ q \in Request /\ q.at = "createDefaultCategories" /\ q.email = req[c].email
          /\ q.user = u /\ q.account = a
      BY <2>1, <3>1 DEF Request, Step, InTransactionStep
    <3> QED BY <3>1, <3>2 DEF a
  <2>3. req' = [req EXCEPT ![c] = r] /\ accounts' = accounts
    BY <1>2, <2>2 DEF CreatedUser, IndInv, TypeOK
  <2>4. Holds(r)
    BY <1>2, <2>1, <2>2 DEF Holds, Drawn, UniqueEmail
  <2>5. ASSUME NEW d \in Client \ {c} PROVE Apart(r, req[d]) /\ Apart(req[d], r)
    <3>1. req[d].account # None => InTransaction(d)
      BY <2>5 DEF IndInv, Holds, InTransaction, InTransactionStep
    <3> QED BY <1>2, <2>1, <2>2, <2>5, <3>1 DEF Apart, Locked, Drawn
  <2>6. cleanups' \subseteq Client
    BY DEF CreateUser, IndInv, TypeOK
  <2> QED BY <2>2, <2>3, <2>4, <2>5, <2>6, RequestStep
<1> QED BY <1>1, <1>2 DEF CreateUser

LEMMA CreateDefaultCategoriesStep ==
  ASSUME IndInv, NEW c \in Client, CreateDefaultCategories(c)
  PROVE  IndInv'
<1> USE DEF Optional
<1>1. CASE Answer(c, "INTERNAL_SERVER_ERROR")
  BY <1>1, AnswerStep DEF CreateDefaultCategories, Reply
<1>2. CASE req' = [req EXCEPT ![c].at = "createSession", ![c].account.categories = TRUE]
  <2>1. /\ req[c] \in Request /\ Holds(req[c]) /\ req[c].at = "createDefaultCategories"
        /\ req[c].account \in Account
    BY DEF CreateDefaultCategories, At, IndInv, TypeOK, Holds
  <2>2. PICK r \in Request :
          /\ r = [req[c] EXCEPT !.at = "createSession", !.account.categories = TRUE]
          /\ r.at = "createSession" /\ r.email = req[c].email /\ r.user = req[c].user
          /\ r.account \in Account /\ r.account.email = req[c].account.email
          /\ r.account.categories /\ r.account.role = req[c].account.role
    <3> DEFINE a == [req[c].account EXCEPT !.categories = TRUE]
               q == [req[c] EXCEPT !.at = "createSession", !.account = a]
    <3>1. /\ a \in Account /\ a.email = req[c].account.email /\ a.categories
          /\ a.role = req[c].account.role
      BY <2>1 DEF Account
    <3> HIDE DEF a
    <3>2. /\ q \in Request /\ q.at = "createSession" /\ q.email = req[c].email
          /\ q.user = req[c].user /\ q.account = a
      BY <2>1, <3>1 DEF Request, Step, InTransactionStep
    <3>3. q = [req[c] EXCEPT !.at = "createSession", !.account.categories = TRUE]
      BY DEF a
    <3> QED BY <3>1, <3>2, <3>3
  <2>3. req' = [req EXCEPT ![c] = r]
    BY <1>2, <2>2 DEF IndInv, TypeOK
  <2>4. Holds(r)
    BY <2>1, <2>2 DEF Holds, Step, InTransactionStep
  <2>5. \A d \in Client \ {c} : Apart(r, req[d]) /\ Apart(req[d], r)
    BY <2>1, <2>2, NoneIsFresh DEF IndInv, Apart, Holds
  <2>6. accounts' = accounts /\ cleanups' \subseteq Client
    BY DEF CreateDefaultCategories, IndInv, TypeOK
  <2> QED BY <2>2, <2>3, <2>4, <2>5, <2>6, RequestStep
<1> QED BY <1>1, <1>2 DEF CreateDefaultCategories, Answer

LEMMA StartCleanupStep ==
  ASSUME IndInv, NEW c \in Client, StartCleanup(c)
  PROVE  IndInv'
<1>1. PICK r \in Request :
        /\ r = [req[c] EXCEPT !.at = "commit"]
        /\ r.at = "commit" /\ r.email = req[c].email /\ r.user = req[c].user
        /\ r.account = req[c].account
  <2> DEFINE q == [req[c] EXCEPT !.at = "commit"]
  <2>1. /\ q \in Request /\ q.at = "commit" /\ q.email = req[c].email /\ q.user = req[c].user
        /\ q.account = req[c].account
    BY DEF IndInv, TypeOK, Request, Step, InTransactionStep
  <2> QED BY <2>1
<1>2. req' = [req EXCEPT ![c] = r]
  BY <1>1 DEF StartCleanup, IndInv, TypeOK
<1>3. Holds(r)
  BY <1>1 DEF StartCleanup, At, IndInv, Holds, Step, InTransactionStep
<1>4. \A d \in Client \ {c} : Apart(r, req[d]) /\ Apart(req[d], r)
  BY <1>1 DEF IndInv, Apart
<1>5. accounts' = accounts /\ cleanups' \subseteq Client
  BY DEF StartCleanup, IndInv, TypeOK
<1> QED BY <1>1, <1>2, <1>3, <1>4, <1>5, RequestStep

\* COMMIT: the account is complete, and its email and user are nobody else's.
LEMMA CommitStep ==
  ASSUME IndInv, NEW c \in Client, Commit(c)
  PROVE  IndInv'
<1> USE NoneIsFresh DEF Optional
<1> DEFINE u == req[c].user
           account == [req[c].account EXCEPT !.session = TRUE]
<1>1. /\ u \in UserId /\ accounts[u] = None /\ ~Registered(req[c].email)
      /\ req[c].account \in Account /\ req[c].account.email = req[c].email
      /\ req[c].account.categories
  BY DEF Commit, At, IndInv, Holds
<1>2. /\ account \in Account /\ account.email = req[c].email
      /\ account.categories /\ account.session
  BY <1>1 DEF Account
<1>3. accounts' = [accounts EXCEPT ![u] = account]
  BY DEF Commit
<1>4. PICK reply \in Reply : req' = [req EXCEPT ![c] = Idle(reply)]
  BY DEF Commit, Answer, Reply
<1> HIDE DEF u, account
<1>5. accounts' \in [UserId -> Optional(Account)]
  BY <1>1, <1>2, <1>3 DEF IndInv, TypeOK
<1>6. \A v \in UserId : accounts'[v] = IF v = u THEN account ELSE accounts[v]
  BY <1>3 DEF IndInv, TypeOK
<1>7. \A d \in Client : req'[d] = IF d = c THEN Idle(reply) ELSE req[d]
  BY <1>4 DEF IndInv, TypeOK
<1>8. TypeOK'
  BY <1>4, <1>5, IdleIsSound DEF Commit, IndInv, TypeOK
<1>9. Onboarded'
  BY <1>2, <1>6 DEF IndInv, Onboarded
<1>10. EmailsUnique'
  BY <1>1, <1>2, <1>6 DEF IndInv, EmailsUnique, Registered
<1>11. ASSUME NEW d \in Client PROVE Holds(req[d])'
  <2>1. CASE d = c
    BY <1>7, <2>1, IdleIsSound DEF Idle, Holds, Step, InTransactionStep
  <2>2. CASE d # c
    <3>1. req'[d] = req[d] /\ Holds(req[d]) /\ Apart(req[c], req[d])
      BY <1>7, <2>2 DEF IndInv
    <3>2. req[d].account # None => req[d].user # u /\ req[d].account.email # req[c].email
      BY <1>1, <3>1 DEF Apart, u
    <3>3. req[d].at \in {"createDefaultCategories", "createSession", "commit"} =>
            accounts'[req[d].user] = None /\ ~Registered(req[d].email)'
      BY <1>2, <1>6, <3>1, <3>2 DEF Holds, Registered
    <3> QED BY <3>1, <3>3 DEF Holds
  <2> QED BY <2>1, <2>2
<1>12. \A d, e \in Client : d # e => Apart(req[d], req[e])'
  BY <1>7, IdleIsSound DEF IndInv, Apart
<1> QED BY <1>8, <1>9, <1>10, <1>11, <1>12 DEF IndInv

-----------------------------------------------------------------------------
\* The seed: no open registration has its email.
LEMMA SeedAdminStep ==
  ASSUME IndInv, SeedAdmin
  PROVE  IndInv'
<1> USE NoneIsFresh DEF Optional
<1>1. /\ AdminEmail \in Email /\ req' = req /\ cleanups' = cleanups
      /\ \A d \in Client : req[d].account # None => req[d].account.email # AdminEmail
  <2>1. \A d \in Client : req[d].account # None => InTransaction(d)
    BY DEF IndInv, Holds, InTransaction, InTransactionStep
  <2> QED BY <2>1, AdminTyped DEF SeedAdmin, Locked
<1>2. PICK u \in UserId, account \in Account :
        /\ accounts' = [accounts EXCEPT ![u] = account]
        /\ account.email = AdminEmail /\ account.role = "ADMIN"
        /\ \/ /\ accounts[u] # None /\ accounts[u].email = AdminEmail
              /\ account.categories = accounts[u].categories
              /\ account.session = accounts[u].session
           \/ /\ ~Registered(AdminEmail) /\ ~Drawn(u)
              /\ ~account.categories /\ ~account.session
  <2>1. ASSUME NEW u \in UserId, accounts[u] # None, accounts[u].email = AdminEmail
        PROVE  /\ Promoted(accounts[u]) \in Account
               /\ Promoted(accounts[u]).email = AdminEmail /\ Promoted(accounts[u]).role = "ADMIN"
               /\ Promoted(accounts[u]).categories = accounts[u].categories
               /\ Promoted(accounts[u]).session = accounts[u].session
    <3>1. accounts[u] \in Account
      BY <2>1 DEF IndInv, TypeOK
    <3> QED BY <2>1, <3>1 DEF Promoted, Account, Role
  <2>2. /\ SeededAccount(AdminEmail) \in Account
        /\ SeededAccount(AdminEmail).email = AdminEmail /\ SeededAccount(AdminEmail).role = "ADMIN"
        /\ ~SeededAccount(AdminEmail).categories /\ ~SeededAccount(AdminEmail).session
    BY <1>1 DEF SeededAccount, Account, Role
  <2> QED BY <2>1, <2>2 DEF SeedAdmin
<1>3. \A v \in UserId : accounts'[v] = IF v = u THEN account ELSE accounts[v]
  BY <1>2 DEF IndInv, TypeOK
<1>4. TypeOK'
  BY <1>1, <1>2 DEF IndInv, TypeOK
<1>5. Onboarded'
  BY <1>2, <1>3 DEF IndInv, Onboarded
<1>6. EmailsUnique'
  BY <1>2, <1>3 DEF IndInv, EmailsUnique, Registered
<1>7. ASSUME NEW d \in Client PROVE Holds(req[d])'
  <2>1. Holds(req[d])
    BY DEF IndInv
  <2>2. req[d].at \in {"createDefaultCategories", "createSession", "commit"} =>
          accounts'[req[d].user] = None /\ ~Registered(req[d].email)'
    BY <1>1, <1>2, <1>3, <2>1 DEF Holds, Registered, Drawn
  <2> QED BY <1>1, <2>1, <2>2 DEF Holds
<1>8. \A d, e \in Client : d # e => Apart(req[d], req[e])'
  BY <1>1 DEF IndInv, Apart
<1> QED BY <1>4, <1>5, <1>6, <1>7, <1>8 DEF IndInv

LEMMA InitSatisfiesInv == Init => IndInv
BY IdleIsSound DEF Init, IndInv, TypeOK, Optional, Onboarded, EmailsUnique, Reply

LEMMA NextPreservesInv == IndInv /\ [Next]_vars => IndInv'
<1> SUFFICES ASSUME IndInv, [Next]_vars PROVE IndInv'
  OBVIOUS
<1>1. ASSUME NEW c \in Client, FindUserIdByEmail(c) PROVE IndInv'
  <2>1. CASE Answer(c, "EMAIL_ALREADY_EXISTS")
    BY <1>1, <2>1, AnswerStep DEF FindUserIdByEmail, Reply
  <2>2. CASE req' = [req EXCEPT ![c].at = "begin"]
    BY <1>1, <2>2, EarlyStep DEF FindUserIdByEmail
  <2> QED BY <1>1, <2>1, <2>2 DEF FindUserIdByEmail
<1>2. ASSUME NEW c \in Client, BeginTransaction(c) PROVE IndInv'
  BY <1>2, EarlyStep DEF BeginTransaction
<1>3. ASSUME NEW c \in Client, FinishCleanup(c) \/ UNCHANGED vars PROVE IndInv'
  BY <1>3 DEF FinishCleanup, vars, IndInv, TypeOK, Onboarded, EmailsUnique, Holds, Registered, Apart
<1>4. ASSUME NEW c \in Client, Fail(c) PROVE IndInv'
  BY <1>4, AnswerStep DEF Fail, Reply
<1>5. CASE UNCHANGED vars
  BY <1>5 DEF vars, IndInv, TypeOK, Onboarded, EmailsUnique, Holds, Registered, Apart
<1> QED BY <1>1, <1>2, <1>3, <1>4, <1>5, RegisterStep, CreateUserStep, CreateDefaultCategoriesStep,
           StartCleanupStep, CommitStep, SeedAdminStep DEF Next, Proceed

\* The invariant of every execution of registerWithDefaults.
THEOREM Invariance == Spec => []IndInv
BY InitSatisfiesInv, NextPreservesInv, PTL DEF Spec

\* Rows and requests hold values of their types.
THEOREM TypeCorrect == Spec => []TypeOK
<1>1. IndInv => TypeOK
  BY DEF IndInv
<1> QED BY <1>1, Invariance, PTL

\* Registration never leaves a partially onboarded user behind, whatever fails.
THEOREM NoHalfOnboardedUser == Spec => []Onboarded
<1>1. IndInv => Onboarded
  BY DEF IndInv
<1> QED BY <1>1, Invariance, PTL

\* Registrations racing for an email create one account.
THEOREM OneAccountPerEmail == Spec => []EmailsUnique
<1>1. IndInv => EmailsUnique
  BY DEF IndInv
<1> QED BY <1>1, Invariance, PTL

-----------------------------------------------------------------------------
(* Waiting.                                                                *)

\* c waits for others: for a connection, for an email whose registration is open,
\* or for cleanups.
Waits(c) == \/ req[c].at \in {"findUserIdByEmail", "begin"} /\ ~FreeConnection
            \/ At(c, "createUser") /\ Locked(req[c].email, c)
            \/ At(c, "commit") /\ Awaited(c) # {}

\* Transactions that hold connections, requests that need one, registrations of one
\* email and the cleanups they start never wait in a circle: while anything waits,
\* some transaction does not, whose end frees a connection and its email.
SomebodyGoesOn ==
  (\E c \in Client : Waits(c)) \/ (cleanups # {} /\ ~FreeConnection)
    => \E d \in Client : InTransaction(d) /\ ~Waits(d)

\* Who holds an email has passed the statement that waits for one, and nothing
\* after it waits.
LEMMA HoldersGoOn ==
  ASSUME IndInv, NEW c \in Client, At(c, "createUser"), Locked(req[c].email, c)
  PROVE  \E d \in Client : InTransaction(d) /\ ~Waits(d)
<1>1. PICK d \in Client : InTransaction(d) /\ req[d].account # None
  BY DEF Locked
<1>2. req[d].at \in {"createDefaultCategories", "createSession", "commit"}
  BY <1>1 DEF IndInv, Holds
<1> QED BY <1>1, <1>2 DEF Waits, At, Awaited

LEMMA FullPoolGoesOn ==
  ASSUME IndInv, ~FreeConnection
  PROVE  \E d \in Client : InTransaction(d) /\ ~Waits(d)
<1>1. PICK d \in Client : InTransaction(d)
  <2>1. CASE {c \in Client : InTransaction(c)} = {}
    <3>1. Cardinality({c \in Client : InTransaction(c)}) = 0
      BY <2>1, FS_EmptySet
    <3> QED BY <3>1, PoolTyped DEF FreeConnection
  <2> QED BY <2>1
<1>2. CASE At(d, "createUser") /\ Locked(req[d].email, d)
  BY <1>2, HoldersGoOn
<1>3. CASE ~(At(d, "createUser") /\ Locked(req[d].email, d))
  BY <1>1, <1>3 DEF Waits, At, Awaited, InTransaction, InTransactionStep
<1> QED BY <1>2, <1>3

\* Registrations, their cleanups and the statements that need a connection never
\* wait in a circle, however small the pool.
THEOREM NoCircleOfWaits == Spec => []SomebodyGoesOn
<1>1. IndInv => SomebodyGoesOn
  <2> SUFFICES ASSUME IndInv, ~(\E d \in Client : InTransaction(d) /\ ~Waits(d))
               PROVE  FreeConnection /\ ~(\E c \in Client : Waits(c))
    BY DEF SomebodyGoesOn
  <2>1. FreeConnection
    BY FullPoolGoesOn
  <2>2. ASSUME NEW c \in Client, Waits(c) PROVE FALSE
    BY <2>1, <2>2, HoldersGoOn DEF Waits, Awaited
  <2> QED BY <2>1, <2>2
<1> QED BY <1>1, Invariance, PTL

-----------------------------------------------------------------------------
(* The services implement AccountsContract.                                *)

Summary(account) == [role |-> account.role, onboarded |-> account.categories /\ account.session]
Having(e)        == {v \in UserId : accounts[v] # None /\ accounts[v].email = e}
Holders          == [e \in Email |-> {Summary(accounts[v]) : v \in Having(e)}]

\* A step that writes the one account of an email.
LEMMA OneAccountWritten ==
  ASSUME IndInv, EmailsUnique', NEW u \in UserId, NEW account \in Account,
         accounts' = [accounts EXCEPT ![u] = account],
         accounts[u] = None \/ accounts[u].email = account.email
  PROVE  Holders' = [Holders EXCEPT ![account.email] = {Summary(account)}]
<1> DEFINE mail == account.email
<1>1. \A v \in UserId : accounts'[v] = IF v = u THEN account ELSE accounts[v]
  BY DEF IndInv, TypeOK
<1>2. account # None /\ mail \in Email
  BY NoneIsFresh DEF Account
<1>3. Having(mail)' = {u}
  BY <1>1, <1>2 DEF Having, EmailsUnique
<1>4. {Summary(accounts'[v]) : v \in Having(mail)'} = {Summary(account)}
  BY <1>1, <1>3
<1>5. ASSUME NEW e \in Email, e # mail
      PROVE  {Summary(accounts'[v]) : v \in Having(e)'} = {Summary(accounts[v]) : v \in Having(e)}
  <2>1. u \notin Having(e)' /\ u \notin Having(e)
    BY <1>1, <1>5 DEF Having
  <2>2. Having(e)' = Having(e)
    BY <1>1, <2>1 DEF Having
  <2>3. \A v \in Having(e) : accounts'[v] = accounts[v]
    BY <1>1, <2>1 DEF Having
  <2> HIDE DEF mail
  <2> QED BY <2>2, <2>3
<1>6. \A e \in Email : {Summary(accounts'[v]) : v \in Having(e)'} =
                         IF e = mail THEN {Summary(account)} ELSE {Summary(accounts[v]) : v \in Having(e)}
  BY <1>4, <1>5
<1>7. Holders' = [e \in Email |-> {Summary(accounts'[v]) : v \in Having(e)'}]
  BY DEF Holders, Summary
<1> HIDE DEF mail
<1>8. Holders' = [Holders EXCEPT ![mail] = {Summary(account)}]
  BY <1>6, <1>7 DEF Holders
<1> QED BY <1>8 DEF mail

LEMMA FreeEmailHasNoHolder ==
  ASSUME NEW e \in Email, ~Registered(e)
  PROVE  Holders[e] = {}
<1>1. Having(e) = {}
  BY DEF Having, Registered
<1> QED BY <1>1 DEF Holders

LEMMA CommitRefines ==
  ASSUME IndInv, EmailsUnique', NEW c \in Client, Commit(c)
  PROVE  \E e \in Email : Contract!Register(e)
<1> DEFINE account == [req[c].account EXCEPT !.session = TRUE]
<1>1. /\ req[c].user \in UserId /\ accounts[req[c].user] = None
      /\ req[c].account \in Account /\ req[c].account.email = req[c].email
      /\ ~Registered(req[c].email) /\ req[c].account.categories
  BY DEF Commit, At, IndInv, Holds
<1>2. /\ account \in Account /\ account.email = req[c].email /\ account.role = req[c].account.role
      /\ account.categories /\ account.session
  BY <1>1 DEF Account
<1>3. account.role = "USER"
  BY <1>1, <1>2 DEF IndInv, Commit, At, Holds
<1>4. accounts' = [accounts EXCEPT ![req[c].user] = account]
  BY DEF Commit
<1> HIDE DEF account
<1>5. Holders' = [Holders EXCEPT ![req[c].email] = {Summary(account)}]
  BY <1>1, <1>2, <1>4, OneAccountWritten
<1>6. Summary(account) = [role |-> "USER", onboarded |-> TRUE]
  BY <1>2, <1>3 DEF Summary
<1>7. PICK e \in Email : e = req[c].email
  BY <1>2 DEF Account
<1>8. Holders[e] = {} /\ Holders' = [Holders EXCEPT ![e] = {[role |-> "USER", onboarded |-> TRUE]}]
  BY <1>1, <1>5, <1>6, <1>7, FreeEmailHasNoHolder
<1>9. Contract!Register(e)
  BY <1>8 DEF Contract!Register, Holders, Having, Summary
<1> QED BY <1>9

LEMMA SeedAdminRefines ==
  ASSUME IndInv, EmailsUnique', SeedAdmin
  PROVE  AdminEmail \in Email /\ Contract!Seed(AdminEmail)
<1>1. AdminEmail \in Email
  BY AdminTyped DEF SeedAdmin, Optional
<1>2. ASSUME NEW u \in UserId, accounts[u] # None, accounts[u].email = AdminEmail,
             accounts' = [accounts EXCEPT ![u] = Promoted(accounts[u])]
      PROVE  Contract!Seed(AdminEmail)
  <2> DEFINE account == Promoted(accounts[u])
  <2>1. accounts[u] \in Account
    BY <1>2 DEF IndInv, TypeOK, Optional
  <2>2. /\ account \in Account /\ account.email = AdminEmail
        /\ Summary(account) = [role |-> "ADMIN", onboarded |-> Summary(accounts[u]).onboarded]
    BY <1>2, <2>1 DEF Promoted, Account, Role, Summary
  <2> HIDE DEF account
  <2>3. Holders' = [Holders EXCEPT ![AdminEmail] = {Summary(account)}]
    <3>1. accounts' = [accounts EXCEPT ![u] = account]
      BY <1>2 DEF account
    <3> QED BY <1>2, <2>2, <3>1, OneAccountWritten
  <2>4. Summary(accounts[u]) \in Holders[AdminEmail]
    BY <1>1, <1>2 DEF Holders, Having
  <2>5. \E a \in Holders[AdminEmail] :
          Holders' = [Holders EXCEPT ![AdminEmail] = {[role |-> "ADMIN", onboarded |-> a.onboarded]}]
    BY <2>2, <2>3, <2>4
  <2> QED BY <2>5 DEF Contract!Seed, Holders, Having, Summary
<1>3. ASSUME NEW u \in UserId, ~Registered(AdminEmail), ~Drawn(u),
             accounts' = [accounts EXCEPT ![u] = SeededAccount(AdminEmail)]
      PROVE  Contract!Seed(AdminEmail)
  <2> DEFINE account == SeededAccount(AdminEmail)
  <2>1. /\ account \in Account /\ account.email = AdminEmail
        /\ Summary(account) = [role |-> "ADMIN", onboarded |-> FALSE]
    BY <1>1 DEF SeededAccount, Account, Role, Summary
  <2>2. accounts[u] = None
    BY <1>3 DEF Drawn
  <2> HIDE DEF account
  <2>3. Holders' = [Holders EXCEPT ![AdminEmail] = {Summary(account)}]
    <3>1. accounts' = [accounts EXCEPT ![u] = account]
      BY <1>3 DEF account
    <3> QED BY <2>1, <2>2, <3>1, OneAccountWritten
  <2>4. Holders[AdminEmail] = {}
    BY <1>1, <1>3, FreeEmailHasNoHolder
  <2>5. Holders' = [Holders EXCEPT ![AdminEmail] = {[role |-> "ADMIN", onboarded |-> FALSE]}]
    BY <2>1, <2>3
  <2> QED BY <2>4, <2>5 DEF Contract!Seed, Holders, Having, Summary
<1> QED BY <1>1, <1>2, <1>3 DEF SeedAdmin

\* Wherever registrations overlap, wait and are cut off: each email gets its one
\* account in a single step.
THEOREM AccountsRefinement == Spec => ImplementsContract
<1>1. Init => Contract!Init
  <2> SUFFICES ASSUME Init PROVE Contract!Init
    OBVIOUS
  <2>1. \A e \in Email : ~Registered(e)
    BY DEF Init, Registered
  <2>2. Holders = [e \in Email |-> {}]
    BY <2>1, FreeEmailHasNoHolder DEF Holders
  <2> QED BY <2>2 DEF Contract!Init, Holders, Having, Summary
<1>2. IndInv /\ IndInv' /\ [Next]_vars => [Contract!Next]_(Contract!vars)
  <2> SUFFICES ASSUME IndInv, IndInv', [Next]_vars PROVE [Contract!Next]_(Contract!vars)
    OBVIOUS
  <2>1. ASSUME NEW c \in Client, Commit(c) PROVE Contract!Next
    <3>1. EmailsUnique'
      BY DEF IndInv
    <3> QED BY <2>1, <3>1, CommitRefines DEF Contract!Next
  <2>2. CASE SeedAdmin
    BY <2>2, SeedAdminRefines DEF Contract!Next, IndInv
  <2>3. CASE accounts' = accounts
    BY <2>3 DEF Contract!vars
  <2>4. \/ \E c \in Client : Commit(c)
        \/ SeedAdmin
        \/ accounts' = accounts
    BY DEF Next, Proceed, Register, FindUserIdByEmail, BeginTransaction, CreateUser, CreatedUser,
           CreateDefaultCategories, StartCleanup, FinishCleanup, Fail, vars
  <2> QED BY <2>1, <2>2, <2>3, <2>4
<1> QED BY <1>1, <1>2, Invariance, PTL DEF Spec, ImplementsContract, Contract!Spec
=============================================================================
