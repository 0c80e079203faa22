---------------------------- MODULE Registration ----------------------------
(***************************************************************************)
(* POST /auth/register: AuthService.register and                           *)
(* AuthRegistrationService.registerWithDefaults, which creates the user,   *)
(* the default categories and the first session in one interactive         *)
(* transaction; and the script prisma/seed.ts, which may make the account  *)
(* of one email an administrator at any time.                              *)
(*                                                                         *)
(* Registrations run concurrently.  What a transaction wrote is kept in    *)
(* its request until COMMIT; nobody else sees it, but the unique index on  *)
(* the email makes another INSERT of that email wait for its outcome.  A   *)
(* transaction holds a connection of the pool from BEGIN to its end; any   *)
(* other statement needs a free one for the step it takes.                 *)
(*                                                                         *)
(* Name_Fault is the definition Name with a plausible mistake in it; it is *)
(* not used below, and shows what the property named for it rules out.     *)
(***************************************************************************)
EXTENDS Naturals, FiniteSets

CONSTANTS Email, UserId, Client,
          None,       \* no row, no transaction
          AdminEmail, \* ADMIN_EMAIL of the seed, or None when SEED_ADMIN is off
          PoolSize,   \* connections of the pg pool
          Unlucky     \* clients whose statements may fail or time out, and answers be lost

VARIABLES accounts,   \* what is committed: user id -> account, or None
          cleanups,   \* clients whose request started a session cleanup that still runs
          req         \* client -> its request in flight and the last reply

vars == <<accounts, cleanups, req>>

\* The "User" row with, in brief, whether its default categories and a session exist.
Role        == {"USER", "ADMIN"}
Account     == [email : Email, role : Role, categories : BOOLEAN, session : BOOLEAN]
Optional(S) == S \cup {None}

ASSUME NoneIsFresh    == None \notin Email \cup UserId \cup Account \cup Client
ASSUME AdminTyped     == AdminEmail \in Optional(Email)
ASSUME PoolTyped      == PoolSize \in Nat \ {0}
ASSUME UnluckyTyped   == Unlucky \subseteq Client

InTransactionStep == {"createUser", "createDefaultCategories", "createSession", "commit"}
Step              == {"findUserIdByEmail", "begin"} \cup InTransactionStep

Reply == {"NONE", "OK", "LOST", "EMAIL_ALREADY_EXISTS", "INTERNAL_SERVER_ERROR"}

\* user and account are what the open transaction has written.
Request == [at      : Step \cup {"idle"},
            email   : Optional(Email),
            user    : Optional(UserId),
            account : Optional(Account),
            reply   : Reply]

Idle(reply) == [at |-> "idle", email |-> None, user |-> None, account |-> None, reply |-> reply]

TypeOK == /\ accounts \in [UserId -> Optional(Account)]
          /\ cleanups \subseteq Client
          /\ req \in [Client -> Request]

Init == /\ accounts = [u \in UserId |-> None]
        /\ cleanups = {}
        /\ req = [c \in Client |-> Idle("NONE")]

-----------------------------------------------------------------------------
At(c, step)          == req[c].at = step
Answer(c, reply)     == req' = [req EXCEPT ![c] = Idle(reply)]
InTransaction(c)     == req[c].at \in InTransactionStep
FreeConnection       == Cardinality({c \in Client : InTransaction(c)}) < PoolSize

Registered(e)        == \E u \in UserId : accounts[u] # None /\ accounts[u].email = e

\* An uncommitted row with the email: its unique index entry is waited for.
Locked(e, c) ==
  \E d \in Client \ {c} : InTransaction(d) /\ req[d].account # None /\ req[d].account.email = e

\* User.email @unique
UniqueEmail_Unconstrained(e) == TRUE
UniqueEmail(e)               == ~Registered(e)

Drawn(u) == accounts[u] # None \/ \E c \in Client : req[c].user = u

-----------------------------------------------------------------------------
Register(c, e) ==
  /\ At(c, "idle")
  /\ req' = [req EXCEPT ![c] = [Idle("NONE") EXCEPT !.at = "findUserIdByEmail", !.email = e]]
  /\ UNCHANGED <<accounts, cleanups>>

FindUserIdByEmail(c) ==
  /\ At(c, "findUserIdByEmail")
  /\ FreeConnection
  /\ \/ Registered(req[c].email) /\ Answer(c, "EMAIL_ALREADY_EXISTS")
     \/ ~Registered(req[c].email) /\ req' = [req EXCEPT ![c].at = "begin"]
  /\ UNCHANGED <<accounts, cleanups>>

BeginTransaction(c) ==
  /\ At(c, "begin")
  /\ FreeConnection
  /\ req' = [req EXCEPT ![c].at = "createUser"]
  /\ UNCHANGED <<accounts, cleanups>>

\* The row user.create inserts; its categories and session are still to come.
NewAccount_WithoutEmail(e) ==
  [email |-> None, role |-> "USER", categories |-> FALSE, session |-> FALSE]
NewAccount(e) ==
  [email |-> e, role |-> "USER", categories |-> FALSE, session |-> FALSE]

\* The table after user.create: nothing shows outside the transaction.
CreatedUser_OutsideTransaction(u, account) == [accounts EXCEPT ![u] = account]
CreatedUser(u, account)                    == accounts

\* The unique index refuses the email when its registration was committed since
\* the check: P2002, the transaction is rolled back.
CreateUser(c) ==
  LET e == req[c].email
  IN /\ At(c, "createUser")
     /\ ~Locked(e, c)
     /\ \/ /\ ~UniqueEmail(e)
           /\ Answer(c, "INTERNAL_SERVER_ERROR")
           /\ UNCHANGED accounts
        \/ /\ UniqueEmail(e)
           /\ \E u \in UserId :
                /\ ~Drawn(u)
                /\ accounts' = CreatedUser(u, NewAccount(e))
                /\ req' = [req EXCEPT ![c].at = "createDefaultCategories", ![c].user = u,
                                      ![c].account = NewAccount(e)]
     /\ UNCHANGED cleanups

\* DEFAULT_CATEGORIES, by normalized name.
IncomeNames ==
  {"salary", "business", "freelance", "investments", "bonus", "loan return", "gifts"}
ExpenseNames_WithGifts == {"food", "rent", "fuel", "gifts"}
ExpenseNames ==
  {"food", "rent", "fuel", "transport", "utilities", "internet", "mobile", "family", "health",
   "education", "entertainment", "shopping", "travel", "charity", "zakat", "savings"}
DefaultCategories == [name : IncomeNames, type : {"INCOME"}]
                       \cup [name : ExpenseNames, type : {"EXPENSE"}]

\* Category @@unique([userId, normalizedName]); createMany skips no duplicates.
NamesDiffer == \A k, l \in DefaultCategories : k.name = l.name => k = l

\* Does the connection of createMany see the user its rows refer to?
SeesUser_OutsideTransaction(c) == accounts[req[c].user] # None
SeesUser(c)                    == accounts[req[c].user] # None \/ req[c].account # None

CreateDefaultCategories(c) ==
  /\ At(c, "createDefaultCategories")
  /\ req' = IF SeesUser(c) /\ NamesDiffer
            THEN [req EXCEPT ![c].at = "createSession", ![c].account.categories = TRUE]
            ELSE [req EXCEPT ![c] = Idle("INTERNAL_SERVER_ERROR")]
  /\ UNCHANGED <<accounts, cleanups>>

\* The requests whose cleanup createSession waits for: it does not.
Awaited_OwnCleanup(c) == cleanups \cap {c}
Awaited(c)            == {}

\* generateTokenPair, then createSession: a cleanup on another connection, and the
\* insert on the transaction's.
StartCleanup(c) ==
  /\ At(c, "createSession")
  /\ cleanups' = cleanups \cup {c}
  /\ req' = [req EXCEPT ![c].at = "commit"]
  /\ UNCHANGED accounts

\* The insert, the COMMIT, and the answer, which may be an error or lost although
\* the COMMIT went through.
Commit(c) ==
  LET account == [req[c].account EXCEPT !.session = TRUE]
  IN /\ At(c, "commit")
     /\ Awaited(c) = {}
     /\ accounts' = [accounts EXCEPT ![req[c].user] = account]
     /\ \/ Answer(c, "OK")
        \/ c \in Unlucky /\ \E reply \in {"LOST", "INTERNAL_SERVER_ERROR"} : Answer(c, reply)
     /\ UNCHANGED cleanups

\* deleteExpiredSessions, on a connection of its own; no session expires here.
FinishCleanup(c) ==
  /\ c \in cleanups
  /\ FreeConnection
  /\ cleanups' = cleanups \ {c}
  /\ UNCHANGED <<accounts, req>>

\* A statement fails, no connection comes free in time, or the transaction times
\* out: rolled back, answered 500.
Fail(c) ==
  /\ c \in Unlucky
  /\ ~At(c, "idle")
  /\ Answer(c, "INTERNAL_SERVER_ERROR")
  /\ UNCHANGED <<accounts, cleanups>>

-----------------------------------------------------------------------------
(* prisma/seed.ts: an upsert on the email, in one statement of its own     *)
(* process.                                                                *)

\* The account the seed creates: no categories, no session.
SeededAccount(e) == [email |-> e, role |-> "ADMIN", categories |-> FALSE, session |-> FALSE]

\* What the upsert makes of the account there is.
Promoted_Anew(account) == SeededAccount(account.email)
Promoted(account)      == [account EXCEPT !.role = "ADMIN"]

\* ON CONFLICT waits for an open registration of the email, too.
SeedAdmin ==
  /\ AdminEmail # None
  /\ ~Locked(AdminEmail, None)
  /\ \/ \E u \in UserId :
          /\ accounts[u] # None /\ accounts[u].email = AdminEmail
          /\ accounts' = [accounts EXCEPT ![u] = Promoted(accounts[u])]
     \/ \E u \in UserId :
          /\ ~Registered(AdminEmail) /\ ~Drawn(u)
          /\ accounts' = [accounts EXCEPT ![u] = SeededAccount(AdminEmail)]
  /\ UNCHANGED <<cleanups, req>>

-----------------------------------------------------------------------------
Proceed(c) ==
  \/ FindUserIdByEmail(c)
  \/ BeginTransaction(c)
  \/ CreateUser(c)
  \/ CreateDefaultCategories(c)
  \/ StartCleanup(c)
  \/ Commit(c)

Next == \/ \E c \in Client :
             \/ \E e \in Email : Register(c, e)
             \/ Proceed(c)
             \/ FinishCleanup(c)
             \/ Fail(c)
        \/ SeedAdmin

Spec == Init /\ [][Next]_vars

\* The pool and the lock queue of an index entry are served first come, first
\* served: a request that can go on again and again eventually does, and so does
\* some cleanup.
Fairness == /\ \A c \in Client : SF_vars(Proceed(c))
            /\ SF_vars(\E c \in Client : FinishCleanup(c))
FairSpec == Spec /\ Fairness

-----------------------------------------------------------------------------
(* Properties                                                              *)

\* There is no partially onboarded user: whoever exists has the default
\* categories and had a session, wherever a registration was cut off; only the
\* administrator of the seed has neither.
Onboarded ==
  \A u \in UserId :
    accounts[u] # None =>
      \/ accounts[u].categories /\ accounts[u].session
      \/ ~accounts[u].categories /\ ~accounts[u].session /\ accounts[u].role = "ADMIN"

\* An email has one account, although it is looked up outside the transaction
\* that inserts it.
EmailsUnique ==
  \A u, v \in UserId :
    accounts[u] # None /\ accounts[v] # None /\ accounts[u].email = accounts[v].email => u = v

\* What an open transaction has written: nothing before createUser ran, and an
\* account not yet complete after; all of it uncommitted.
Holds(r) ==
  /\ r.at \in Step => r.email \in Email
  /\ r.at \in {"createDefaultCategories", "createSession", "commit"} =>
       /\ r.user \in UserId /\ accounts[r.user] = None
       /\ r.account \in Account /\ r.account.email = r.email /\ r.account.role = "USER"
       /\ ~Registered(r.email)
  /\ r.at \in {"createSession", "commit"} => r.account.categories
  /\ r.at \notin {"createDefaultCategories", "createSession", "commit"} =>
       r.user = None /\ r.account = None

\* Two open transactions hold different users and different emails.
Apart(r1, r2) ==
  r1.account # None /\ r2.account # None =>
    r1.user # r2.user /\ r1.account.email # r2.account.email

\* The inductive invariant of the proofs.
IndInv == /\ TypeOK
          /\ Onboarded
          /\ EmailsUnique
          /\ \A c \in Client : Holds(req[c])
          /\ \A c, d \in Client : c # d => Apart(req[c], req[d])

\* Per email, registrations and the seed are single steps: the checks, waits and
\* statements in between, and their failures, do not show.
Contract == INSTANCE AccountsContract
              WITH holders <- [e \in Email |->
                                 {[role |-> accounts[u].role,
                                   onboarded |-> accounts[u].categories /\ accounts[u].session] :
                                    u \in {v \in UserId : accounts[v] # None /\ accounts[v].email = e}}]
ImplementsContract == Contract!Spec

\* A registration is eventually answered: transactions waiting for a connection,
\* for an email another holds, and the cleanups they start never all wait for
\* one another.
RegistrationAnswered == \A c \in Client : ~At(c, "idle") ~> At(c, "idle")

\* An email that somebody registers without meeting a failure ends up registered,
\* whoever wins the race for it and whatever befalls the others in it.
EmailGetsRegistered ==
  \A e \in Email : (\E c \in Client \ Unlucky : req[c].email = e) ~> Registered(e)
=============================================================================
