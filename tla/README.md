# A verification of the expenso backend

TLA+ models of the backend in `src/` (a NestJS service over PostgreSQL through
Prisma), model-checked with TLC on small instances, with theorems TLAPS proves
for all instances. Paths below are relative to the repository.

## 1. The system

One Node process (or several serverless instances) serves HTTP requests. Each
request is an `async` function: it runs without interruption up to the next
`await` of a database statement, and at every `await` any other request may run.
All shared state is in PostgreSQL, except the Map of the rate limiter. There is
no lock in the code; what protects the data is the unique indexes and foreign
keys of `prisma/schema.prisma` and the order of the statements.
`prisma.$transaction` runs at PostgreSQL's default level, READ COMMITTED: each
statement sees what is committed when it starts, and a plain read locks nothing.

| Component | State | Operations | Hard behaviour | What makes it correct | Model |
|---|---|---|---|---|---|
| categories (`src/modules/categories`) | table `Category` | create, update, remove, list | checks and writes are separate statements, with no transaction | names unique per user, none deleted while used, private rows | `Ledger` |
| transactions (`src/modules/transactions`) | table `Transaction` | create, update, remove, list | interactive transactions that validate, then write by id alone; partial patches | a category of the same user and type, no lost patch | `Ledger` |
| sessions and tokens (`src/modules/auth`: `auth`, `token`, `refresh-token` services) | table `UserSession`, signed JWTs held by clients, timer | login, refresh, logout, hourly and per-login cleanup | check-then-rotate against logout, cleanup and other refreshes; dates computed before the statement; lost answers | ended sessions stay ended, a rotated token is dead, live sessions are left alone, expired ones go | `Sessions` |
| registration (`auth-registration.service.ts`) and admin seed (`prisma/seed.ts`) | `User`, `Category`, `UserSession` | register; the seed's upsert | one long transaction on one connection, unique email checked outside of it, a script of another process | all or nothing, one account per email, always answered | `Registration` |
| rate limit (`auth-rate-limit.guard.ts`) | a Map in the process | `canActivate` | window boundaries, pruning across routes | bounded bursts, no lock-out prolonged | `RateLimit` |
| serverless entry (`api/index.ts`) | a module-level promise, one application per instance | `handler`, `bootstrapServer` | requests overlap on a cold instance; a failed bootstrap stays cached; instances are stopped | one application on the instance's server, an answer for every request | `Gateway` |
| access control (`guards/`, `strategies/`, `token.service.ts`) | the claims in signed tokens | JWT check, role check | a role is read, signed and used at three different times; a token outlives the logout | the admin route for administrators only | `Gateway`, `HasAccess` in `Sessions` |
| dashboard, reports (`modules/dashboard`, `modules/reports`) | none (read only) | overview, trends, cash flow, totals, charts, export preview | answers made of several statements, each on another state of the tables | both modules compute the same figures, charts add up to totals, what several statements drift by is bounded | `Figures` |
| pagination (`common/utils/pagination.util.ts`) | the client's cursor | `buildPrismaCursorQuery`, `buildCursorPagination` | the table changes between pages, the cursor's row included | no row skipped or repeated | `Pagination` |
| date filters (`toDateRange`, `parseDate` of both services) | none | month, year, day ranges | last instants, the clock's year | ranges partition time, as the database's `date_trunc` does | `DateFilter` |
| error filter, envelope, DTO validation, password hashing, module wiring | none | - | - | - | not modelled (section 8) |

How they interact: every request waits for its instance's bootstrap, passes the
rate limit (three auth routes) or the JWT guard, then its service. Registration calls the categories repository and the
refresh-token service inside its transaction. The categories and transactions
services share the foreign key of `Transaction.categoryId` and read one another's
tables. `createSession` and a timer start cleanups that run beside every request.

## 2. Modules

| Module | What it is |
|---|---|
| `LedgerContract` | abstract: categories and transactions as atomic operations |
| `Ledger` | the two services, statement by statement, for concurrent clients; implements `LedgerContract` |
| `SessionsContract` | abstract: a session opens, accepts one fresh token after the other, ends for good |
| `Sessions` | sessions, tokens, cleanups and a clock, statement by statement; implements `SessionsContract` |
| `AccountsContract` | abstract: an email gets one account in one step, and its role only grows |
| `Registration` | concurrent registrations, the pool, the unique index and the admin seed; implements `AccountsContract` |
| `Gateway` | instances that start, bootstrap and stop; the guards and the claims they go by |
| `RateLimit` | the guard's Map and a clock |
| `Pagination` | a client walking through a list page by page while it changes |
| `DateFilter` | the date filters of both services as operators over a small calendar |
| `Figures` | what the dashboard and the reports compute, over tables that change between statements; extends `DateFilter` |
| `MCLedger`, `MCSessions`, `MCRegistration`, `MCGateway`, `MCRateLimit`, `MCPagination`, `MCFigures` | constants and symmetry for TLC |
| `LedgerProofs`, `SessionsProofs`, `RegistrationProofs`, `GatewayProofs`, `RateLimitProofs`, `PaginationProofs`, `FiguresProofs` | inductive invariants and theorems |
| `SumTheorems` | what a sum over a finite set computes: its value for one element, for a partition, under a change of one term; used by `FiguresProofs` |

An operator `Name_Fault` beside `Name` is `Name` with a plausible mistake (a
missing constraint, a filter forgotten, a date computed at the wrong time). No
specification uses it; replacing `Name` by it must break the property it is
listed with in `PROJECT.json` under "mutants", which shows that the property
depends on that code.

### How a model corresponds to the code

*A request* is a record `req[c]`: `at` names the statement it awaits, the other
fields are the local variables still needed. The action that starts a request
includes its first statement (in `Registration`, where statements wait for a
connection, it does not); each later action is one statement with the JavaScript
that follows it up to the next `await`. Guards are the early returns and thrown
`AppException`s, whose code becomes `reply`. A refusal by the database
(`P2002`, `P2025`, a foreign key) has no handler in the code, so the filter
answers 500: reply `INTERNAL_SERVER_ERROR`.

*Ledger.* `CreateCategory`/`InsertCategory`, `UpdateCategory`/`CheckName`/
`WriteCategory`, `RemoveCategory`/`CountTransactions`/`DeleteCategory` are
`CategoriesService.create`, `update`, `remove`; the transaction operations are
named alike. An interactive transaction of this code does reads and then one
write, so that write and its COMMIT are one step and rollback is a stutter of the
tables. `Fail` is a statement or transaction that errs or times out before it
takes effect; `Written` answers a write that has taken effect, with success or, when
the connection is lost on the way back, with 500: the client may then retry what
was done already, which is a new request like any other. Rows keep
the columns some rule depends on: user, name and type, and user, category and
type. Names stand for normalized names.

*Sessions.* A token is a model value, its claims are in `signed`. A row stores
the token itself where the code stores its SHA-256 digest: the digest is taken
for injective. `date` keeps a `new Date()` taken before the statement is sent.
`Return` may lose the answer. `delivered` is what clients hold. A cleanup in
flight is its reference date in `cleanups` (two of the same date are one: they
delete the same rows). The check of a JWT and the date of `findFirst` are taken
in one step, since no statement lies between them; so is the signature of a token
pair. User lookups are no steps, since nothing ever removes a user or changes
what `refresh` needs of one. Time is counted in abstract units; JWT claims are in
whole seconds rounded down, which only makes a token expire earlier than the
model says.

`Contract` maps a row to itself and a token to the session it was signed for;
reads, dates and requests do not show. The contract has a step for a refresh that
comes too late (`ExtendEnded`): its client gets a token nothing accepts.

*Registration.* What the open transaction wrote is in the request (`account`)
until `Commit` publishes it. `FreeConnection` is the pool, `Locked` the wait for
an uncommitted equal key: both are external (the `pg` driver and PostgreSQL),
modelled from how the code uses them. `Account` says in two flags whether the
default categories and a session exist; `DefaultCategories` spells out the list,
since one name twice, even under two types, makes `createMany` fail.
`SeedAdmin` is the upsert of `prisma/seed.ts`, one `INSERT ... ON CONFLICT` that
waits for the same index entry; `AdminEmail = None` is `SEED_ADMIN` off. The
seed's account has no categories, which `Onboarded` allows to an administrator
only. `Contract` maps an email to the accounts that have it.

*Gateway.* `appReady[i]` is the module variable of an instance: undefined, or the
state of its promise, or "down" when the platform runs no such process.
`Handle` is everything up to `await appReady`. `NestFactory.create` aborts the
process on failure (`StopInstance`); what is left as a rejected promise is a
failure of `app.init`, the database connection of `PrismaService` above all.
`login` stands for refresh as well: both read the user's row (`FindUser`) and
sign its role in a later step (`SignTokens`). `JwtAuthGuard` may refuse any
token, since any may have expired. `apps` counts what the code does not: the
applications put on the instance's express server. `src/main.ts` is the same
bootstrap in a process that serves nothing before it succeeded.

*RateLimit.* `canActivate` never awaits, so it is one action. A key is a route
with a caller (address and email). `admitted` is a history variable.

*Pagination.* One walk with the parameters of its first request, as the client
repeats them. `Items` is what `findMany` returns for `buildPrismaCursorQuery`,
`Data`, `HasNext` and `NextCursor` are `buildCursorPagination`. A row is reduced
to the column it is sorted by and whether it passes the filters. How Prisma
evaluates `cursor` is external: it compares with the row's present values and
finds nothing when the row is gone. `Insert`, `Update` and `Delete` stand for the
writes of all other requests. `listed`, `steady` and `disturbed` are history
variables.

*DateFilter and Figures.* Figures are operators over the table of one user, since
every query is scoped to the user. The dashboard computes totals with one query
per type and the reports with one grouped by type; each service has date parsing
and calendar ranges of its own: all are translated (`CalendarRange` and
`ReportCalendarRange` are the two copies of the month and year ranges), and
invariants compare them over every table TLC reaches. A report's breakdown by
category may have a `limit`, whose percentages are shares of what the limit leaves
(`grandTotal` of `toCategoryBreakdown`); which of two categories of equal totals is
left is open, so `CategoryBreakdowns` is the set of the answers there may be. The
dashboard's chart has no limit. Averages and percentages are kept as a sum with its count and a part
with its whole, so nothing is rounded. A request of several statements is `req`:
the statements of an overview and of an export preview (`Statements`) run in any
order, as `Promise.all` lets them, and `figures` keeps what each returned; the
names of grouped categories are looked up by `FindCategories`. Totals are sums of
functions (`SumFunction`), one term for each row, period or slice. Between statements
`WriteOfOthers` takes the steps `LedgerContract` has. The calendar has months of
given lengths. An amount range (`AmountRange`, `Listed`) selects rows; a page of
them is the business of `Pagination`.

## 3. Runs

| Run | Question | States | Result |
|---|---|---|---|
| `ledger` | Are tables consistent, rows private and requests atomic, when two clients' requests interleave and fail, and what makes a transaction's type differ from its category's? | 416 thousand | holds |
| `ledger_stale_check` | Does a validation still hold at the write? | | violated |
| `ledger_refusals` | Is a conflict always answered as one? | | violated |
| `ledger_types` | Is a transaction's type always its category's? | | violated |
| `sessions` | What can overlapping logins, refreshes, logouts and cleanups do to sessions, and is it what the contract allows? | 1.1 million | holds |
| `sessions_cleanup` | Do expired sessions go? | 67 thousand | holds |
| `sessions_rotation` | Does a refresh that answers 200 replace the token it checked by the one it returns? | | violated |
| `registration` | Are registrations atomic, emails unique, does every interleaving, with the seed, refine the contract, and is every registration answered and the email registered? | 91 thousand | holds |
| `gateway` | Can a cold, failing or stopped instance get two applications or leave a request waiting, and can a stale role open the admin route? | 84 thousand | holds |
| `rate_limit` | How many calls get through, and who is refused? | 75 thousand | holds |
| `pagination` | Does a walk through a changing list list each row once? | 2.6 million | holds |
| `figures` | Do figures computed in different ways agree, and how far do answers of several statements drift? | 113 thousand | holds |

### Bounds, and why they are enough

- *Ledger*: two users, categories, transactions, names, both types, two clients.
  Every property relates at most two rows of a table and the request that writes
  one; two users are needed for ownership, two categories for names and moves,
  two clients for every race of a check with a write. Ids are not reused
  (`issued`), so a run ends up with all ids issued: rows are created, moved and
  deleted, then requests only fail. `ledger_refusals` and the like have one
  transaction, which is all their counterexamples need.
- *Sessions*: two users, two sessions, three tokens (a login, a rotation, and
  one more of either), two clients, tokens of one unit of time and a clock of
  three instants: enough for a session to be opened, extended after a cleanup was
  dated, and expire. `sessions_cleanup` has one session and two tokens, since the
  liveness property is about one row.
- *Registration*: three clients on two connections and two emails, one of them the
  seed's, so that one client waits for a connection while two hold them, and two
  or a client and the seed race for the same email. One client is `Unlucky` (its
  statements fail and its answers are lost anywhere), two are not, so that the
  winner of a race may be either kind.
- *Gateway*: two instances, two clients, two users of whom the seed may promote
  one: two requests on one cold instance, one on each, and a token signed before
  and after a promotion. Instances start and stop and promises are rejected any
  number of times; nothing is bounded.
- *RateLimit*: a route with limit 1 and ttl 3 and one with limit 2 and ttl 2, one
  caller; time to 6 and 4 attempts a window, so that several windows of each
  route follow and overlap. The clock and the attempts are bounded, so the model
  stops there: this run does not check deadlock.
- *Pagination*: four rows, two values of the column, pages of one and two rows:
  pages that are full, not full, and followed by one more row, ties that the id
  breaks, and rows on both sides of the cursor. Ids are not reused, so a finished
  walk over a table whose ids are used up may stop: this run does not check
  deadlock either.
- *Figures*: up to three transactions of two categories and two amounts, at the
  last instant of a month and of a year and the first instant of the next, in a
  calendar of two years of two months of unequal length. `FiltersSent` has every
  combination of month and year with a type and a category, and open, closed and
  reversed ranges of a day and an instant. Requests of several statements meet
  writes with two of the filters and with rows of three kinds of one month
  (`BusyRows`): both categories, both types, two amounts. `Limits` are 1, 2 and 3: with
  two categories a breakdown is cut off, exactly fits, or is smaller than its limit. `MaxWrites` allows two
  writes during a category lookup (one may not make a category unknown, two may)
  and an export preview, and one during an overview, whose six statements have
  64 places for it.

`SYMMETRY` is used where no definition names an element of a set and no
temporal property with fairness is checked. `figures` has it for transactions only, since filters name a
category.

### Fairness

Safety runs assume none. `FairSpec` of `Sessions` assumes that the timer fires
again (weak fairness of `StartCleanup`: `setInterval` is cleared only at
shutdown) and that the database does not refuse one `deleteMany` for ever
(strong fairness of `DeleteExpired`, since `FailCleanup` may come first any
number of times). Nothing is assumed of clients or of the clock. `FairSpec` of
`Registration` assumes that a request that can go on again and again eventually
does, and so does some cleanup: the pool and PostgreSQL's lock queue are first
come, first served.
`Register`, `SeedAdmin` and `Fail` are not fair. `FairSpec` of `Gateway` assumes
that a bootstrap settles (Nest's `init` returns or throws) and that an instance
gets to each of its requests, which is what the event loop does; nothing is
assumed of the platform, of clients or of the seed.

## 4. What the violations say

Each is a disagreement between a sentence of the docs and the code, quoted in
`PROJECT.json` under "findings":

- a category validated at the start of a transaction is retyped before the row is
  written (`ValidatedWhenWritten`);
- the loser of a race for a name, of a new category or of a renamed one, or for a
  category in use gets a 500 (`RefusedAsConflict`);
- a category is retyped while transactions are filed under it, after which their
  type is not its own (`TypesMatch` in `ledger_types`); a patch that sends half of
  a transaction's category and type, validated against the row as it was read, may
  do the same when another patch overlaps it. Only retypes and such overlaps can: that is
  `MismatchHasCause`, which the run `ledger` checks and `MismatchesTraced` proves;
- a refresh may answer 200 with a token that nothing accepts, after a logout in
  between or a second refresh with the same token (`RefreshRotates`).

Noted without a run: users have as many active refresh tokens as logins
(`docs/modules/auth.md:34`); a walk ends early when the row of its cursor is
deleted, and may skip or repeat rows when it is updated in the column sorted by
(the `disturbed` walks of `Pagination`); `docs/architecture/authentication-flow.md:21` calls the
session insert of a login a background write, which the code awaits; and the
loser of a race for an email gets a 500 (`CreateUser` of `Registration`) where
`docs/api/auth-api.md:57` names `EMAIL_ALREADY_EXISTS` with HTTP 409. An instance
whose bootstrap failed answers every later request with a failure until the
platform stops it, since `appReady` keeps the rejected promise; no document says
otherwise, and `RequestAnswered` holds because the failure is an answer.

## 5. What is proved

Each theorem holds for every value of the constants under the `ASSUME`s of its
module: `None` is not an ordinary value; patches have the shape of the DTOs;
durations and bounds are naturals; `MayFail` is a Boolean, `Unlucky` a set of
clients. `Figures` assumes besides that tables are finite, that the years of a
model cover every `createdAt`, and that there is at least one amount, of finitely
many. TLC evaluates the assumptions in every run.

*Ledger.* `IndInv` adds to the properties: rows have issued ids (`IdsIssued`),
and every request in flight still has what it checked about ownership
(`RequestsStayAuthorized`). The second is the heart: `WriteTransaction` writes by
id alone, which is right only because ids are never issued twice and no operation
changes an owner, so "mine or gone" is stable under every other request's step.
From it follow `ReferentialIntegrity`, `OwnershipAgrees`, `NamesUnique`, the
action properties `OnlyOwnRows` and `NoLostPatch` and, action by action, the
refinement of `LedgerContract`. `MismatchesTraced`
rests on the same fact: a category checked has an id handed out, and whatever is
under that id later is the same category, retyped at most; so a request's check is
overtaken by a retype, or, when it sends half a patch, by a patch of the row that gave
the other half, and a write that was not overtaken leaves types that match.
`DisciplineKeepsTypes` proves `TypesMatch` itself under the hypothesis `Disciplined`
on the bodies clients send, which excludes retypes and half patches, with `TypesInv`.

*Sessions.* `IndInv` says of the other requests in flight what a step must not
spoil: the new token a request holds is unknown to every client and to no other
request (`HoldsNewToken`, `Apart`), a login's session is unopened, a refresh's is
opened, and cleanups look back (`CleanupsLookBack`). `RowsChange` then lists the
only ways a row changes - a logout, the cleanup of an expired row, a token no
client has seen - and the three action properties follow from it.
`SessionsRefinement` needs `OwnersInv` besides: the row a rotation extends, if it
is still there, belongs to the user who presented the token, the token presented
is one of that session that a client has had, and the date written is at most
`RefreshTTL` ahead. With it each action is a step of `SessionsContract` or a
stutter.

*Registration.* `IndInv` says that each open transaction holds an id and an email
that neither a committed account nor another open transaction has. `Onboarded`
and `EmailsUnique` follow. For `AccountsRefinement`, `Commit` is the contract's
`Register`, which asks that nobody has the email: that is the invariant's clause
about open transactions; and the seed, which waits for an open transaction of its
email, either finds the one account or none. `NoCircleOfWaits` is the safety half
of `RegistrationAnswered`: a full pool has a transaction in it; if that one waits
it is at `createUser`, for an email whose holder is past the only statement of a
transaction that waits. A `createSession` that awaited its own cleanup would break
the last step, as it breaks `RegistrationAnswered` (its mutant).

*Gateway.* `IndInv`: an instance has one application once its promise exists and
none before; a request that waits does so on an instance that is up; and no
claims, issued or about to be, say administrator of a user whose row does not
(`ClaimsHold`). The last is stable because nothing takes a role away, and gives
`AdminsOnly`.

*RateLimit.* The invariant ties an entry of the Map to the end of `admitted[k]`:
the open window began with the first of its `min(count, limit)` calls, and the
call that is `limit` places before that one is at least a window older. So any
two calls that are `2 * limit - 1` places apart are at least a window apart
(`FewerThanTwiceTheLimit`), and a count above the limit means that `limit` calls
of the open window were let through (`RefusedForCause`).

*Pagination.* `IndInv` says where the walk stands: every row listed so far whose
place can still be told (it is `Tracked`: the order is that of `createdAt`, or
neither it nor the cursor's row was written) lies `Behind` the cursor, or the
cursor's row is gone and nothing more comes. A page takes rows strictly after the
cursor, so none of them was listed (`NoRowListedTwice`), and its last row becomes
the cursor, before which the whole page lies. `WalkInv` is the other half: a row
that fitted all along and is not listed lies `Ahead` of the cursor. What a page
leaves out of the rows after the cursor comes after all it takes, because the
first n rows of a finite ordered set are closed downwards (`NoRowSkipped`).

*Figures.* The invariant `IInv` joins the types, the foreign key (no row without
its category), what a grouping remembers (`GroupedKept`: with no write since, every
grouped category exists and has a transaction; with one, it still exists) and
`FiguresDriftByWrites` itself. The first three give `UnknownNeedsTwoWrites`. For
the drift (`DriftBounded`) a write changes one row, so a count moves by at most
one, and a sum or a highest amount by at most the largest amount; what a statement
returns is exactly what the other module computes in the state it ran in, which is
the next paragraph's business, and from then on the distances add up.

The other theorems hold of every typed table, reached or not. `ModulesAgree`: both
modules select the same rows, because their date parsing agrees on days and
instants (`DateValues` are typed so); the count and the sum by type add up because
the two types are disjoint and are all. `MonthsAddUp` and `TrendAgreesWithFilter`
rest on the calendar: `DaysBefore` grows with the month, so an instant lies in one
month of one year, and the month `date_trunc` finds is the one whose range has it.
`ChartsComplete` says what a breakdown shares under any limit: `TopFacts` has it
that the groups a limit leaves hold the largest one, and all of them unless they
are as many as the limit; `SameCategoryTotals` that both modules group alike. It and
`CashFlowComplete` regroup sums: `SumByGroup` says that the
sum over a set is that of the sums over the classes of any function on it, once
with categories as classes and once with periods, and the cash flow's running
balance at the last period is the sum over all periods up to it.

What a sum computes (`DaysBefore` is one, too) needs induction. The library's
induction theorems have a predicate as a parameter, which the installed provers do
not instantiate; `SumTheorems` has the induction over a SET instead: the subsets
for which the claim fails, of which one would be minimal (`StrongSubsetInduction`).
That the recursive function behind `SumFunctionOnSet` has values at all
(`SumExists`), and that a sum is an element's term and the sum of the rest whichever
element it is (`SumRemove`), are proved in that way, and the rest from them.

Only model-checked: the liveness properties (`ExpiredSessionsGo`,
`RegistrationAnswered`, `EmailGetsRegistered`, `RequestAnswered`), which are out
of the prover's reach. Every safety property and refinement of a passing run is
stated by a theorem. The four refuted promises have a counterexample each.

## 6. Order of work

Done, most important first: `Ledger` with its contract, `Sessions`,
`Registration`, `RateLimit`, `Pagination`, `Figures` with `DateFilter`, then the
contracts of sessions and accounts with the seed, `Gateway`, the overview's
statements in `Figures`, and the proofs listed in section 5. Next:

1. `Registration` and `Sessions` composed: a login racing the registration it
   depends on, over one table of users.
2. The rate limiter in front of `Gateway`, with a Map for each instance.

## 7. Theorems to come

The refinement of a bounded counter by `RateLimit`; the safety halves of the other
liveness properties, as `NoCircleOfWaits` is one: that a waiting request's instance
always has a bootstrap to settle or a promise settled (`Gateway`), and that a
cleanup dated after a row's expiry deletes it (`Sessions`).

## 8. Not modelled, and why

DTO validation is declarative: the models take the bodies it lets through. The
response envelope, Swagger, prefixes, CORS and module wiring are layout. Password
hashing is one call to bcrypt, whose outcome is a choice (`LoginRefused`,
`FindUser`). Amounts are exact in `Figures`, while the column is a double
(`amount Float`): what rounding does to sums taken in different orders is not
checked. The text search of the transactions report (`normalizeSearch`, the
`OR` of `buildWhere`) is a filter on strings no property tells apart. Titles,
notes and the names of charts are left out, and so is the formatting of periods
(`formatPeriod`), which is injective on what `date_trunc` returns. The interplay
of several server processes is that of several clients, except for the rate
limiter, whose Map each process has for itself: the bound of `RateLimit` holds
per process and since its start.
