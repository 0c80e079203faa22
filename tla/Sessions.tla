------------------------------ MODULE Sessions ------------------------------
(***************************************************************************)
(* Login, refresh, logout and the background cleanup of expired sessions:  *)
(* AuthService, TokenService and RefreshTokenService over the table        *)
(* "UserSession", with a clock.                                            *)
(*                                                                         *)
(* A refresh token is a signed JWT: `signed` gives the claims of every     *)
(* token ever signed, and a session row holds (the SHA-256 of) one.  A     *)
(* client is one request in flight.  The clock may advance between any two *)
(* steps; a date the code computes before it sends a statement is kept in  *)
(* the request and used when the statement runs.                           *)
(*                                                                         *)
(* Name_Fault is the definition Name with a plausible mistake in it; it is *)
(* not used below, and shows what the property named for it rules out.     *)
(***************************************************************************)
EXTENDS Naturals

CONSTANTS User,         \* registered accounts; nothing in this code removes one
          SessionId,    \* the uuids sessions may get
          Token,        \* refresh tokens that may be signed
          Client,       \* requests the server may have in flight at once
          None,         \* no row, no token
          RefreshTTL,   \* REFRESH_TOKEN_EXPIRES_IN
          AccessTTL,    \* ACCESS_TOKEN_EXPIRES_IN
          MaxTime,      \* bound: the clock stops there
          MayFail       \* may statements fail, and answers be lost?

VARIABLES now,        \* Date.now()
          sessions,   \* table "UserSession": id -> row, or None
          opened,     \* session ids the table ever held
          signed,     \* token -> claims, or None when never signed
          delivered,  \* tokens that reached a client
          cleanups,   \* reference dates of the deleteMany calls in flight
          req         \* client -> its request in flight and the last reply

tables == <<sessions, opened>>
vars   == <<now, sessions, opened, signed, delivered, cleanups, req>>

Time        == 0 .. MaxTime
SessionRow  == [user : User, token : Token, expiresAt : Nat]
Claims      == [user : User, session : SessionId, iat : Nat, exp : Nat]
Optional(S) == S \cup {None}

ASSUME NoneIsFresh == None \notin User \cup SessionId \cup Token \cup SessionRow \cup Claims \cup Nat
ASSUME TimesTyped  == RefreshTTL \in Nat \ {0} /\ AccessTTL \in Nat \ {0} /\ MaxTime \in Nat
ASSUME MayFailBoolean == MayFail \in BOOLEAN

Step == {"createSession", "insertSession",                                 \* login
         "findSession", "signTokens", "rotateRefreshToken", "updateSession"}  \* refresh

Reply == {"NONE", "OK", "LOST", "INVALID_CREDENTIALS", "UNAUTHORIZED_ACCESS",
          "INTERNAL_SERVER_ERROR"}

\* presented is the token a refresh was sent, token the new one it (or a login)
\* will return; date is the date its next statement was built with.
Request == [at        : Step \cup {"idle"},
            user      : Optional(User),
            session   : Optional(SessionId),
            presented : Optional(Token),
            token     : Optional(Token),
            date      : Optional(Nat),
            reply     : Reply]

Idle(reply) == [at |-> "idle", user |-> None, session |-> None, presented |-> None,
                token |-> None, date |-> None, reply |-> reply]

TypeOK == /\ now \in Time
          /\ sessions \in [SessionId -> Optional(SessionRow)]
          /\ opened \subseteq SessionId
          /\ signed \in [Token -> Optional(Claims)]
          /\ delivered \subseteq Token
          /\ cleanups \subseteq Nat
          /\ req \in [Client -> Request]

\* onModuleInit fires the first cleanup.
Init == /\ now = 0
        /\ sessions = [s \in SessionId |-> None]
        /\ opened = {}
        /\ signed = [t \in Token |-> None]
        /\ delivered = {}
        /\ cleanups = {0}
        /\ req = [c \in Client |-> Idle("NONE")]

-----------------------------------------------------------------------------
At(c, step)        == req[c].at = step
Answer(c, reply)   == req' = [req EXCEPT ![c] = Idle(reply)]
Await(c, request)  == req' = [req EXCEPT ![c] = request]

\* The answer with the new token, which the connection may lose on its way.
Return(c, token) ==
  \/ Answer(c, "OK") /\ delivered' = delivered \cup {token}
  \/ MayFail /\ Answer(c, "LOST") /\ UNCHANGED delivered

\* generateRefreshToken: jwtid is a random uuid, so no two tokens are equal,
\* not even two of one session signed within a second.
CanSign_WithoutJwtid(token, claims) == signed[token] \in {None, claims}
CanSign(token, claims)              == signed[token] = None

ClaimsAt(user, session) ==
  [user |-> user, session |-> session, iat |-> now, exp |-> now + RefreshTTL]

\* getRefreshTokenExpiresAt
RefreshTokenExpiresAt_InvalidDate == None
RefreshTokenExpiresAt             == now + RefreshTTL

\* The ids no session and no login in flight has.
FreshSession(s) == s \notin opened /\ \A c \in Client : req[c].session # s

-----------------------------------------------------------------------------
(* POST /auth/login                                                        *)

\* The email is unknown or the password wrong.
LoginRefused(c) ==
  /\ At(c, "idle")
  /\ Answer(c, "INVALID_CREDENTIALS")
  /\ UNCHANGED <<now, tables, signed, delivered, cleanups>>

\* The password matched: a session id is drawn and the pair is signed.
Login(c, u) ==
  /\ At(c, "idle")
  /\ \E s \in SessionId, t \in Token :
       /\ FreshSession(s)                    \* bound: SessionId is finite under TLC
       /\ CanSign(t, ClaimsAt(u, s))         \* bound: so is Token
       /\ signed' = [signed EXCEPT ![t] = ClaimsAt(u, s)]
       /\ Await(c, [Idle("NONE") EXCEPT !.at = "createSession", !.user = u, !.session = s,
                                        !.token = t])
  /\ UNCHANGED <<now, tables, delivered, cleanups>>

\* deleteExpiredSessions(referenceDate = new Date())
ReferenceDate_OfStartup == 0
ReferenceDate           == now

\* createSession starts a cleanup it does not wait for, then builds its insert.
CreateSession(c) ==
  /\ At(c, "createSession")
  /\ cleanups' = cleanups \cup {ReferenceDate}
  /\ req' = [req EXCEPT ![c].at = "insertSession", ![c].date = RefreshTokenExpiresAt]
  /\ UNCHANGED <<now, tables, signed, delivered>>

InsertSession(c) ==
  LET r == req[c]
  IN /\ At(c, "insertSession")
     /\ sessions' = [sessions EXCEPT ![r.session] =
                       [user |-> r.user, token |-> r.token, expiresAt |-> r.date]]
     /\ opened' = opened \cup {r.session}
     /\ Return(c, r.token)
     /\ UNCHANGED <<now, signed, cleanups>>

-----------------------------------------------------------------------------
(* POST /auth/refresh                                                      *)

\* verifyRefreshToken, then isRefreshTokenValid builds its query with new Date().
Refresh(c, t) ==
  LET claims == signed[t]
  IN /\ At(c, "idle")
     /\ t \in delivered
     /\ \/ claims.exp <= now /\ Answer(c, "UNAUTHORIZED_ACCESS")
        \/ /\ claims.exp > now
           /\ Await(c, [Idle("NONE") EXCEPT !.at = "findSession", !.user = claims.user,
                          !.session = claims.session, !.presented = t, !.date = now])
     /\ UNCHANGED <<now, tables, signed, delivered, cleanups>>

\* The row a session holds for a token, if it is unexpired at `date`.
Accepts(u, s, t, date) ==
  /\ sessions[s] # None
  /\ sessions[s].user = u
  /\ sessions[s].expiresAt > date
  /\ sessions[s].token = t

FindSession(c) ==
  LET r == req[c]
      valid == Accepts(r.user, r.session, r.presented, r.date)
  IN /\ At(c, "findSession")
     /\ \/ ~valid /\ Answer(c, "UNAUTHORIZED_ACCESS")
        \/ valid /\ Await(c, [r EXCEPT !.at = "signTokens", !.date = None])
     /\ UNCHANGED <<now, tables, signed, delivered, cleanups>>

\* findPublicUserById found the user; generateTokenPair signs for the same session.
SignTokens(c) ==
  /\ At(c, "signTokens")
  /\ \E t \in Token :
       LET claims == ClaimsAt(req[c].user, req[c].session)
       IN /\ CanSign(t, claims)
          /\ signed' = [signed EXCEPT ![t] = claims]
          /\ req' = [req EXCEPT ![c].at = "rotateRefreshToken", ![c].token = t]
  /\ UNCHANGED <<now, tables, delivered, cleanups>>

RotateRefreshToken(c) ==
  /\ At(c, "rotateRefreshToken")
  /\ req' = [req EXCEPT ![c].at = "updateSession", ![c].date = RefreshTokenExpiresAt]
  /\ UNCHANGED <<now, tables, signed, delivered, cleanups>>

\* updateMany({ where: { id, userId } }): no row is updated when there is none,
\* and the count is not looked at.
Rotated_Upsert(r) ==
  [sessions EXCEPT ![r.session] = [user |-> r.user, token |-> r.token, expiresAt |-> r.date]]
Rotated_KeepsExpiry(r) ==
  [sessions EXCEPT ![r.session] = IF @ = None \/ @.user # r.user THEN @
                                  ELSE [@ EXCEPT !.token = r.token]]
Rotated_WholeUser(r) ==
  [s \in SessionId |-> IF sessions[s] = None \/ sessions[s].user # r.user THEN sessions[s]
                       ELSE [sessions[s] EXCEPT !.token = r.token, !.expiresAt = r.date]]
Rotated(r) ==
  [sessions EXCEPT ![r.session] = IF @ = None \/ @.user # r.user THEN @
                                  ELSE [@ EXCEPT !.token = r.token, !.expiresAt = r.date]]

UpdateSession(c) ==
  /\ At(c, "updateSession")
  /\ sessions' = Rotated(req[c])
  /\ Return(c, req[c].token)
  /\ UNCHANGED <<now, opened, signed, cleanups>>

-----------------------------------------------------------------------------
(* POST /auth/logout: any unexpired access token of the user will do; no   *)
(* session is asked for.  Access tokens travel with refresh tokens.        *)

HasAccess(u) ==
  \E t \in delivered : signed[t].user = u /\ now < signed[t].iat + AccessTTL

\* invalidateRefreshToken: deleteMany({ where: { userId } })
Without(u) ==
  [s \in SessionId |-> IF sessions[s] # None /\ sessions[s].user = u THEN None ELSE sessions[s]]

Logout(c, u) ==
  /\ At(c, "idle")
  /\ HasAccess(u)
  /\ sessions' = Without(u)
  /\ Answer(c, "OK")
  /\ UNCHANGED <<now, opened, signed, delivered, cleanups>>

-----------------------------------------------------------------------------
(* The cleanup of expired sessions, outside any request.                   *)

\* The hourly timer.
StartCleanup ==
  /\ ReferenceDate \notin cleanups
  /\ cleanups' = cleanups \cup {ReferenceDate}
  /\ UNCHANGED <<now, tables, signed, delivered, req>>

Expired_RoundsUp(row, date) == row.expiresAt <= date + 1
Expired(row, date)          == row.expiresAt <= date

\* deleteMany({ where: { expiresAt: { lte } } }), on the rows as they are now.
DeleteExpired(date) ==
  /\ date \in cleanups
  /\ sessions' = [s \in SessionId |->
                    IF sessions[s] # None /\ Expired(sessions[s], date) THEN None ELSE sessions[s]]
  /\ cleanups' = cleanups \ {date}
  /\ UNCHANGED <<now, opened, signed, delivered, req>>

\* The failure is caught and logged.
FailCleanup(date) ==
  /\ MayFail
  /\ date \in cleanups
  /\ cleanups' = cleanups \ {date}
  /\ UNCHANGED <<now, tables, signed, delivered, req>>

-----------------------------------------------------------------------------
\* A statement fails; the exception filter answers 500.
Fail(c) ==
  /\ MayFail
  /\ ~At(c, "idle")
  /\ Answer(c, "INTERNAL_SERVER_ERROR")
  /\ UNCHANGED <<now, tables, signed, delivered, cleanups>>

Tick ==
  /\ now < MaxTime
  /\ now' = now + 1
  /\ UNCHANGED <<tables, signed, delivered, cleanups, req>>

Arrive(c) ==
  \/ LoginRefused(c)
  \/ \E u \in User : Login(c, u) \/ Logout(c, u)
  \/ \E t \in Token : Refresh(c, t)

Proceed(c) ==
  \/ CreateSession(c)
  \/ InsertSession(c)
  \/ FindSession(c)
  \/ SignTokens(c)
  \/ RotateRefreshToken(c)
  \/ UpdateSession(c)

Cleanup == StartCleanup \/ \E date \in Time : DeleteExpired(date) \/ FailCleanup(date)

Next == (\E c \in Client : Arrive(c) \/ Proceed(c) \/ Fail(c)) \/ Cleanup \/ Tick

Spec == Init /\ [][Next]_vars

\* The timer keeps firing (setInterval is cleared only on shutdown), and the
\* database does not refuse one deleteMany for ever.
Fairness == WF_vars(StartCleanup) /\ \A date \in Time : SF_vars(DeleteExpired(date))
FairSpec == Spec /\ Fairness

-----------------------------------------------------------------------------
(* Properties                                                              *)

\* The digest a session stores is of a token signed for that very session and
\* user, and the row lives at least as long as the token's own claims say:
\* a token is never refused for its session's expiry before its own.
StoredTokensFit ==
  \A s \in SessionId :
    sessions[s] # None =>
      LET claims == signed[sessions[s].token]
      IN /\ claims # None
         /\ claims.session = s
         /\ claims.user = sessions[s].user
         /\ claims.exp <= sessions[s].expiresAt

\* Claims run from the moment of signing, which is past.
ClaimsRun ==
  \A t \in Token : signed[t] # None => signed[t].iat <= now /\ signed[t].exp = signed[t].iat + RefreshTTL

\* Clients hold tokens of sessions that were opened.
DeliveredOpened == \A t \in delivered : signed[t] # None /\ signed[t].session \in opened

\* A cleanup looks back.
CleanupsLookBack == \A date \in cleanups : date <= now

\* The new token of request r is signed for r, and known to nobody yet.
HoldsNewToken(r) ==
  /\ r.user \in User /\ r.session \in SessionId
  /\ r.token \in Token \ delivered
  /\ signed[r.token] # None
  /\ signed[r.token].user = r.user
  /\ signed[r.token].session = r.session

LoggingIn(r)  == r.at \in {"createSession", "insertSession"}
Refreshing(r) == r.at \in Step \ {"createSession", "insertSession"}

\* What request r counts on in its next statement.
Sound(r) ==
  /\ LoggingIn(r) => r.session \notin opened
  /\ Refreshing(r) => r.user \in User /\ r.session \in opened
  /\ IF r.at \in {"createSession", "insertSession", "rotateRefreshToken", "updateSession"}
     THEN HoldsNewToken(r)
     ELSE r.token = None
  /\ r.at \in {"insertSession", "updateSession"} =>
       r.date \in Nat /\ signed[r.token].exp <= r.date

\* No two requests in flight share a new token, and no two logins a session.
Apart(r1, r2) ==
  /\ r1.token = None \/ r1.token # r2.token
  /\ LoggingIn(r1) /\ LoggingIn(r2) => r1.session # r2.session

RequestsSound ==
  /\ \A c \in Client : Sound(req[c])
  /\ \A c, d \in Client : c # d => Apart(req[c], req[d])

\* The inductive invariant of the proofs.
IndInv == /\ TypeOK
          /\ \A s \in SessionId : sessions[s] # None => s \in opened
          /\ StoredTokensFit
          /\ ClaimsRun
          /\ DeliveredOpened
          /\ CleanupsLookBack
          /\ RequestsSound

\* What the rotation of a refresh counts on, besides: its client had a token of the
\* session, whose user cannot have changed, and its date is not from the future.
KeepsOwner(u, s) == sessions[s] # None => sessions[s].user = u

Grounded(r) ==
  /\ Refreshing(r) =>
       /\ KeepsOwner(r.user, r.session)
       /\ r.presented \in delivered
       /\ signed[r.presented].session = r.session
  /\ r.at \in {"insertSession", "updateSession"} => r.date <= now + RefreshTTL

OwnersInv ==
  /\ \A t \in delivered : KeepsOwner(signed[t].user, signed[t].session)
  /\ \A c \in Client : Grounded(req[c])

\* The services are one state machine per session, which opens, accepts one fresh
\* token after the other and ends for good, and never lives longer than RefreshTTL
\* past its last change: no interleaving of what requests read and write shows.
Contract == INSTANCE SessionsContract
              WITH owner <- [t \in Token |-> IF signed[t] = None THEN None ELSE signed[t].session],
                   known <- delivered
ImplementsContract == Contract!Spec

\* A session that was logged out or cleaned up never comes back, whatever
\* refresh was between its check and its update at the time.
NoResurrection ==
  [][\A s \in opened : sessions[s] = None => sessions'[s] = None]_vars

\* A session only ever starts to accept a token no client has seen yet: once
\* rotated away, a token is refused for good, however refreshes interleave.
OnlyFreshTokensAccepted ==
  [][\A s \in SessionId :
       /\ sessions'[s] # None
       /\ sessions[s] = None \/ sessions[s].token # sessions'[s].token
       => sessions'[s].token \notin delivered
    ]_vars

\* Nothing but the logout of its user ends a session before it expires: a
\* cleanup that waited while the session was refreshed leaves it alone.
OnlyLogoutEndsLiveSessions ==
  [][\A s \in SessionId :
       sessions[s] # None /\ sessions[s].expiresAt > now /\ sessions'[s] = None =>
         \E c \in Client : Logout(c, sessions[s].user)
    ]_vars

\* An expired session that no refresh in flight extends is eventually deleted.
ExpiredSessionsGo ==
  \A s \in SessionId :
    (sessions[s] # None /\ sessions[s].expiresAt <= now)
      ~> (sessions[s] = None \/ sessions[s].expiresAt > now)

\* A refresh that answers OK has replaced the token it checked by the token it
\* returns (docs/api/auth-api.md).
RefreshRotates ==
  [][\A c \in Client :
       At(c, "updateSession") /\ req'[c].reply = "OK" =>
         LET s == req[c].session
         IN /\ sessions[s] # None /\ sessions[s].token = req[c].presented
            /\ sessions'[s] # None /\ sessions'[s].token = req[c].token
    ]_vars
=============================================================================
