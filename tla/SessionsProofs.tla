--------------------------- MODULE SessionsProofs ---------------------------
(***************************************************************************)
(* IndInv is inductive, so for any number of users, sessions, tokens and   *)
(* requests: what a session stores fits it, a session that ended stays     *)
(* ended, a token once rotated away is never accepted again, and only a    *)
(* logout ends a session before its time.                                  *)
(*                                                                         *)
(* The argument is about what the OTHER requests in flight hold while one  *)
(* of them steps: their new tokens stay unknown to everybody, their        *)
(* sessions stay unopened (logins) or opened (refreshes).                  *)
(***************************************************************************)
EXTENDS Sessions, TLAPS

LEMMA IdleIsSound ==
  ASSUME NEW reply \in Reply
  PROVE  /\ Idle(reply) \in Request
         /\ Sound(Idle(reply))
         /\ \A r : Apart(Idle(reply), r) /\ Apart(r, Idle(reply))
BY DEF Idle, Request, Optional, Step, Sound, Apart, LoggingIn, Refreshing

\* Client c's request becomes r, and the step takes nothing from the others:
\* signed claims stay, no session a login holds is opened and no token a
\* request holds is delivered.
Spares(c, r) ==
  /\ req' = [req EXCEPT ![c] = r]
  /\ opened \subseteq opened'
  /\ \A t \in Token : signed[t] # None => signed'[t] = signed[t]
  /\ \A d \in Client \ {c} :
       /\ LoggingIn(req[d]) => req[d].session \notin opened'
       /\ req[d].token \notin delivered' \/ req[d].token = None
       /\ Apart(r, req[d]) /\ Apart(req[d], r)

LEMMA RequestsStep ==
  ASSUME IndInv, NEW c \in Client, NEW r \in Request, Spares(c, r), Sound(r)'
  PROVE  RequestsSound' /\ req' \in [Client -> Request]
<1>1. req' \in [Client -> Request] /\ \A d \in Client : req'[d] = IF d = c THEN r ELSE req[d]
  BY DEF IndInv, TypeOK, Spares
<1>2. ASSUME NEW d \in Client PROVE Sound(req[d])'
  <2>1. CASE d = c
    BY <1>1, <2>1 DEF Sound, HoldsNewToken, LoggingIn, Refreshing
  <2>2. CASE d # c
    <3>1. req'[d] = req[d] /\ Sound(req[d])
      BY <1>1, <2>2 DEF IndInv, RequestsSound
    <3>2. HoldsNewToken(req[d]) => HoldsNewToken(req[d])' /\ signed'[req[d].token] = signed[req[d].token]
      BY <2>2, <3>1, NoneIsFresh DEF Spares, HoldsNewToken
    <3> QED BY <2>2, <3>1, <3>2 DEF Spares, Sound, LoggingIn, Refreshing, Step
  <2> QED BY <2>1, <2>2
<1>3. ASSUME NEW d \in Client, NEW e \in Client, d # e PROVE Apart(req[d], req[e])'
  BY <1>1, <1>3 DEF IndInv, RequestsSound, Spares, Apart, LoggingIn
<1> QED BY <1>1, <1>2, <1>3 DEF RequestsSound

\* What of IndInv is not about requests.
TablesInv == /\ now \in Time
             /\ sessions \in [SessionId -> Optional(SessionRow)]
             /\ opened \subseteq SessionId
             /\ signed \in [Token -> Optional(Claims)]
             /\ delivered \subseteq Token
             /\ cleanups \subseteq Nat
             /\ \A s \in SessionId : sessions[s] # None => s \in opened
             /\ StoredTokensFit
             /\ ClaimsRun
             /\ DeliveredOpened
             /\ CleanupsLookBack

LEMMA InvSplits == IndInv <=> TablesInv /\ RequestsSound /\ req \in [Client -> Request]
BY DEF IndInv, TablesInv, TypeOK

LEMMA InvSplitsNext == IndInv' <=> TablesInv' /\ RequestsSound' /\ req' \in [Client -> Request]
BY DEF IndInv, TablesInv, TypeOK

\* Steps that change nothing but one request.
LEMMA PureStep ==
  ASSUME IndInv, UNCHANGED <<now, tables, signed, delivered, cleanups>>,
         NEW c \in Client, NEW r \in Request, req' = [req EXCEPT ![c] = r], Sound(r),
         \A d \in Client \ {c} : Apart(r, req[d]) /\ Apart(req[d], r)
  PROVE  IndInv'
<1>1. TablesInv'
  BY InvSplits DEF tables, TablesInv, StoredTokensFit, ClaimsRun, DeliveredOpened, CleanupsLookBack
<1>2. Sound(r)'
  BY DEF tables, Sound, HoldsNewToken, LoggingIn, Refreshing
<1>3. Spares(c, r)
  BY NoneIsFresh DEF tables, IndInv, RequestsSound, Spares, Sound, HoldsNewToken, LoggingIn
<1> QED BY <1>1, <1>2, <1>3, RequestsStep, InvSplitsNext

LEMMA AnswerStep ==
  ASSUME IndInv, UNCHANGED <<now, tables, signed, delivered, cleanups>>,
         NEW c \in Client, NEW reply \in Reply, Answer(c, reply)
  PROVE  IndInv'
BY IdleIsSound, PureStep DEF Answer

-----------------------------------------------------------------------------
(* Signing: the token is new, so no row, no client and no request has it.  *)

LEMMA SigningKeepsTables ==
  ASSUME IndInv, NEW u \in User, NEW s \in SessionId, NEW t \in Token, CanSign(t, ClaimsAt(u, s)),
         signed' = [signed EXCEPT ![t] = ClaimsAt(u, s)],
         UNCHANGED <<now, tables, delivered, cleanups>>
  PROVE  /\ TablesInv'
         /\ t \notin delivered
         /\ \A d \in Client : req[d].token # t
         /\ signed'[t] = ClaimsAt(u, s)
         /\ \A x \in Token : signed[x] # None => signed'[x] = signed[x]
<1> USE DEF tables, Optional, CanSign
<1>1. ClaimsAt(u, s) \in Claims /\ now \in Nat
  BY TimesTyped DEF ClaimsAt, Claims, IndInv, TypeOK, Time
<1>2. \A x \in Token : signed'[x] = IF x = t THEN ClaimsAt(u, s) ELSE signed[x]
  BY DEF IndInv, TypeOK
<1>3. \A x \in Token : signed[x] # None => signed'[x] = signed[x]
  BY <1>2
<1>4. t \notin delivered
  BY DEF IndInv, DeliveredOpened
<1>5. \A d \in Client : req[d].token # t
  BY NoneIsFresh DEF IndInv, RequestsSound, Sound, HoldsNewToken
<1>6. signed' \in [Token -> Optional(Claims)]
  BY <1>1 DEF IndInv, TypeOK
<1>7. StoredTokensFit'
  BY <1>3 DEF IndInv, TypeOK, StoredTokensFit, SessionRow
<1>8. ClaimsRun'
  BY <1>1, <1>2 DEF IndInv, ClaimsRun, ClaimsAt
<1>9. DeliveredOpened'
  BY <1>3 DEF IndInv, TypeOK, DeliveredOpened
<1>10. TablesInv'
  BY <1>6, <1>7, <1>8, <1>9 DEF IndInv, TypeOK, TablesInv, CleanupsLookBack
<1> QED BY <1>2, <1>3, <1>4, <1>5, <1>10

LEMMA LoginStep ==
  ASSUME IndInv, NEW c \in Client, NEW u \in User, Login(c, u)
  PROVE  IndInv'
<1> USE NoneIsFresh DEF Optional
<1>1. PICK s \in SessionId, t \in Token :
        /\ FreshSession(s)
        /\ CanSign(t, ClaimsAt(u, s))
        /\ signed' = [signed EXCEPT ![t] = ClaimsAt(u, s)]
        /\ Await(c, [Idle("NONE") EXCEPT !.at = "createSession", !.user = u, !.session = s,
                                         !.token = t])
        /\ UNCHANGED <<now, tables, delivered, cleanups>>
  BY DEF Login
<1> DEFINE r == [Idle("NONE") EXCEPT !.at = "createSession", !.user = u, !.session = s, !.token = t]
<1>2. /\ TablesInv'
      /\ t \notin delivered
      /\ \A d \in Client : req[d].token # t
      /\ signed'[t] = ClaimsAt(u, s)
      /\ \A x \in Token : signed[x] # None => signed'[x] = signed[x]
  BY <1>1, SigningKeepsTables
<1>3. r \in Request /\ r.at = "createSession" /\ r.user = u /\ r.session = s /\ r.token = t
  BY DEF Idle, Request, Step, Reply
<1>4. ClaimsAt(u, s) # None /\ ClaimsAt(u, s).user = u /\ ClaimsAt(u, s).session = s
  BY TimesTyped DEF ClaimsAt, Claims, IndInv, TypeOK, Time
<1>5. req' = [req EXCEPT ![c] = r] /\ UNCHANGED <<opened, delivered>> /\ FreshSession(s)
  BY <1>1 DEF Await, tables
<1> HIDE DEF r
<1>6. Sound(r)'
  BY <1>2, <1>3, <1>4, <1>5 DEF Sound, HoldsNewToken, LoggingIn, Refreshing, FreshSession
<1>7. \A d \in Client : req[d].token = None \/ req[d].token \notin delivered
  BY DEF IndInv, RequestsSound, Sound, HoldsNewToken
<1>8. \A d \in Client : LoggingIn(req[d]) => req[d].session \notin opened
  BY DEF IndInv, RequestsSound, Sound
<1>9. Spares(c, r)
  BY <1>2, <1>3, <1>5, <1>7, <1>8 DEF Spares, Apart, FreshSession
<1> QED BY <1>2, <1>3, <1>6, <1>9, RequestsStep, InvSplitsNext

LEMMA SignTokensStep ==
  ASSUME IndInv, NEW c \in Client, SignTokens(c)
  PROVE  IndInv'
<1> USE NoneIsFresh DEF Optional
<1> DEFINE u == req[c].user
           s == req[c].session
<1>0. /\ req[c] \in Request
      /\ u \in User /\ s \in SessionId \cap opened
      /\ ~LoggingIn(req[c])
  BY DEF IndInv, TypeOK, RequestsSound, Sound, Refreshing, LoggingIn, Step, SignTokens, At
<1>1. PICK t \in Token :
        /\ CanSign(t, ClaimsAt(u, s))
        /\ signed' = [signed EXCEPT ![t] = ClaimsAt(u, s)]
        /\ req' = [req EXCEPT ![c].at = "rotateRefreshToken", ![c].token = t]
        /\ UNCHANGED <<now, tables, delivered, cleanups>>
  BY DEF SignTokens
<1>2. /\ TablesInv'
      /\ t \notin delivered
      /\ \A d \in Client : req[d].token # t
      /\ signed'[t] = ClaimsAt(u, s)
      /\ \A x \in Token : signed[x] # None => signed'[x] = signed[x]
  BY <1>0, <1>1, SigningKeepsTables
<1>3. PICK r \in Request :
        /\ r = [req[c] EXCEPT !.at = "rotateRefreshToken", !.token = t]
        /\ r.at = "rotateRefreshToken" /\ r.user = u /\ r.session = s /\ r.token = t
  <2> DEFINE q == [req[c] EXCEPT !.at = "rotateRefreshToken", !.token = t]
  <2>1. q \in Request /\ q.at = "rotateRefreshToken" /\ q.user = u /\ q.session = s /\ q.token = t
    BY <1>0 DEF Request, Step
  <2> QED BY <2>1
<1>4. ClaimsAt(u, s) # None /\ ClaimsAt(u, s).user = u /\ ClaimsAt(u, s).session = s
  BY <1>0, TimesTyped DEF ClaimsAt, Claims, IndInv, TypeOK, Time
<1>5. req' = [req EXCEPT ![c] = r] /\ UNCHANGED <<opened, delivered>>
  BY <1>1, <1>3 DEF tables, IndInv, TypeOK, Request
<1> HIDE DEF u, s
<1>6. Sound(r)'
  <2>1. HoldsNewToken(r)'
    BY <1>0, <1>2, <1>3, <1>4, <1>5 DEF HoldsNewToken
  <2> QED BY <1>0, <1>3, <1>5, <2>1 DEF Sound, LoggingIn, Refreshing
<1>7. \A d \in Client : req[d].token = None \/ req[d].token \notin delivered
  BY DEF IndInv, RequestsSound, Sound, HoldsNewToken
<1>8. \A d \in Client : LoggingIn(req[d]) => req[d].session \notin opened
  BY DEF IndInv, RequestsSound, Sound
<1>9. Spares(c, r)
  BY <1>2, <1>3, <1>5, <1>7, <1>8 DEF Spares, Apart, LoggingIn
<1> QED BY <1>2, <1>3, <1>6, <1>9, RequestsStep, InvSplitsNext

-----------------------------------------------------------------------------
(* Arrivals and the steps of a request that leave the tables alone.        *)

LEMMA RefreshStep ==
  ASSUME IndInv, NEW c \in Client, NEW t \in Token, Refresh(c, t)
  PROVE  IndInv'
<1> USE NoneIsFresh DEF Optional
<1> DEFINE claims == signed[t]
           r == [Idle("NONE") EXCEPT !.at = "findSession", !.user = claims.user,
                   !.session = claims.session, !.presented = t, !.date = now]
<1>1. CASE Answer(c, "UNAUTHORIZED_ACCESS")
  BY <1>1, AnswerStep DEF Refresh, Reply
<1>2. CASE Await(c, r)
  <2>1. claims \in Claims /\ claims.session \in opened /\ now \in Nat
    BY DEF Refresh, IndInv, TypeOK, DeliveredOpened, Time
  <2>2. /\ r \in Request /\ r.at = "findSession" /\ r.token = None
        /\ r.user \in User /\ r.session \in opened
    BY <2>1 DEF Idle, Request, Claims, Step, Reply
  <2>3. req' = [req EXCEPT ![c] = r] /\ UNCHANGED <<now, tables, signed, delivered, cleanups>>
    BY <1>2 DEF Refresh, Await
  <2> HIDE DEF r
  <2>4. Sound(r)
    BY <2>2 DEF Sound, LoggingIn, Refreshing
  <2>5. \A d \in Client : Apart(r, req[d]) /\ Apart(req[d], r)
    BY <2>2 DEF Apart, LoggingIn
  <2> QED BY <2>2, <2>3, <2>4, <2>5, PureStep
<1> QED BY <1>1, <1>2 DEF Refresh

LEMMA FindSessionStep ==
  ASSUME IndInv, NEW c \in Client, FindSession(c)
  PROVE  IndInv'
<1> USE NoneIsFresh DEF Optional
<1> DEFINE r == [req[c] EXCEPT !.at = "signTokens", !.date = None]
<1>1. CASE Answer(c, "UNAUTHORIZED_ACCESS")
  BY <1>1, AnswerStep DEF FindSession, Reply
<1>2. CASE Await(c, r)
  <2>1. /\ req[c] \in Request /\ req[c].user \in User /\ req[c].session \in opened
        /\ req[c].token = None
    BY DEF FindSession, At, IndInv, TypeOK, RequestsSound, Sound, Refreshing, Step
  <2>2. /\ r \in Request /\ r.at = "signTokens" /\ r.token = None
        /\ r.user \in User /\ r.session \in opened
    BY <2>1 DEF Request, Step
  <2>3. req' = [req EXCEPT ![c] = r] /\ UNCHANGED <<now, tables, signed, delivered, cleanups>>
    BY <1>2 DEF FindSession, Await
  <2> HIDE DEF r
  <2>4. Sound(r)
    BY <2>2 DEF Sound, LoggingIn, Refreshing
  <2>5. \A d \in Client : Apart(r, req[d]) /\ Apart(req[d], r)
    BY <2>2 DEF Apart, LoggingIn
  <2> QED BY <2>2, <2>3, <2>4, <2>5, PureStep
<1> QED BY <1>1, <1>2 DEF FindSession

\* The date of the coming write: the token was signed earlier, so it expires no later.
LEMMA DateCoversToken ==
  ASSUME IndInv, NEW c \in Client, At(c, "createSession") \/ At(c, "rotateRefreshToken")
  PROVE  /\ RefreshTokenExpiresAt \in Nat
         /\ signed[req[c].token].exp <= RefreshTokenExpiresAt
<1> DEFINE claims == signed[req[c].token]
<1>1. HoldsNewToken(req[c])
  BY DEF IndInv, RequestsSound, Sound, At
<1>2. claims \in Claims /\ claims.iat <= now /\ claims.exp = claims.iat + RefreshTTL
  BY <1>1 DEF HoldsNewToken, IndInv, TypeOK, Optional, ClaimsRun
<1>3. now \in Nat /\ RefreshTTL \in Nat /\ claims.iat \in Nat
  BY <1>2, TimesTyped DEF IndInv, TypeOK, Time, Claims
<1> QED BY <1>2, <1>3 DEF RefreshTokenExpiresAt

LEMMA CreateSessionStep ==
  ASSUME IndInv, NEW c \in Client, CreateSession(c)
  PROVE  IndInv'
<1>1. /\ req[c] \in Request /\ req[c].session \notin opened /\ HoldsNewToken(req[c])
      /\ LoggingIn(req[c])
  BY DEF CreateSession, At, IndInv, TypeOK, RequestsSound, Sound, LoggingIn
<1>2. /\ RefreshTokenExpiresAt \in Nat
      /\ signed[req[c].token].exp <= RefreshTokenExpiresAt
  BY DateCoversToken DEF CreateSession
<1>3. PICK r \in Request :
      /\ r = [req[c] EXCEPT !.at = "insertSession", !.date = RefreshTokenExpiresAt]
      /\ r.at = "insertSession" /\ r.date = RefreshTokenExpiresAt
      /\ r.user = req[c].user /\ r.session = req[c].session /\ r.token = req[c].token
  <2> DEFINE q == [req[c] EXCEPT !.at = "insertSession", !.date = RefreshTokenExpiresAt]
  <2>1. /\ q \in Request /\ q.at = "insertSession" /\ q.date = RefreshTokenExpiresAt
        /\ q.user = req[c].user /\ q.session = req[c].session /\ q.token = req[c].token
    BY <1>1, <1>2 DEF Request, Optional, Step
  <2> QED BY <2>1
<1>4. /\ req' = [req EXCEPT ![c] = r]
      /\ cleanups' = cleanups \cup {now}
      /\ UNCHANGED <<now, sessions, opened, signed, delivered>>
  BY <1>1, <1>3 DEF CreateSession, ReferenceDate, tables, IndInv, TypeOK, Request
<1>5. TablesInv'
  BY <1>4, InvSplits DEF TablesInv, Time, StoredTokensFit, ClaimsRun, DeliveredOpened,
                         CleanupsLookBack
<1>6. Sound(r)'
  <2>1. HoldsNewToken(r)' /\ r.session \notin opened' /\ signed'[r.token].exp <= r.date /\ r.date \in Nat
    BY <1>1, <1>2, <1>3, <1>4 DEF HoldsNewToken
  <2> QED BY <1>3, <2>1 DEF Sound, LoggingIn, Refreshing
<1>7. Spares(c, r)
  BY <1>1, <1>3, <1>4 DEF IndInv, RequestsSound, Spares, Apart, Sound, HoldsNewToken, LoggingIn
<1> QED BY <1>3, <1>5, <1>6, <1>7, RequestsStep, InvSplitsNext

LEMMA RotateRefreshTokenStep ==
  ASSUME IndInv, NEW c \in Client, RotateRefreshToken(c)
  PROVE  IndInv'
<1> DEFINE r == [req[c] EXCEPT !.at = "updateSession", !.date = RefreshTokenExpiresAt]
<1>1. /\ req[c] \in Request /\ req[c].session \in opened /\ HoldsNewToken(req[c])
      /\ ~LoggingIn(req[c])
  BY DEF RotateRefreshToken, At, IndInv, TypeOK, RequestsSound, Sound, LoggingIn, Refreshing, Step
<1>2. /\ RefreshTokenExpiresAt \in Nat
      /\ signed[req[c].token].exp <= RefreshTokenExpiresAt
  BY DateCoversToken DEF RotateRefreshToken
<1>3. /\ r \in Request /\ r.at = "updateSession" /\ r.date = RefreshTokenExpiresAt
      /\ r.user = req[c].user /\ r.session = req[c].session /\ r.token = req[c].token
  BY <1>1, <1>2 DEF Request, Optional, Step
<1>4. /\ req' = [req EXCEPT ![c] = r]
      /\ UNCHANGED <<now, tables, signed, delivered, cleanups>>
  BY <1>1 DEF RotateRefreshToken, IndInv, TypeOK, Request
<1> HIDE DEF r
<1>5. Sound(r)
  BY <1>1, <1>2, <1>3 DEF Sound, HoldsNewToken, LoggingIn, Refreshing
<1>6. \A d \in Client \ {c} : Apart(r, req[d]) /\ Apart(req[d], r)
  BY <1>1, <1>3 DEF IndInv, RequestsSound, Apart, LoggingIn
<1> QED BY <1>3, <1>4, <1>5, <1>6, PureStep

-----------------------------------------------------------------------------
(* The writes, and the answer that carries the new token.                  *)

\* Handing a new token over, and opening its session, hurts no other request:
\* tokens in flight are apart, and so are the sessions of logins in flight.
LEMMA ReturnStep ==
  ASSUME IndInv, NEW c \in Client, HoldsNewToken(req[c]), Return(c, req[c].token),
         signed' = signed,
         \/ opened' = opened
         \/ LoggingIn(req[c]) /\ opened' = opened \cup {req[c].session}
  PROVE  /\ RequestsSound'
         /\ req' \in [Client -> Request]
         /\ delivered' \subseteq delivered \cup {req[c].token}
<1>1. PICK reply \in Reply : req' = [req EXCEPT ![c] = Idle(reply)]
  BY DEF Return, Answer, Reply
<1>2. delivered' \subseteq delivered \cup {req[c].token}
  BY DEF Return
<1>3. PICK r \in Request : r = Idle(reply) /\ r.at = "idle" /\ r.token = None
  BY IdleIsSound DEF Idle
<1>4. Sound(r)'
  BY <1>3 DEF Sound, LoggingIn, Refreshing, Step
<1>5. req[c].token # None
  BY NoneIsFresh DEF HoldsNewToken
<1>6. ASSUME NEW d \in Client \ {c}
      PROVE  /\ LoggingIn(req[d]) => req[d].session \notin opened'
             /\ req[d].token \notin delivered' \/ req[d].token = None
  <2>1. Sound(req[d]) /\ Apart(req[c], req[d])
    BY <1>6 DEF IndInv, RequestsSound
  <2>2. LoggingIn(req[d]) => req[d].session \notin opened'
    BY <2>1 DEF Sound, Apart
  <2>3. req[d].token # None => req[d].token \notin delivered'
    BY <1>2, <1>5, <2>1 DEF Sound, HoldsNewToken, Apart
  <2> QED BY <2>2, <2>3
<1>7. \A d \in Client : Apart(r, req[d]) /\ Apart(req[d], r)
  BY <1>3 DEF Apart, LoggingIn
<1>8. Spares(c, r)
  BY <1>1, <1>3, <1>6, <1>7 DEF Spares
<1> QED BY <1>2, <1>4, <1>8, RequestsStep

LEMMA InsertSessionStep ==
  ASSUME IndInv, NEW c \in Client, InsertSession(c)
  PROVE  IndInv'
<1> USE NoneIsFresh DEF Optional
<1> DEFINE u == req[c].user
           s == req[c].session
           t == req[c].token
           row == [user |-> u, token |-> t, expiresAt |-> req[c].date]
<1>1. /\ HoldsNewToken(req[c]) /\ LoggingIn(req[c])
      /\ req[c].date \in Nat /\ signed[t].exp <= req[c].date
  BY DEF InsertSession, At, IndInv, RequestsSound, Sound, LoggingIn
<1>2. /\ sessions' = [sessions EXCEPT ![s] = row]
      /\ opened' = opened \cup {s}
      /\ Return(c, t)
      /\ UNCHANGED <<now, signed, cleanups>>
  BY DEF InsertSession
<1>3. /\ RequestsSound' /\ req' \in [Client -> Request]
      /\ delivered' \subseteq delivered \cup {t}
  BY <1>1, <1>2, ReturnStep
<1>4. /\ u \in User /\ s \in SessionId /\ t \in Token
      /\ signed[t] # None /\ signed[t].user = u /\ signed[t].session = s
  BY <1>1 DEF HoldsNewToken
<1>5. row \in SessionRow /\ row.user = u /\ row.token = t /\ row.expiresAt = req[c].date
  BY <1>1, <1>4 DEF SessionRow
<1> HIDE DEF row, u, s, t
<1>6. \A x \in SessionId : sessions'[x] = IF x = s THEN row ELSE sessions[x]
  BY <1>2 DEF IndInv, TypeOK
<1>7. sessions' \in [SessionId -> Optional(SessionRow)]
  BY <1>2, <1>5 DEF IndInv, TypeOK
<1>8. /\ opened' \subseteq SessionId /\ delivered' \subseteq Token
      /\ \A x \in SessionId : sessions'[x] # None => x \in opened'
  BY <1>2, <1>3, <1>4, <1>6 DEF IndInv, TypeOK
<1>9. StoredTokensFit'
  <2> SUFFICES ASSUME NEW x \in SessionId, sessions'[x] # None
               PROVE  LET claims == signed[sessions'[x].token]
                      IN /\ claims # None /\ claims.session = x
                         /\ claims.user = sessions'[x].user
                         /\ claims.exp <= sessions'[x].expiresAt
    BY <1>2 DEF StoredTokensFit
  <2>1. CASE x = s
    BY <1>1, <1>4, <1>5, <1>6, <2>1 DEF t
  <2>2. CASE x # s
    BY <1>6, <2>2 DEF IndInv, StoredTokensFit
  <2> QED BY <2>1, <2>2
<1>10. DeliveredOpened'
  BY <1>2, <1>3, <1>4 DEF IndInv, DeliveredOpened
<1>11. TablesInv'
  BY <1>2, <1>7, <1>8, <1>9, <1>10, InvSplits DEF TablesInv, ClaimsRun, CleanupsLookBack
<1> QED BY <1>3, <1>11, InvSplitsNext

LEMMA UpdateSessionStep ==
  ASSUME IndInv, NEW c \in Client, UpdateSession(c)
  PROVE  IndInv'
<1> USE NoneIsFresh DEF Optional
<1> DEFINE u == req[c].user
           s == req[c].session
           t == req[c].token
<1>1. /\ HoldsNewToken(req[c]) /\ s \in opened
      /\ req[c].date \in Nat /\ signed[t].exp <= req[c].date
  BY DEF UpdateSession, At, IndInv, RequestsSound, Sound, Refreshing, Step
<1>2. /\ sessions' = Rotated(req[c])
      /\ Return(c, t)
      /\ UNCHANGED <<now, opened, signed, cleanups>>
  BY DEF UpdateSession
<1>3. /\ RequestsSound' /\ req' \in [Client -> Request]
      /\ delivered' \subseteq delivered \cup {t}
  BY <1>1, <1>2, ReturnStep
<1>4. /\ u \in User /\ s \in SessionId /\ t \in Token
      /\ signed[t] # None /\ signed[t].user = u /\ signed[t].session = s
  BY <1>1 DEF HoldsNewToken
<1>5. ASSUME NEW x \in SessionId, sessions'[x] # sessions[x]
      PROVE  /\ x = s /\ sessions[s] # None /\ sessions[s].user = u
             /\ sessions'[x] = [sessions[s] EXCEPT !.token = t, !.expiresAt = req[c].date]
  BY <1>2, <1>5 DEF Rotated, IndInv, TypeOK
<1>6. ASSUME NEW x \in SessionId, sessions'[x] # sessions[x]
      PROVE  /\ x = s /\ sessions'[x] \in SessionRow /\ sessions'[x].user = u
             /\ sessions'[x].token = t /\ sessions'[x].expiresAt = req[c].date
  <2>1. /\ x = s /\ sessions[s] \in SessionRow /\ sessions[s].user = u
        /\ sessions'[x] = [sessions[s] EXCEPT !.token = t, !.expiresAt = req[c].date]
    BY <1>4, <1>5, <1>6 DEF IndInv, TypeOK
  <2> HIDE DEF u, s, t
  <2> QED BY <1>1, <1>4, <2>1 DEF SessionRow
<1>7. sessions' \in [SessionId -> Optional(SessionRow)]
  <2>1. DOMAIN sessions' = SessionId /\ sessions' = [x \in SessionId |-> sessions'[x]]
    BY <1>2 DEF Rotated, IndInv, TypeOK
  <2>2. \A x \in SessionId : sessions'[x] \in Optional(SessionRow)
    BY <1>6 DEF IndInv, TypeOK
  <2> QED BY <2>1, <2>2
<1> HIDE DEF u, s, t
<1>8. \A x \in SessionId : sessions'[x] # None => x \in opened'
  BY <1>1, <1>2, <1>6 DEF IndInv
<1>9. StoredTokensFit'
  <2> SUFFICES ASSUME NEW x \in SessionId, sessions'[x] # None
               PROVE  LET claims == signed[sessions'[x].token]
                      IN /\ claims # None /\ claims.session = x
                         /\ claims.user = sessions'[x].user
                         /\ claims.exp <= sessions'[x].expiresAt
    BY <1>2 DEF StoredTokensFit
  <2>1. CASE sessions'[x] # sessions[x]
    BY <1>1, <1>4, <1>6, <2>1 DEF t
  <2>2. CASE sessions'[x] = sessions[x]
    BY <2>2 DEF IndInv, StoredTokensFit
  <2> QED BY <2>1, <2>2
<1>10. DeliveredOpened'
  BY <1>1, <1>2, <1>3, <1>4 DEF IndInv, DeliveredOpened
<1>11. TablesInv'
  BY <1>2, <1>3, <1>4, <1>7, <1>8, <1>9, <1>10, InvSplits DEF TablesInv, ClaimsRun, CleanupsLookBack
<1> QED BY <1>3, <1>11, InvSplitsNext

\* Rows go: the rows left are as they were.
LEMMA DeletingKeepsTables ==
  ASSUME IndInv, UNCHANGED <<now, opened, signed, delivered>>,
         sessions' \in [SessionId -> Optional(SessionRow)],
         \A s \in SessionId : sessions'[s] \in {sessions[s], None},
         cleanups' \subseteq cleanups
  PROVE  TablesInv'
<1>1. StoredTokensFit'
  BY DEF IndInv, StoredTokensFit
<1> QED BY <1>1, InvSplits DEF TablesInv, IndInv, ClaimsRun, DeliveredOpened, CleanupsLookBack

\* Requests do not look at rows, dates or the clock.
LEMMA RequestsUntouched ==
  ASSUME IndInv, UNCHANGED <<opened, signed, delivered, req>>
  PROVE  RequestsSound' /\ req' \in [Client -> Request]
BY DEF IndInv, TypeOK, RequestsSound, Sound, HoldsNewToken, Apart, LoggingIn, Refreshing

LEMMA LogoutStep ==
  ASSUME IndInv, NEW c \in Client, NEW u \in User, Logout(c, u)
  PROVE  IndInv'
<1>1. TablesInv'
  <2>1. /\ sessions' \in [SessionId -> Optional(SessionRow)]
        /\ \A s \in SessionId : sessions'[s] \in {sessions[s], None}
    BY DEF Logout, Without, Optional, IndInv, TypeOK
  <2> QED BY <2>1, DeletingKeepsTables DEF Logout
<1>2. PICK r \in Request : r = Idle("OK") /\ r.at = "idle" /\ r.token = None
  BY IdleIsSound DEF Idle, Reply
<1>3. Sound(r)'
  BY <1>2 DEF Sound, LoggingIn, Refreshing, Step
<1>4. Spares(c, r)
  BY <1>2, NoneIsFresh DEF Logout, Answer, IndInv, RequestsSound, Spares, Sound, HoldsNewToken,
                           Apart, LoggingIn
<1> QED BY <1>1, <1>3, <1>4, RequestsStep, InvSplitsNext

LEMMA CleanupStep ==
  ASSUME IndInv, Cleanup
  PROVE  IndInv'
<1>1. RequestsSound' /\ req' \in [Client -> Request]
  BY RequestsUntouched DEF Cleanup, StartCleanup, DeleteExpired, FailCleanup, tables
<1>2. CASE StartCleanup
  <2>1. now \in Nat
    BY DEF IndInv, TypeOK, Time
  <2>2. TablesInv'
    BY <1>2, <2>1, InvSplits DEF StartCleanup, ReferenceDate, tables, TablesInv, StoredTokensFit, ClaimsRun,
                           DeliveredOpened, CleanupsLookBack
  <2> QED BY <1>1, <2>2, InvSplitsNext
<1>3. ASSUME NEW date \in Time, DeleteExpired(date)
      PROVE  IndInv'
  <2>1. /\ sessions' \in [SessionId -> Optional(SessionRow)]
        /\ \A s \in SessionId : sessions'[s] \in {sessions[s], None}
    BY <1>3 DEF DeleteExpired, Optional, IndInv, TypeOK
  <2>2. TablesInv'
    BY <1>3, <2>1, DeletingKeepsTables DEF DeleteExpired
  <2> QED BY <1>1, <2>2, InvSplitsNext
<1>4. ASSUME NEW date \in Time, FailCleanup(date)
      PROVE  IndInv'
  <2>1. /\ sessions' \in [SessionId -> Optional(SessionRow)]
        /\ \A s \in SessionId : sessions'[s] \in {sessions[s], None}
    BY <1>4 DEF FailCleanup, tables, IndInv, TypeOK
  <2>2. TablesInv'
    BY <1>4, <2>1, DeletingKeepsTables DEF FailCleanup, tables
  <2> QED BY <1>1, <2>2, InvSplitsNext
<1> QED BY <1>2, <1>3, <1>4 DEF Cleanup

LEMMA TickStep ==
  ASSUME IndInv, Tick
  PROVE  IndInv'
<1>1. RequestsSound' /\ req' \in [Client -> Request]
  BY RequestsUntouched DEF Tick, tables
<1>2. now \in Nat /\ now' \in Time /\ now' = now + 1
  BY TimesTyped DEF Tick, IndInv, TypeOK, Time
<1>3. ClaimsRun'
  <2>1. \A t \in Token : signed[t] # None => signed[t].iat \in Nat
    BY DEF IndInv, TypeOK, Optional, Claims
  <2> QED BY <1>2, <2>1 DEF Tick, IndInv, ClaimsRun
<1>4. CleanupsLookBack'
  BY <1>2 DEF Tick, IndInv, TypeOK, CleanupsLookBack
<1>5. TablesInv'
  BY <1>2, <1>3, <1>4, InvSplits DEF Tick, tables, TablesInv, StoredTokensFit, DeliveredOpened
<1> QED BY <1>1, <1>5, InvSplitsNext

-----------------------------------------------------------------------------
LEMMA InitSatisfiesInv == Init => IndInv
<1> SUFFICES ASSUME Init PROVE IndInv
  OBVIOUS
<1>1. TypeOK
  BY IdleIsSound, TimesTyped DEF Init, TypeOK, Time, Optional, Reply
<1>2. RequestsSound
  BY IdleIsSound DEF Init, RequestsSound, Reply
<1> QED BY <1>1, <1>2, TimesTyped DEF Init, IndInv, StoredTokensFit, ClaimsRun, DeliveredOpened,
                          CleanupsLookBack

LEMMA NextPreservesInv == IndInv /\ [Next]_vars => IndInv'
<1> SUFFICES ASSUME IndInv, [Next]_vars PROVE IndInv'
  OBVIOUS
<1>1. ASSUME NEW c \in Client, Arrive(c) PROVE IndInv'
  <2>1. CASE LoginRefused(c)
    BY <2>1, AnswerStep DEF LoginRefused, Reply
  <2> QED BY <1>1, <2>1, LoginStep, LogoutStep, RefreshStep DEF Arrive
<1>2. ASSUME NEW c \in Client, Proceed(c) PROVE IndInv'
  BY <1>2, CreateSessionStep, InsertSessionStep, FindSessionStep, SignTokensStep,
     RotateRefreshTokenStep, UpdateSessionStep DEF Proceed
<1>3. ASSUME NEW c \in Client, Fail(c) PROVE IndInv'
  BY <1>3, AnswerStep DEF Fail, Reply
<1>4. CASE UNCHANGED vars
  BY <1>4 DEF vars, tables, IndInv, TypeOK, StoredTokensFit, ClaimsRun, DeliveredOpened,
              CleanupsLookBack, RequestsSound, Sound, HoldsNewToken, Apart, LoggingIn, Refreshing
<1> QED BY <1>1, <1>2, <1>3, <1>4, CleanupStep, TickStep DEF Next

\* The invariant of every execution of AuthService and RefreshTokenService.
THEOREM Invariance == Spec => []IndInv
BY InitSatisfiesInv, NextPreservesInv, PTL DEF Spec

\* Every column, claim and request holds a value of its type.
THEOREM TypeCorrect == Spec => []TypeOK
<1>1. IndInv => TypeOK
  BY DEF IndInv
<1> QED BY <1>1, Invariance, PTL

\* A session's digest is of a token signed for it, that it outlives.
THEOREM SessionsKeepFittingTokens == Spec => []StoredTokensFit
<1>1. IndInv => StoredTokensFit
  BY DEF IndInv
<1> QED BY <1>1, Invariance, PTL

-----------------------------------------------------------------------------
(* How rows change.                                                        *)

LoggedOut(s) == /\ sessions[s] # None /\ sessions'[s] = None
                /\ \E c \in Client : Logout(c, sessions[s].user)
CleanedUp(s) == /\ sessions[s] # None /\ sessions[s].expiresAt <= now
                /\ sessions'[s] = None
GivenToken(s) == /\ s \notin opened \/ sessions[s] # None
                 /\ sessions'[s] # None
                 /\ sessions'[s].token \notin delivered

LEMMA InsertGivesToken ==
  ASSUME IndInv, NEW c \in Client, InsertSession(c), NEW s \in SessionId, sessions'[s] # sessions[s]
  PROVE  GivenToken(s)
<1> DEFINE r == req[c]
           row == [user |-> r.user, token |-> r.token, expiresAt |-> r.date]
<1>1. HoldsNewToken(r) /\ r.session \notin opened /\ r.date \in Nat
  BY DEF InsertSession, At, IndInv, RequestsSound, Sound, LoggingIn
<1>2. s = r.session /\ sessions'[s] = row
  BY DEF InsertSession, IndInv, TypeOK
<1>3. row # None /\ row.token = r.token
  BY <1>1, NoneIsFresh DEF HoldsNewToken, SessionRow
<1> QED BY <1>1, <1>2, <1>3 DEF GivenToken, HoldsNewToken

LEMMA UpdateGivesToken ==
  ASSUME IndInv, NEW c \in Client, UpdateSession(c), NEW s \in SessionId, sessions'[s] # sessions[s]
  PROVE  GivenToken(s)
<1> DEFINE r == req[c]
<1>1. HoldsNewToken(r) /\ r.date \in Nat
  BY DEF UpdateSession, At, IndInv, RequestsSound, Sound
<1>2. /\ sessions[s] # None
      /\ sessions'[s] = [sessions[s] EXCEPT !.token = r.token, !.expiresAt = r.date]
  BY DEF UpdateSession, Rotated, IndInv, TypeOK
<1>3. sessions[s] \in SessionRow
  BY <1>2 DEF IndInv, TypeOK, Optional
<1> HIDE DEF r
<1>4. sessions'[s] \in SessionRow /\ sessions'[s].token = r.token
  BY <1>1, <1>2, <1>3 DEF HoldsNewToken, SessionRow
<1> QED BY <1>1, <1>2, <1>4, NoneIsFresh DEF GivenToken, HoldsNewToken

LEMMA RowsChange ==
  ASSUME IndInv, [Next]_vars, NEW s \in SessionId, sessions'[s] # sessions[s]
  PROVE  LoggedOut(s) \/ CleanedUp(s) \/ GivenToken(s)
<1>1. ASSUME NEW c \in Client, Arrive(c) \/ Proceed(c) \/ Fail(c)
      PROVE  LoggedOut(s) \/ GivenToken(s)
  <2>1. CASE \E u \in User : Logout(c, u)
    BY <2>1 DEF Logout, Without, LoggedOut
  <2>2. CASE InsertSession(c)
    BY <2>2, InsertGivesToken
  <2>3. CASE UpdateSession(c)
    BY <2>3, UpdateGivesToken
  <2> QED BY <1>1, <2>1, <2>2, <2>3
          DEF Arrive, Proceed, LoginRefused, Login, Refresh, CreateSession, FindSession, SignTokens,
              RotateRefreshToken, Fail, tables
<1>2. CASE Cleanup
  <2>1. PICK date \in Time : DeleteExpired(date)
    BY <1>2 DEF Cleanup, StartCleanup, FailCleanup, tables
  <2>2. sessions[s] # None /\ sessions[s].expiresAt <= date /\ sessions'[s] = None
    BY <2>1 DEF DeleteExpired, Expired
  <2>3. date \in Nat /\ now \in Nat /\ date <= now /\ sessions[s].expiresAt \in Nat
    BY <2>1, <2>2 DEF DeleteExpired, IndInv, TypeOK, CleanupsLookBack, Time, Optional, SessionRow
  <2> QED BY <2>2, <2>3 DEF CleanedUp
<1>3. CASE Tick \/ UNCHANGED vars
  BY <1>3 DEF Tick, vars, tables
<1> QED BY <1>1, <1>2, <1>3 DEF Next

\* No interleaving of refreshes, logouts and cleanups brings a session back.
THEOREM EndedSessionsStayEnded == Spec => NoResurrection
<1> DEFINE Kept == \A s \in opened : sessions[s] = None => sessions'[s] = None
<1>1. IndInv /\ [Next]_vars => [Kept]_vars
  <2> SUFFICES ASSUME IndInv, [Next]_vars PROVE Kept
    OBVIOUS
  <2> QED BY RowsChange DEF IndInv, TypeOK, LoggedOut, CleanedUp, GivenToken
<1> QED BY <1>1, Invariance, PTL DEF Spec, NoResurrection

\* A token some client already had is never accepted anew.
THEOREM RotatedTokensStayRefused == Spec => OnlyFreshTokensAccepted
<1> DEFINE Fresh == \A s \in SessionId :
                      /\ sessions'[s] # None
                      /\ sessions[s] = None \/ sessions[s].token # sessions'[s].token
                      => sessions'[s].token \notin delivered
<1>1. IndInv /\ [Next]_vars => [Fresh]_vars
  <2> SUFFICES ASSUME IndInv, [Next]_vars PROVE Fresh
    OBVIOUS
  <2> QED BY RowsChange DEF LoggedOut, CleanedUp, GivenToken
<1> QED BY <1>1, Invariance, PTL DEF Spec, OnlyFreshTokensAccepted

\* No cleanup, however late, deletes a session that has time left.
THEOREM CleanupSparesLiveSessions == Spec => OnlyLogoutEndsLiveSessions
<1> DEFINE Spared == \A s \in SessionId :
                       sessions[s] # None /\ sessions[s].expiresAt > now /\ sessions'[s] = None =>
                         \E c \in Client : Logout(c, sessions[s].user)
<1>1. IndInv /\ [Next]_vars => [Spared]_vars
  <2> SUFFICES ASSUME IndInv, [Next]_vars,
                      NEW s \in SessionId, sessions[s] # None, sessions[s].expiresAt > now,
                      sessions'[s] = None
               PROVE  \E c \in Client : Logout(c, sessions[s].user)
    OBVIOUS
  <2>1. LoggedOut(s) \/ CleanedUp(s)
    BY RowsChange DEF GivenToken
  <2>2. sessions[s].expiresAt \in Nat /\ now \in Nat
    BY DEF IndInv, TypeOK, Time, Optional, SessionRow
  <2> QED BY <2>1, <2>2 DEF LoggedOut, CleanedUp
<1> QED BY <1>1, Invariance, PTL DEF Spec, OnlyLogoutEndsLiveSessions

-----------------------------------------------------------------------------
(* A second invariant on top of the first: who owns a session, and that    *)
(* the dates of writes are not from the future.                            *)

LEMMA IdleIsGrounded == \A reply : Grounded(Idle(reply))
BY DEF Idle, Grounded, Refreshing, Step

\* An opened session keeps its user as long as it lasts.
KeepsUsers == \A s \in opened : sessions'[s] # None =>
                sessions[s] # None /\ sessions'[s].user = sessions[s].user

LEMMA OwnersKept ==
  ASSUME IndInv, OwnersInv, KeepsUsers, now' \in Nat, now <= now',
         \A t \in Token : signed[t] # None => signed'[t] = signed[t],
         delivered \subseteq delivered',
         \A t \in delivered' \ delivered : KeepsOwner(signed[t].user, signed[t].session)',
         \A c \in Client : req'[c] = req[c] \/ Grounded(req[c])'
  PROVE  OwnersInv'
<1>1. ASSUME NEW t \in delivered' PROVE KeepsOwner(signed[t].user, signed[t].session)'
  <2>1. CASE t \in delivered
    <3>1. signed'[t] = signed[t] /\ signed[t].session \in opened
      BY <2>1 DEF IndInv, TypeOK, DeliveredOpened
    <3>2. KeepsOwner(signed[t].user, signed[t].session)
      BY <2>1 DEF OwnersInv
    <3> QED BY <3>1, <3>2 DEF KeepsUsers, KeepsOwner
  <2> QED BY <1>1, <2>1
<1>2. ASSUME NEW c \in Client, req'[c] = req[c] PROVE Grounded(req[c])'
  <2> DEFINE r == req[c]
  <2>1. Grounded(r) /\ Sound(r)
    BY DEF OwnersInv, IndInv, RequestsSound
  <2>2. Refreshing(r) => KeepsOwner(r.user, r.session)'
    BY <1>2, <2>1 DEF Grounded, Sound, KeepsUsers, KeepsOwner
  <2>3. Refreshing(r) => r.presented \in delivered' /\ signed'[r.presented].session = r.session
    BY <2>1 DEF Grounded, IndInv, TypeOK, DeliveredOpened
  <2>4. r.at \in {"insertSession", "updateSession"} => r.date <= now' + RefreshTTL
    BY <2>1, TimesTyped DEF Grounded, Sound, IndInv, TypeOK, Time
  <2> QED BY <1>2, <2>2, <2>3, <2>4 DEF Grounded, Refreshing
<1> QED BY <1>1, <1>2 DEF OwnersInv

\* The steps of one request that leave rows and clients' tokens alone.
LEMMA OwnersKeptByRequest ==
  ASSUME IndInv, OwnersInv, UNCHANGED <<now, tables, delivered>>,
         \A t \in Token : signed[t] # None => signed'[t] = signed[t],
         NEW c \in Client, NEW r, req' = [req EXCEPT ![c] = r], Grounded(r)'
  PROVE  OwnersInv'
<1>1. KeepsUsers /\ now' \in Nat /\ now <= now'
  BY DEF tables, KeepsUsers, IndInv, TypeOK, Time
<1>2. req'[c] = r /\ \A d \in Client : d # c => req'[d] = req[d]
  BY DEF IndInv, TypeOK
<1>3. Grounded(req[c])'
  BY <1>2
<1> QED BY <1>1, <1>2, <1>3, OwnersKept

LEMMA OwnersAtAnswer ==
  ASSUME IndInv, OwnersInv, UNCHANGED <<now, tables, signed, delivered>>,
         NEW c \in Client, NEW reply, Answer(c, reply)
  PROVE  OwnersInv'
<1>1. Grounded(Idle(reply))'
  BY DEF Idle, Grounded, Refreshing, Step
<1> QED BY <1>1, OwnersKeptByRequest DEF Answer

\* Rows change only by a deletion, or keep their user.
LEMMA UsersKept ==
  ASSUME IndInv, [Next]_vars
  PROVE  KeepsUsers
<1> USE DEF KeepsUsers
<1>1. ASSUME NEW c \in Client, Arrive(c) \/ Proceed(c) \/ Fail(c) PROVE KeepsUsers
  <2>1. CASE \E u \in User : Logout(c, u)
    BY <2>1 DEF Logout, Without, IndInv, TypeOK
  <2>2. CASE InsertSession(c)
    <3>1. req[c].session \notin opened
      BY <2>2 DEF InsertSession, At, IndInv, RequestsSound, Sound, LoggingIn
    <3> QED BY <2>2, <3>1 DEF InsertSession, IndInv, TypeOK
  <2>3. CASE UpdateSession(c)
    <3>1. HoldsNewToken(req[c]) /\ req[c].date \in Nat
      BY <2>3 DEF UpdateSession, At, IndInv, RequestsSound, Sound
    <3>2. ASSUME NEW s \in opened, sessions'[s] # sessions[s]
          PROVE  sessions[s] # None /\ sessions'[s].user = sessions[s].user
      <4>1. /\ sessions[s] # None
            /\ sessions'[s] = [sessions[s] EXCEPT !.token = req[c].token, !.expiresAt = req[c].date]
        BY <2>3, <3>2 DEF UpdateSession, Rotated, IndInv, TypeOK
      <4>2. sessions[s] \in SessionRow
        BY <4>1 DEF IndInv, TypeOK, Optional
      <4> QED BY <4>1, <4>2 DEF SessionRow
    <3> QED BY <3>2
  <2>4. CASE UNCHANGED sessions
    BY <2>4
  <2>5. \/ (\E u \in User : Logout(c, u)) \/ InsertSession(c) \/ UpdateSession(c)
        \/ UNCHANGED sessions
    BY <1>1 DEF Arrive, Proceed, LoginRefused, Login, Refresh, CreateSession, FindSession,
                SignTokens, RotateRefreshToken, Fail, tables
  <2> QED BY <2>1, <2>2, <2>3, <2>4, <2>5
<1>2. CASE Cleanup
  BY <1>2 DEF Cleanup, StartCleanup, DeleteExpired, FailCleanup, tables, IndInv, TypeOK
<1>3. CASE Tick \/ UNCHANGED vars
  BY <1>3 DEF Tick, vars, tables
<1> QED BY <1>1, <1>2, <1>3 DEF Next

\* Signing keeps what was signed.
LEMMA ClaimsKept ==
  ASSUME IndInv, NEW t \in Token, NEW u, NEW s, CanSign(t, ClaimsAt(u, s)),
         signed' = [signed EXCEPT ![t] = ClaimsAt(u, s)]
  PROVE  \A x \in Token : signed[x] # None => signed'[x] = signed[x]
BY DEF IndInv, TypeOK, CanSign

LEMMA OwnersAtArrival ==
  ASSUME IndInv, OwnersInv, NEW c \in Client, Arrive(c), KeepsUsers
  PROVE  OwnersInv'
<1>1. CASE LoginRefused(c)
  BY <1>1, OwnersAtAnswer DEF LoginRefused
<1>2. ASSUME NEW u \in User, Login(c, u) PROVE OwnersInv'
  <2>1. PICK s \in SessionId, t \in Token :
          /\ CanSign(t, ClaimsAt(u, s))
          /\ signed' = [signed EXCEPT ![t] = ClaimsAt(u, s)]
          /\ req' = [req EXCEPT ![c] = [Idle("NONE") EXCEPT !.at = "createSession", !.user = u,
                                                          !.session = s, !.token = t]]
    BY <1>2 DEF Login, Await
  <2> DEFINE p == [Idle("NONE") EXCEPT !.at = "createSession", !.user = u, !.session = s,
                                       !.token = t]
  <2>5. p.at = "createSession"
    BY DEF Idle
  <2>2. PICK r : r = p /\ r.at = "createSession"
    <3> HIDE DEF p
    <3> QED BY <2>5
  <2>3. \A x \in Token : signed[x] # None => signed'[x] = signed[x]
    BY <2>1, ClaimsKept
  <2>4. Grounded(r)'
    BY <2>2 DEF Grounded, Refreshing, Step
  <2> QED BY <1>2, <2>1, <2>2, <2>3, <2>4, OwnersKeptByRequest DEF Login
<1>3. ASSUME NEW u \in User, Logout(c, u) PROVE OwnersInv'
  <2>1. \A d \in Client : req'[d] = req[d] \/ Grounded(req[d])'
    <3>1. \A d \in Client : req'[d] = req[d] \/ req'[d] = Idle("OK")
      BY <1>3 DEF Logout, Answer, IndInv, TypeOK
    <3>2. ASSUME NEW d \in Client, req'[d] = Idle("OK") PROVE Grounded(req[d])'
      BY <3>2 DEF Idle, Grounded, Refreshing, Step
    <3> QED BY <3>1, <3>2
  <2>2. now' \in Nat /\ now <= now'
    BY <1>3 DEF Logout, IndInv, TypeOK, Time
  <2> QED BY <1>3, <2>1, <2>2, OwnersKept DEF Logout
<1>4. ASSUME NEW t \in Token, Refresh(c, t) PROVE OwnersInv'
  <2> DEFINE r == [Idle("NONE") EXCEPT !.at = "findSession", !.user = signed[t].user,
                     !.session = signed[t].session, !.presented = t, !.date = now]
  <2>1. CASE Answer(c, "UNAUTHORIZED_ACCESS")
    BY <1>4, <2>1, OwnersAtAnswer DEF Refresh
  <2>2. CASE Await(c, r)
    <3>5. /\ r.at = "findSession" /\ r.user = signed[t].user
          /\ r.session = signed[t].session /\ r.presented = t
      BY DEF Idle
    <3>1. PICK q : /\ q = r
                   /\ q.at = "findSession" /\ q.user = signed[t].user
                   /\ q.session = signed[t].session /\ q.presented = t
      <4> HIDE DEF r
      <4> QED BY <3>5
    <3>2. /\ t \in delivered /\ UNCHANGED <<now, tables, signed, delivered, cleanups>>
          /\ req' = [req EXCEPT ![c] = q]
      BY <1>4, <2>2, <3>1 DEF Refresh, Await
    <3>3. KeepsOwner(signed[t].user, signed[t].session)
      BY <3>2 DEF OwnersInv
    <3>4. Grounded(q)'
      BY <3>1, <3>2, <3>3 DEF tables, Grounded, Refreshing, KeepsOwner
    <3> QED BY <3>2, <3>4, OwnersKeptByRequest
  <2> QED BY <1>4, <2>1, <2>2 DEF Refresh
<1> QED BY <1>1, <1>2, <1>3, <1>4 DEF Arrive

\* A step of a refresh that leaves its client, session and presented token alone.
LEMMA OwnersAtRead ==
  ASSUME IndInv, OwnersInv, UNCHANGED <<now, tables, delivered>>,
         \A t \in Token : signed[t] # None => signed'[t] = signed[t],
         NEW c \in Client, Refreshing(req[c]), NEW r,
         r.user = req[c].user, r.session = req[c].session, r.presented = req[c].presented,
         r.at = "updateSession" => r.date <= now + RefreshTTL, r.at # "insertSession",
         req' = [req EXCEPT ![c] = r]
  PROVE  OwnersInv'
<1>1. Grounded(req[c])
  BY DEF OwnersInv
<1>2. signed[req[c].presented] # None
  BY <1>1 DEF Grounded, IndInv, DeliveredOpened
<1>3. signed'[req[c].presented] = signed[req[c].presented]
  BY <1>1, <1>2 DEF Grounded, IndInv, TypeOK
<1>4. Grounded(r)'
  BY <1>1, <1>3 DEF tables, Grounded, Refreshing, KeepsOwner
<1> QED BY <1>4, OwnersKeptByRequest

\* The answer hands over the token of a session whose row, if there is one, has the
\* request's user.
LEMMA OwnersAtReturn ==
  ASSUME IndInv, OwnersInv, KeepsUsers, NEW c \in Client, Return(c, req[c].token),
         HoldsNewToken(req[c]), UNCHANGED <<now, signed>>,
         NEW u, NEW s, u = req[c].user, s = req[c].session, KeepsOwner(u, s)'
  PROVE  OwnersInv'
<1>1. PICK reply : req' = [req EXCEPT ![c] = Idle(reply)] /\ delivered' \in {delivered, delivered \cup {req[c].token}}
  BY DEF Return, Answer
<1>2. \A d \in Client : req'[d] = req[d] \/ Grounded(req[d])'
  <2>1. \A d \in Client : req'[d] = req[d] \/ req'[d] = Idle(reply)
    BY <1>1 DEF IndInv, TypeOK
  <2>2. ASSUME NEW d \in Client, req'[d] = Idle(reply) PROVE Grounded(req[d])'
    BY <2>2 DEF Idle, Grounded, Refreshing, Step
  <2> QED BY <2>1, <2>2
<1>3. ASSUME NEW t \in delivered' \ delivered PROVE KeepsOwner(signed[t].user, signed[t].session)'
  <2>1. signed[t].user = u /\ signed[t].session = s
    BY <1>1 DEF HoldsNewToken
  <2>2. signed' = signed
    OBVIOUS
  <2> QED BY <2>1, <2>2 DEF KeepsOwner
<1>4. now' \in Nat /\ now <= now' /\ delivered \subseteq delivered'
  BY <1>1 DEF IndInv, TypeOK, Time
<1> QED BY <1>2, <1>3, <1>4, OwnersKept

LEMMA OwnersAtProceed ==
  ASSUME IndInv, OwnersInv, NEW c \in Client, Proceed(c), KeepsUsers
  PROVE  OwnersInv'
<1> DEFINE r == req[c]
<1>0. r \in Request
  BY DEF IndInv, TypeOK
<1>1. CASE CreateSession(c)
  <2> DEFINE p == [r EXCEPT !.at = "insertSession", !.date = RefreshTokenExpiresAt]
  <2>5. p.at = "insertSession" /\ p.date = now + RefreshTTL
    BY <1>0 DEF Request, RefreshTokenExpiresAt
  <2>2. PICK q : /\ q = p
                 /\ q.at = "insertSession" /\ q.date = now + RefreshTTL
    <3> HIDE DEF p
    <3> QED BY <2>5
  <2>1. req' = [req EXCEPT ![c] = q] /\ UNCHANGED <<now, tables, signed, delivered>>
    BY <1>0, <1>1, <2>2 DEF CreateSession, IndInv, TypeOK, Request
  <2>3. now' + RefreshTTL \in Nat /\ q.date <= now' + RefreshTTL
    BY <2>1, <2>2, TimesTyped DEF IndInv, TypeOK, Time
  <2>4. Grounded(q)'
    BY <2>2, <2>3 DEF Grounded, Refreshing
  <2> QED BY <2>1, <2>4, OwnersKeptByRequest
<1>2. CASE InsertSession(c)
  <2>1. HoldsNewToken(r)
    BY <1>2 DEF InsertSession, At, IndInv, RequestsSound, Sound
  <2>2. sessions'[r.session] = [user |-> r.user, token |-> r.token, expiresAt |-> r.date]
    BY <1>2, <2>1 DEF InsertSession, HoldsNewToken, IndInv, TypeOK
  <2>3. PICK u, s : u = r.user /\ s = r.session
    OBVIOUS
  <2>4. KeepsOwner(u, s)'
    BY <2>2, <2>3 DEF KeepsOwner
  <2> QED BY <1>2, <2>1, <2>3, <2>4, OwnersAtReturn DEF InsertSession
<1>3. CASE FindSession(c)
  <2> DEFINE p == [r EXCEPT !.at = "signTokens", !.date = None]
  <2>1. CASE Answer(c, "UNAUTHORIZED_ACCESS")
    BY <1>3, <2>1, OwnersAtAnswer DEF FindSession
  <2>2. CASE Await(c, p)
    <3>5. p.at = "signTokens" /\ p.user = r.user /\ p.session = r.session /\ p.presented = r.presented
      BY <1>0 DEF Request
    <3>1. PICK q : /\ q = p
                   /\ q.at = "signTokens" /\ q.user = r.user /\ q.session = r.session
                   /\ q.presented = r.presented
      <4> HIDE DEF p
      <4> QED BY <3>5
    <3>2. /\ req' = [req EXCEPT ![c] = q] /\ Refreshing(r)
          /\ UNCHANGED <<now, tables, signed, delivered>>
      BY <1>3, <2>2, <3>1 DEF FindSession, Await, At, Refreshing, Step
    <3> QED BY <3>1, <3>2, OwnersAtRead
  <2> QED BY <1>3, <2>1, <2>2 DEF FindSession
<1>4. CASE SignTokens(c)
  <2>1. PICK t \in Token :
          /\ CanSign(t, ClaimsAt(r.user, r.session))
          /\ signed' = [signed EXCEPT ![t] = ClaimsAt(r.user, r.session)]
          /\ req' = [req EXCEPT ![c].at = "rotateRefreshToken", ![c].token = t]
    BY <1>4 DEF SignTokens
  <2> DEFINE p == [r EXCEPT !.at = "rotateRefreshToken", !.token = t]
  <2>5. p.at = "rotateRefreshToken" /\ p.user = r.user /\ p.session = r.session /\ p.presented = r.presented
    BY <1>0 DEF Request
  <2>3. PICK q : /\ q = p
                 /\ q.at = "rotateRefreshToken" /\ q.user = r.user /\ q.session = r.session
                 /\ q.presented = r.presented
    <3> HIDE DEF p
    <3> QED BY <2>5
  <2>2. req' = [req EXCEPT ![c] = q] /\ UNCHANGED <<now, tables, delivered>> /\ Refreshing(r)
    BY <1>0, <1>4, <2>1, <2>3 DEF SignTokens, At, Refreshing, Step, IndInv, TypeOK, Request
  <2>4. \A x \in Token : signed[x] # None => signed'[x] = signed[x]
    BY <2>1, ClaimsKept
  <2> QED BY <2>2, <2>3, <2>4, OwnersAtRead
<1>5. CASE RotateRefreshToken(c)
  <2> DEFINE p == [r EXCEPT !.at = "updateSession", !.date = RefreshTokenExpiresAt]
  <2>5. /\ p.at = "updateSession" /\ p.user = r.user /\ p.session = r.session
        /\ p.presented = r.presented /\ p.date = now + RefreshTTL
    BY <1>0 DEF Request, RefreshTokenExpiresAt
  <2>2. PICK q : /\ q = p
                 /\ q.at = "updateSession" /\ q.user = r.user /\ q.session = r.session
                 /\ q.presented = r.presented /\ q.date = now + RefreshTTL
    <3> HIDE DEF p
    <3> QED BY <2>5
  <2>1. /\ req' = [req EXCEPT ![c] = q] /\ UNCHANGED <<now, tables, signed, delivered>>
        /\ Refreshing(r)
    BY <1>0, <1>5, <2>2 DEF RotateRefreshToken, At, Refreshing, Step, IndInv, TypeOK, Request
  <2>3. q.date <= now + RefreshTTL
    BY <2>2, TimesTyped DEF IndInv, TypeOK, Time
  <2> QED BY <2>1, <2>2, <2>3, OwnersAtRead
<1>6. CASE UpdateSession(c)
  <2>1. HoldsNewToken(r) /\ Refreshing(r) /\ r.session \in opened
    BY <1>6 DEF UpdateSession, At, IndInv, RequestsSound, Sound, Refreshing, Step
  <2>2. KeepsOwner(r.user, r.session)
    BY <2>1 DEF OwnersInv, Grounded
  <2>3. PICK u, s : u = r.user /\ s = r.session
    OBVIOUS
  <2>4. KeepsOwner(u, s)'
    BY <2>1, <2>2, <2>3 DEF KeepsOwner, KeepsUsers
  <2> QED BY <1>6, <2>1, <2>3, <2>4, OwnersAtReturn DEF UpdateSession
<1> QED BY <1>1, <1>2, <1>3, <1>4, <1>5, <1>6 DEF Proceed

LEMMA NextPreservesOwners == IndInv /\ OwnersInv /\ [Next]_vars => OwnersInv'
<1> SUFFICES ASSUME IndInv, OwnersInv, [Next]_vars PROVE OwnersInv'
  OBVIOUS
<1>1. KeepsUsers
  BY UsersKept
<1>2. ASSUME NEW c \in Client, Fail(c) PROVE OwnersInv'
  BY <1>2, OwnersAtAnswer DEF Fail
<1>3. CASE Cleanup \/ Tick \/ UNCHANGED vars
  <2>1. UNCHANGED <<signed, delivered, req>>
    BY <1>3 DEF Cleanup, StartCleanup, DeleteExpired, FailCleanup, Tick, vars
  <2>2. now' \in Nat /\ now <= now'
    BY <1>3, TimesTyped DEF Cleanup, StartCleanup, DeleteExpired, FailCleanup, Tick, vars, IndInv,
                            TypeOK, Time
  <2> QED BY <1>1, <2>1, <2>2, OwnersKept
<1> QED BY <1>1, <1>2, <1>3, OwnersAtArrival, OwnersAtProceed DEF Next

\* Who owns a session, and until when its rows may live.
THEOREM OwnersInvariance == Spec => []OwnersInv
<1>1. Init => OwnersInv
  BY IdleIsGrounded DEF Init, OwnersInv
<1> QED BY <1>1, NextPreservesOwners, Invariance, PTL DEF Spec

-----------------------------------------------------------------------------
(* The services implement SessionsContract.                                *)

Stays == UNCHANGED Contract!vars

\* A token starts to exist.
LEMMA SigningIssues ==
  ASSUME IndInv, NEW s \in SessionId, NEW t \in Token, NEW u \in User,
         CanSign(t, ClaimsAt(u, s)), signed' = [signed EXCEPT ![t] = ClaimsAt(u, s)],
         UNCHANGED <<now, tables, delivered>>
  PROVE  Contract!Next
<1> DEFINE Owned == [x \in Token |-> IF signed[x] = None THEN None ELSE signed[x].session]
<1>1. ClaimsAt(u, s) # None /\ ClaimsAt(u, s).session = s
  <2>1. ClaimsAt(u, s) \in Claims /\ ClaimsAt(u, s).session = s
    BY TimesTyped DEF ClaimsAt, Claims, IndInv, TypeOK, Time
  <2> QED BY <2>1, NoneIsFresh
<1>2. Owned' = [Owned EXCEPT ![t] = s]
  BY <1>1 DEF IndInv, TypeOK
<1>3. Owned[t] = None
  BY DEF CanSign
<1>4. Contract!Issue(s, t)
  BY <1>2, <1>3 DEF Contract!Issue, tables
<1> QED BY <1>4 DEF Contract!Next

LEMMA RotatedRow ==
  ASSUME NEW row \in SessionRow, NEW t, NEW e
  PROVE  [row EXCEPT !.token = t, !.expiresAt = e] = [user |-> row.user, token |-> t, expiresAt |-> e]
<1>1. PICK u, f, d : row = [user |-> u, token |-> f, expiresAt |-> d]
  BY DEF SessionRow
<1>2. row.user = u
  BY <1>1
<1> DEFINE q == [row EXCEPT !.token = t]
<1>3. q = [user |-> u, token |-> t, expiresAt |-> d]
  BY <1>1
<1>4. [q EXCEPT !.expiresAt = e] = [user |-> u, token |-> t, expiresAt |-> e]
  <2> HIDE DEF q
  <2> QED BY <1>3
<1> QED BY <1>2, <1>4

\* What the answer does to the tokens clients have.
LEMMA ReturnDelivers ==
  ASSUME NEW c \in Client, NEW t, Return(c, t)
  PROVE  delivered' \in {delivered, delivered \cup {t}}
BY DEF Return

LEMMA InsertOpens ==
  ASSUME IndInv, OwnersInv, NEW c \in Client, InsertSession(c)
  PROVE  Contract!Next
<1> DEFINE r == req[c]
           Owned == [x \in Token |-> IF signed[x] = None THEN None ELSE signed[x].session]
<1>1. HoldsNewToken(r) /\ r.session \notin opened /\ r.date \in Nat /\ r.date <= now + RefreshTTL
  BY DEF InsertSession, At, IndInv, RequestsSound, Sound, LoggingIn, OwnersInv, Grounded
<1>2. r.date \in 0 .. now + RefreshTTL
  BY <1>1, TimesTyped DEF IndInv, TypeOK, Time
<1>3. Owned[r.token] = r.session /\ r.token \notin delivered /\ Owned' = Owned /\ now' = now
  BY <1>1 DEF HoldsNewToken, InsertSession
<1>4. delivered' \in {delivered, delivered \cup {r.token}}
  BY ReturnDelivers DEF InsertSession
<1>5. \E e \in 0 .. now + RefreshTTL :
        sessions' = [sessions EXCEPT ![r.session] =
                       [user |-> r.user, token |-> r.token, expiresAt |-> e]]
  BY <1>2 DEF InsertSession
<1>6. Contract!Accept(r.session, r.user, r.token)
  BY <1>3, <1>4, <1>5 DEF Contract!Accept
<1>7. Contract!Open(r.session, r.user, r.token)
  BY <1>1, <1>6 DEF Contract!Open, InsertSession
<1> QED BY <1>1, <1>7 DEF Contract!Next, HoldsNewToken

\* The update of a refresh extends its session, or comes too late.
LEMMA UpdateExtends ==
  ASSUME IndInv, OwnersInv, NEW c \in Client, UpdateSession(c)
  PROVE  Contract!Next \/ Stays
<1> DEFINE r == req[c]
           Owned == [x \in Token |-> IF signed[x] = None THEN None ELSE signed[x].session]
<1>1. /\ HoldsNewToken(r) /\ r.session \in opened /\ r.date \in Nat
      /\ r.date <= now + RefreshTTL /\ Refreshing(r)
  BY DEF UpdateSession, At, IndInv, RequestsSound, Sound, Refreshing, Step, OwnersInv, Grounded
<1>2. /\ KeepsOwner(r.user, r.session)
      /\ r.presented \in delivered /\ signed[r.presented].session = r.session
  BY <1>1 DEF OwnersInv, Grounded
<1>3. r.date \in 0 .. now + RefreshTTL
  BY <1>1, TimesTyped DEF IndInv, TypeOK, Time
<1>4. /\ Owned[r.token] = r.session /\ r.token \notin delivered /\ Owned' = Owned
      /\ now' = now /\ opened' = opened /\ sessions' = Rotated(r)
  BY <1>1 DEF HoldsNewToken, UpdateSession
<1>5. delivered' \in {delivered, delivered \cup {r.token}}
  BY ReturnDelivers DEF UpdateSession
<1>6. CASE sessions[r.session] = None
  <2>1. sessions' = sessions
    BY <1>1, <1>4, <1>6 DEF Rotated, HoldsNewToken, IndInv, TypeOK
  <2>2. CASE delivered' = delivered
    BY <1>4, <2>1, <2>2 DEF Stays, Contract!vars
  <2>3. CASE delivered' = delivered \cup {r.token}
    <3>1. Contract!ExtendEnded(r.session, r.token)
      BY <1>1, <1>4, <1>6, <2>1, <2>3 DEF Contract!ExtendEnded, Contract!Ended
    <3> QED BY <1>1, <3>1 DEF Contract!Next, HoldsNewToken
  <2> QED BY <1>5, <2>2, <2>3
<1>7. CASE sessions[r.session] # None
  <2>1. sessions[r.session] \in SessionRow /\ sessions[r.session].user = r.user
    BY <1>1, <1>2, <1>7 DEF KeepsOwner, HoldsNewToken, IndInv, TypeOK, Optional
  <2>2. [sessions[r.session] EXCEPT !.token = r.token, !.expiresAt = r.date]
          = [user |-> sessions[r.session].user, token |-> r.token, expiresAt |-> r.date]
    BY <2>1, RotatedRow
  <2>3. sessions' = [sessions EXCEPT ![r.session] =
                       [user |-> sessions[r.session].user, token |-> r.token, expiresAt |-> r.date]]
    BY <1>4, <1>7, <2>1, <2>2 DEF Rotated
  <2>4. \E p \in delivered : Owned[p] = r.session
    BY <1>2 DEF IndInv, TypeOK, DeliveredOpened
  <2>5. Contract!Accept(r.session, sessions[r.session].user, r.token)
    BY <1>3, <1>4, <1>5, <2>3 DEF Contract!Accept
  <2>6. Contract!Extend(r.session, r.token)
    BY <1>4, <1>7, <2>4, <2>5 DEF Contract!Extend
  <2> QED BY <1>1, <2>6 DEF Contract!Next, HoldsNewToken
<1> QED BY <1>6, <1>7

LEMMA ArrivalRefines ==
  ASSUME IndInv, NEW c \in Client, Arrive(c)
  PROVE  Contract!Next \/ Stays
<1>1. ASSUME NEW u \in User, Login(c, u) PROVE Contract!Next
  BY <1>1, SigningIssues DEF Login
<1>2. ASSUME NEW u \in User, Logout(c, u) PROVE Contract!Next
  <2>1. Contract!Logout(u)
    BY <1>2 DEF Logout, Without, Contract!Logout
  <2> QED BY <2>1 DEF Contract!Next
<1>3. CASE LoginRefused(c) \/ \E t \in Token : Refresh(c, t)
  BY <1>3 DEF LoginRefused, Refresh, Stays, Contract!vars, tables
<1> QED BY <1>1, <1>2, <1>3 DEF Arrive

LEMMA ProceedRefines ==
  ASSUME IndInv, OwnersInv, NEW c \in Client, Proceed(c)
  PROVE  Contract!Next \/ Stays
<1>1. CASE SignTokens(c)
  <2>1. req[c].user \in User /\ req[c].session \in SessionId
    BY <1>1 DEF SignTokens, At, IndInv, TypeOK, RequestsSound, Sound, Refreshing, Step
  <2> QED BY <1>1, <2>1, SigningIssues DEF SignTokens
<1>2. CASE CreateSession(c) \/ FindSession(c) \/ RotateRefreshToken(c)
  BY <1>2 DEF CreateSession, FindSession, RotateRefreshToken, Stays, Contract!vars, tables
<1> QED BY <1>1, <1>2, InsertOpens, UpdateExtends DEF Proceed

LEMMA CleanupRefines ==
  ASSUME IndInv, Cleanup
  PROVE  Contract!Next \/ Stays
<1>1. ASSUME NEW date \in Time, DeleteExpired(date) PROVE Contract!Next
  <2> DEFINE S == {s \in SessionId : sessions[s] # None /\ Expired(sessions[s], date)}
  <2>1. date <= now /\ date \in Nat /\ now \in Nat
    BY <1>1 DEF DeleteExpired, IndInv, CleanupsLookBack, TypeOK, Time
  <2>2. \A s \in S : sessions[s] # None /\ sessions[s].expiresAt <= now
    <3>1. \A s \in S : sessions[s].expiresAt \in Nat
      BY DEF IndInv, TypeOK, Optional, SessionRow
    <3> QED BY <2>1, <3>1 DEF Expired
  <2>3. sessions' = [s \in SessionId |-> IF s \in S THEN None ELSE sessions[s]]
    BY <1>1 DEF DeleteExpired
  <2>4. UNCHANGED <<now, opened, signed, delivered>>
    BY <1>1 DEF DeleteExpired
  <2>5. Contract!Expire(S)
    BY <2>2, <2>3, <2>4 DEF Contract!Expire
  <2> QED BY <2>5 DEF Contract!Next
<1>2. CASE StartCleanup \/ \E date \in Time : FailCleanup(date)
  BY <1>2 DEF StartCleanup, FailCleanup, Stays, Contract!vars, tables
<1> QED BY <1>1, <1>2 DEF Cleanup

\* Whatever requests read before they write, whatever fails and whatever is lost:
\* sessions open once, accept one new token after the other and end for good.
THEOREM SessionsRefinement == Spec => ImplementsContract
<1>1. Init => Contract!Init
  BY DEF Init, Contract!Init
<1>2. IndInv /\ OwnersInv /\ [Next]_vars => [Contract!Next]_(Contract!vars)
  <2> SUFFICES ASSUME IndInv, OwnersInv, [Next]_vars PROVE Contract!Next \/ Stays
    BY DEF Stays
  <2>1. CASE \E c \in Client : Fail(c)
    BY <2>1 DEF Fail, Stays, Contract!vars, tables
  <2>2. CASE Tick
    <3>1. Contract!Tick
      BY <2>2 DEF Tick, tables, Contract!Tick
    <3> QED BY <3>1 DEF Contract!Next
  <2>3. CASE UNCHANGED vars
    BY <2>3 DEF vars, tables, Stays, Contract!vars
  <2> QED BY <2>1, <2>2, <2>3, ArrivalRefines, ProceedRefines, CleanupRefines DEF Next
<1> QED BY <1>1, <1>2, Invariance, OwnersInvariance, PTL DEF Spec, ImplementsContract, Contract!Spec
=============================================================================
