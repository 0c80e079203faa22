---------------------------- MODULE GatewayProofs ----------------------------
(***************************************************************************)
(* For any number of instances, requests and users: one application per    *)
(* instance, and no administration by anybody but administrators.  Both    *)
(* rest on what a request counts on while it waits (Waits): its instance   *)
(* has started its bootstrap, and the claims it carries hold of the row,   *)
(* which only ever gains a role.                                           *)
(***************************************************************************)
EXTENDS Gateway, TLAPS

LEMMA IdleIsSound ==
  ASSUME NEW reply \in Reply
  PROVE  /\ Idle(reply) \in Request /\ Waits(Idle(reply))
         /\ Idle(reply).at = "idle" /\ Idle(reply).reply = reply
BY NoneIsFresh DEF Idle, Request, Optional, Waits, Route

LEMMA IdleIsOwn == \A reply : Idle(reply).reply = reply
BY DEF Idle

\* A step of one request: bootstraps may start, rows stay, tokens may be added.
LEMMA RequestStep ==
  ASSUME IndInv, NEW c \in Client, NEW r \in Request, req' = [req EXCEPT ![c] = r],
         UNCHANGED roles, OneAppPerInstance',
         appReady' \in [Instance -> Promise], apps' \in [Instance -> Nat],
         \A i \in Instance : appReady[i] \notin {"down", "undefined"} =>
                               appReady'[i] \notin {"down", "undefined"},
         Waits(r)', \A claims \in issued' : claims \in Claims /\ ClaimsHold(claims)
  PROVE  IndInv'
<1>1. \A d \in Client : req'[d] = IF d = c THEN r ELSE req[d]
  BY DEF IndInv, TypeOK
<1>2. TypeOK'
  BY DEF IndInv, TypeOK
<1>3. \A claims \in issued' : ClaimsHold(claims)'
  BY DEF ClaimsHold
<1>4. ASSUME NEW d \in Client PROVE Waits(req[d])'
  <2>1. CASE d = c
    BY <1>1, <2>1
  <2>2. CASE d # c
    <3>1. req'[d] = req[d] /\ Waits(req[d])
      BY <1>1, <2>2 DEF IndInv
    <3> QED BY <3>1 DEF Waits, ClaimsHold
  <2> QED BY <2>1, <2>2
<1> QED BY <1>2, <1>3, <1>4 DEF IndInv

\* The steps that answer and leave the instances alone.
LEMMA AnswerStep ==
  ASSUME IndInv, NEW c \in Client, NEW reply \in Reply, Answer(c, reply),
         UNCHANGED <<appReady, apps, roles>>,
         \A claims \in issued' : claims \in Claims /\ ClaimsHold(claims)
  PROVE  IndInv'
<1>1. OneAppPerInstance' /\ appReady' \in [Instance -> Promise] /\ apps' \in [Instance -> Nat]
  BY DEF IndInv, TypeOK, OneAppPerInstance
<1>2. PICK r \in Request : r = Idle(reply) /\ r.at = "idle" /\ r.claims = None /\ r.route = None
  BY IdleIsSound DEF Idle
<1>3. Waits(r)'
  BY <1>2, NoneIsFresh DEF Waits, Route
<1> QED BY <1>1, <1>2, <1>3, RequestStep DEF Answer

LEMMA IssuedHold ==
  ASSUME IndInv
  PROVE  \A claims \in issued : claims \in Claims /\ ClaimsHold(claims)
BY DEF IndInv, TypeOK

-----------------------------------------------------------------------------
LEMMA HandleStep ==
  ASSUME IndInv, NEW c \in Client, NEW i \in Instance, NEW r \in Request, Handle(c, i, r),
         r.at = "awaitApp", r.instance = i, r.route \in Route, r.route = "login" => r.user \in User,
         r.claims # None => ClaimsHold(r.claims), r.reply = "NONE"
  PROVE  IndInv'
<1>1. /\ appReady' \in [Instance -> Promise] /\ apps' \in [Instance -> Nat]
      /\ OneAppPerInstance' /\ appReady'[i] \notin {"down", "undefined"}
      /\ \A j \in Instance : appReady[j] \notin {"down", "undefined"} =>
                               appReady'[j] \notin {"down", "undefined"}
  BY DEF Handle, Bootstraps, IndInv, TypeOK, OneAppPerInstance, Promise
<1>2. Waits(r)'
  BY <1>1 DEF Handle, Waits, ClaimsHold
<1>3. UNCHANGED <<roles, issued>> /\ req' = [req EXCEPT ![c] = r]
  BY DEF Handle
<1> QED BY <1>1, <1>2, <1>3, IssuedHold, RequestStep

LEMMA ArrivalStep ==
  ASSUME IndInv, NEW c \in Client, NEW i \in Instance,
         \/ \E u \in User : Login(c, i, u)
         \/ \E route \in Route \ {"login"}, claims \in Optional(issued) : Call(c, i, route, claims)
  PROVE  IndInv'
<1>1. ASSUME NEW u \in User, Login(c, i, u) PROVE IndInv'
  <2> DEFINE q == [Idle("NONE") EXCEPT !.at = "awaitApp", !.instance = i, !.route = "login",
                                       !.user = u]
  <2>1. /\ q \in Request /\ q.at = "awaitApp" /\ q.instance = i /\ q.route = "login" /\ q.user = u
        /\ q.claims = None /\ q.reply = "NONE"
    BY DEF Idle, Request, Optional, Route, Reply
  <2>2. Handle(c, i, q)
    BY <1>1 DEF Login
  <2> HIDE DEF q
  <2> QED BY <2>1, <2>2, HandleStep DEF Route
<1>2. ASSUME NEW route \in Route \ {"login"}, NEW claims \in Optional(issued), Call(c, i, route, claims)
      PROVE  IndInv'
  <2> DEFINE q == [Idle("NONE") EXCEPT !.at = "awaitApp", !.instance = i, !.route = route,
                                       !.claims = claims]
  <2>1. claims \in Optional(Claims) /\ (claims # None => ClaimsHold(claims))
    BY IssuedHold DEF Optional
  <2>2. /\ q \in Request /\ q.at = "awaitApp" /\ q.instance = i /\ q.route = route /\ q.claims = claims
        /\ q.reply = "NONE"
    BY <2>1 DEF Idle, Request, Optional, Route, Reply
  <2>3. Handle(c, i, q)
    BY <1>2 DEF Call
  <2> HIDE DEF q
  <2> QED BY <2>1, <2>2, <2>3, HandleStep
<1> QED BY <1>1, <1>2

\* The next step of a request already on its instance.
LEMMA AdvanceStep ==
  ASSUME IndInv, NEW c \in Client, NEW r \in Request, req' = [req EXCEPT ![c] = r],
         UNCHANGED <<appReady, apps, roles, issued>>,
         r.at \in {"findUser", "signTokens"}, req[c].at # "idle", r.instance = req[c].instance,
         r.route # "admin-only",
         r.user \in User, r.at = "signTokens" => r.claims # None,
         r.claims # None => ClaimsHold(r.claims)
  PROVE  IndInv'
<1>1. OneAppPerInstance' /\ appReady' \in [Instance -> Promise] /\ apps' \in [Instance -> Nat]
  BY DEF IndInv, TypeOK, OneAppPerInstance
<1>2. Waits(req[c])
  BY DEF IndInv
<1>3. Waits(r)'
  BY <1>2 DEF Waits, ClaimsHold
<1> QED BY <1>1, <1>3, IssuedHold, RequestStep

LEMMA ProceedStep ==
  ASSUME IndInv, NEW c \in Client, Proceed(c)
  PROVE  IndInv'
<1> DEFINE r == req[c]
<1>0. r \in Request /\ Waits(r)
  BY DEF IndInv, TypeOK
<1>1. CASE Dispatch(c)
  <2>1. CASE req' = [req EXCEPT ![c].at = "findUser"] /\ ~Guarded(r.route)
    <3> DEFINE p == [r EXCEPT !.at = "findUser"]
    <3>1. /\ p \in Request /\ p.at = "findUser" /\ p.instance = r.instance /\ p.user = r.user
          /\ p.claims = r.claims /\ p.route = r.route
      BY <1>0 DEF Request
    <3>2. req' = [req EXCEPT ![c] = p] /\ r.at = "awaitApp" /\ r.user \in User /\ r.route # "admin-only"
      BY <1>0, <1>1, <2>1 DEF Dispatch, At, Guarded, Waits, IndInv, TypeOK
    <3>3. r.claims # None => ClaimsHold(r.claims)
      BY <1>0 DEF Waits
    <3>4. UNCHANGED <<appReady, apps, roles, issued>>
      BY <1>1 DEF Dispatch
    <3> HIDE DEF p
    <3> QED BY <3>1, <3>2, <3>3, <3>4, AdvanceStep
  <2>2. CASE \E reply \in Reply : Answer(c, reply)
    BY <1>1, <2>2, IssuedHold, AnswerStep DEF Dispatch
  <2> QED BY <1>1, <2>1, <2>2 DEF Dispatch, Reply
<1>2. CASE AwaitRejected(c)
  BY <1>2, IssuedHold, AnswerStep DEF AwaitRejected, Reply
<1>3. CASE FindUser(c)
  <2>1. CASE Answer(c, "REFUSED")
    BY <1>3, <2>1, IssuedHold, AnswerStep DEF FindUser, Reply
  <2>2. CASE req' = [req EXCEPT ![c].at = "signTokens", ![c].claims = Payload(r.user)]
    <3> DEFINE p == [r EXCEPT !.at = "signTokens", !.claims = Payload(r.user)]
    <3>1. r.user \in User
      BY <1>0, <1>3 DEF FindUser, At, Waits
    <3>2. /\ Payload(r.user) \in Claims /\ Payload(r.user) # None /\ ClaimsHold(Payload(r.user))
      BY <3>1, NoneIsFresh DEF Payload, Claims, ClaimsHold, IndInv, TypeOK
    <3>3. /\ p \in Request /\ p.at = "signTokens" /\ p.instance = r.instance /\ p.user = r.user
          /\ p.claims = Payload(r.user) /\ p.route = r.route
      BY <1>0, <3>2 DEF Request, Optional
    <3>4. req' = [req EXCEPT ![c] = p] /\ r.at = "findUser" /\ r.route # "admin-only"
      BY <1>0, <1>3, <2>2 DEF FindUser, At, IndInv, TypeOK, Waits
    <3>5. UNCHANGED <<appReady, apps, roles, issued>>
      BY <1>3 DEF FindUser
    <3> HIDE DEF p
    <3> QED BY <3>1, <3>2, <3>3, <3>4, <3>5, AdvanceStep
  <2> QED BY <1>3, <2>1, <2>2 DEF FindUser
<1>4. CASE SignTokens(c)
  <2>1. r.claims \in Claims /\ ClaimsHold(r.claims)
    BY <1>0, <1>4 DEF SignTokens, At, Waits, Request, Optional
  <2>2. \A claims \in issued' : claims \in Claims /\ ClaimsHold(claims)
    BY <1>4, <2>1, IssuedHold DEF SignTokens
  <2>3. PICK reply \in Reply : Answer(c, reply)
    BY <1>4 DEF SignTokens, Reply
  <2>4. UNCHANGED <<appReady, apps, roles>>
    BY <1>4 DEF SignTokens
  <2> QED BY <2>2, <2>3, <2>4, AnswerStep
<1> QED BY <1>1, <1>2, <1>3, <1>4 DEF Proceed

\* Whoever waits on an instance that stops is answered.
LEMMA StopStep ==
  ASSUME IndInv, NEW i \in Instance, StopInstance(i)
  PROVE  IndInv'
<1>1. \A c \in Client : req'[c] = IF req[c].instance = i THEN Idle("LOST") ELSE req[c]
  BY DEF StopInstance
<1>2. \A j \in Instance : /\ appReady'[j] = IF j = i THEN "down" ELSE appReady[j]
                          /\ apps'[j] = IF j = i THEN 0 ELSE apps[j]
  BY DEF StopInstance, IndInv, TypeOK
<1>3. TypeOK'
  BY IdleIsSound DEF StopInstance, IndInv, TypeOK, Promise, Reply
<1>4. OneAppPerInstance'
  BY <1>2 DEF IndInv, OneAppPerInstance
<1>5. \A claims \in issued' : ClaimsHold(claims)'
  BY DEF StopInstance, IndInv, ClaimsHold
<1>6. ASSUME NEW c \in Client PROVE Waits(req[c])'
  <2>1. CASE req[c].instance = i
    BY <1>1, <2>1, NoneIsFresh DEF Idle, Waits, Route
  <2>2. CASE req[c].instance # i
    <3>1. req'[c] = req[c] /\ Waits(req[c]) /\ roles' = roles
      BY <1>1, <2>2 DEF IndInv, StopInstance
    <3> QED BY <1>2, <2>2, <3>1 DEF Waits, ClaimsHold
  <2> QED BY <2>1, <2>2
<1> QED BY <1>3, <1>4, <1>5, <1>6 DEF IndInv

LEMMA NextPreservesInv == IndInv /\ [Next]_vars => IndInv'
<1> SUFFICES ASSUME IndInv, [Next]_vars PROVE IndInv'
  OBVIOUS
<1>1. ASSUME NEW i \in Instance, StartInstance(i) \/ BootstrapServer(i) PROVE IndInv'
  <2>1. TypeOK' /\ OneAppPerInstance'
    BY <1>1 DEF StartInstance, BootstrapServer, IndInv, TypeOK, OneAppPerInstance, Promise
  <2>2. \A c \in Client : Waits(req[c])'
    BY <1>1 DEF StartInstance, BootstrapServer, IndInv, TypeOK, Waits, ClaimsHold
  <2>3. \A claims \in issued' : ClaimsHold(claims)'
    BY <1>1 DEF StartInstance, BootstrapServer, IndInv, ClaimsHold
  <2> QED BY <2>1, <2>2, <2>3 DEF IndInv
<1>2. ASSUME NEW u \in User, SeedAdmin(u) PROVE IndInv'
  <2>1. \A v \in User : roles'[v] = IF v = u THEN "ADMIN" ELSE roles[v]
    BY <1>2 DEF SeedAdmin, IndInv, TypeOK
  <2>2. \A claims \in Claims : ClaimsHold(claims) => ClaimsHold(claims)'
    BY <2>1 DEF ClaimsHold, Claims
  <2>3. TypeOK' /\ OneAppPerInstance'
    BY <1>2 DEF SeedAdmin, IndInv, TypeOK, OneAppPerInstance, Role
  <2>4. \A claims \in issued' : ClaimsHold(claims)'
    BY <1>2, <2>2 DEF SeedAdmin, IndInv, TypeOK
  <2>5. ASSUME NEW c \in Client PROVE Waits(req[c])'
    <3>1. Waits(req[c]) /\ req[c] \in Request /\ UNCHANGED <<req, appReady>>
      BY <1>2 DEF IndInv, TypeOK, SeedAdmin
    <3>2. req[c].claims # None => ClaimsHold(req[c].claims)'
      BY <2>2, <3>1 DEF Waits, Request, Optional
    <3> QED BY <3>1, <3>2 DEF Waits
  <2> QED BY <2>3, <2>4, <2>5 DEF IndInv
<1>3. CASE UNCHANGED vars
  BY <1>3 DEF vars, IndInv, TypeOK, OneAppPerInstance, Waits, ClaimsHold
<1> QED BY <1>1, <1>2, <1>3, ArrivalStep, ProceedStep, StopStep, SeededTyped DEF Next

\* The invariant of every execution.
THEOREM Invariance == Spec => []IndInv
<1>1. Init => IndInv
  BY IdleIsSound DEF Init, IndInv, TypeOK, OneAppPerInstance, Promise, Role, Reply
<1> QED BY <1>1, NextPreservesInv, PTL DEF Spec

\* Promises, roles, claims and requests keep their types.
THEOREM TypeCorrect == Spec => []TypeOK
<1>1. IndInv => TypeOK
  BY DEF IndInv
<1> QED BY <1>1, Invariance, PTL

\* Requests of a cold instance share one bootstrap, and a failed one is not repeated.
THEOREM OneApplication == Spec => []OneAppPerInstance
<1>1. IndInv => OneAppPerInstance
  BY DEF IndInv
<1> QED BY <1>1, Invariance, PTL

\* The admin route answers administrators only, by their rows at that moment.
THEOREM AdministratorsOnly == Spec => AdminsOnly
<1> DEFINE Checked == \A c \in Client :
                        req[c].route = "admin-only" /\ req'[c].reply = "OK" =>
                          req[c].claims # None /\ roles[req[c].claims.user] = "ADMIN"
<1>1. IndInv /\ [Next]_vars => [Checked]_vars
  <2> SUFFICES ASSUME IndInv, [Next]_vars, NEW c \in Client,
                      req[c].route = "admin-only", req'[c].reply = "OK"
               PROVE  req[c].claims # None /\ roles[req[c].claims.user] = "ADMIN"
    OBVIOUS
  <2>1. Waits(req[c]) /\ At(c, "awaitApp") /\ req[c].reply = "NONE"
    BY DEF IndInv, Waits, At
  <2>2. CASE Dispatch(c)
    <3>1. \A reply : Answer(c, reply) => reply = "OK"
      BY IdleIsOwn DEF Answer, IndInv, TypeOK
    <3>2. req[c].claims # None /\ Admitted(req[c].claims.role, "admin-only")
      BY <2>2, <3>1 DEF Dispatch, Guarded
    <3>3. req[c].claims.role = "ADMIN"
      BY <3>2 DEF Admitted, RequiredRoles
    <3> QED BY <2>1, <3>2, <3>3 DEF Waits, ClaimsHold
  <2>3. CASE AwaitRejected(c)
    BY <2>3, IdleIsOwn DEF AwaitRejected, Answer, IndInv, TypeOK
  <2>4. ASSUME NEW i \in Instance, StopInstance(i) PROVE FALSE
    BY <2>1, <2>4, IdleIsOwn DEF StopInstance
  <2>5. CASE req'[c] = req[c]
    BY <2>1, <2>5
  <2>6. ASSUME NEW d \in Client, d # c, \E r : req' = [req EXCEPT ![d] = r] PROVE req'[c] = req[c]
    BY <2>6 DEF IndInv, TypeOK
  <2>7. \/ Dispatch(c) \/ AwaitRejected(c) \/ req'[c] = req[c]
        \/ \E i \in Instance : StopInstance(i)
    <3>1. ASSUME NEW d \in Client, NEW i \in Instance, NEW r, Handle(d, i, r) PROVE req'[c] = req[c]
      BY <2>1, <2>6, <3>1 DEF Handle, At
    <3>2. ASSUME NEW d \in Client, Proceed(d) PROVE d = c \/ req'[c] = req[c]
      <4>1. \E r : req' = [req EXCEPT ![d] = r]
        BY <3>2 DEF Proceed, Dispatch, AwaitRejected, FindUser, SignTokens, Answer
      <4> QED BY <2>6, <4>1
    <3>3. Proceed(c) => Dispatch(c) \/ AwaitRejected(c)
      BY <2>1 DEF Proceed, FindUser, SignTokens, At
    <3>4. CASE \/ \E i \in Instance : StartInstance(i) \/ BootstrapServer(i)
               \/ \E u \in Seeded : SeedAdmin(u)
               \/ UNCHANGED vars
      BY <3>4 DEF StartInstance, BootstrapServer, SeedAdmin, vars
    <3> QED BY <3>1, <3>2, <3>3, <3>4 DEF Next, Login, Call
  <2> QED BY <2>2, <2>3, <2>4, <2>5, <2>7
<1> QED BY <1>1, Invariance, PTL DEF Spec, AdminsOnly
=============================================================================
