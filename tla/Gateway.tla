------------------------------- MODULE Gateway -------------------------------
(***************************************************************************)
(* A request's way to its handler: the function of api/index.ts, which     *)
(* each instance of the serverless platform runs, the bootstrap the        *)
(* requests of an instance share, and the guards, which decide by the      *)
(* claims of an access token alone.  Login and refresh read a user's role  *)
(* and sign it into the claims in a later step; the admin seed may promote *)
(* the user meanwhile.                                                     *)
(*                                                                         *)
(* Name_Fault is the definition Name with a plausible mistake in it; it is *)
(* not used below, and shows what the property named for it rules out.     *)
(***************************************************************************)
EXTENDS Naturals

CONSTANTS Instance,   \* processes the platform may run
          Client,     \* requests in flight at once
          User,       \* registered accounts
          Seeded,     \* those the seed may promote (ADMIN_EMAIL)
          None,       \* no instance, no user, no token
          MayFail     \* may bootstraps and statements fail, and instances be stopped?

VARIABLES appReady,   \* instance -> its promise of an application, or "down"
          apps,       \* instance -> Nest applications created on its express server
          roles,      \* table "User": user -> role
          issued,     \* claims of the access tokens that reached a client
          req         \* client -> its request in flight and the last reply

vars == <<appReady, apps, roles, issued, req>>

Role        == {"USER", "ADMIN"}
Claims      == [user : User, role : Role]
Optional(S) == S \cup {None}


\* "down": the platform runs no such process.
Promise == {"down", "undefined", "pending", "fulfilled", "rejected"}

\* "login" stands for refresh, too: both read the user's row, then sign.
Route == {"login", "me", "admin-only"}
ASSUME NoneIsFresh    == None \notin Instance \cup User \cup Claims \cup Route
ASSUME SeededTyped    == Seeded \subseteq User
ASSUME MayFailBoolean == MayFail \in BOOLEAN

Reply == {"NONE", "OK", "REFUSED", "UNAUTHORIZED_ACCESS", "FORBIDDEN_ACCESS",
          "INTERNAL_SERVER_ERROR", "FUNCTION_FAILED", "LOST"}

\* claims: those of the token a request carries, or of the one its answer will.
Request == [at       : {"idle", "awaitApp", "findUser", "signTokens"},
            instance : Optional(Instance),
            route    : Optional(Route),
            user     : Optional(User),
            claims   : Optional(Claims),
            reply    : Reply]

Idle(reply) == [at |-> "idle", instance |-> None, route |-> None, user |-> None,
                claims |-> None, reply |-> reply]

TypeOK == /\ appReady \in [Instance -> Promise]
          /\ apps \in [Instance -> Nat]
          /\ roles \in [User -> Role]
          /\ issued \subseteq Claims
          /\ req \in [Client -> Request]

Init == /\ appReady = [i \in Instance |-> "down"]
        /\ apps = [i \in Instance |-> 0]
        /\ roles = [u \in User |-> "USER"]
        /\ issued = {}
        /\ req = [c \in Client |-> Idle("NONE")]

-----------------------------------------------------------------------------
At(c, step)      == req[c].at = step
Answer(c, reply) == req' = [req EXCEPT ![c] = Idle(reply)]

(* The platform.                                                           *)

\* A new process evaluates the module: appReady is undefined.
StartInstance(i) ==
  /\ appReady[i] = "down"
  /\ appReady' = [appReady EXCEPT ![i] = "undefined"]
  /\ UNCHANGED <<apps, roles, issued, req>>

\* A crash, a deployment, maxDuration, or an idle instance that is reclaimed.
StopInstance(i) ==
  /\ MayFail
  /\ appReady[i] # "down"
  /\ appReady' = [appReady EXCEPT ![i] = "down"]
  /\ apps' = [apps EXCEPT ![i] = 0]
  /\ req' = [c \in Client |-> IF req[c].instance = i THEN Idle("LOST") ELSE req[c]]
  /\ UNCHANGED <<roles, issued>>

-----------------------------------------------------------------------------
(* api/index.ts                                                            *)

\* appReady ??= bootstrapServer()
Bootstraps_UntilReady(i) == appReady[i] # "fulfilled"
Bootstraps(i)            == appReady[i] = "undefined"

Handle(c, i, request) ==
  /\ At(c, "idle")
  /\ appReady[i] # "down"
  /\ \/ /\ Bootstraps(i)
        /\ appReady' = [appReady EXCEPT ![i] = "pending"]
        /\ apps' = [apps EXCEPT ![i] = @ + 1]
     \/ /\ ~Bootstraps(i)
        /\ UNCHANGED <<appReady, apps>>
  /\ req' = [req EXCEPT ![c] = request]
  /\ UNCHANGED <<roles, issued>>

\* A login of user u, or a request for a guarded route with a token or without.
Login(c, i, u) ==
  Handle(c, i, [Idle("NONE") EXCEPT !.at = "awaitApp", !.instance = i, !.route = "login", !.user = u])
Call(c, i, route, claims) ==
  Handle(c, i, [Idle("NONE") EXCEPT !.at = "awaitApp", !.instance = i, !.route = route,
                                    !.claims = claims])

\* NestFactory.create, configureApp and app.init, which runs every onModuleInit:
\* $connect among them may fail.
BootstrapServer(i) ==
  /\ appReady[i] = "pending"
  /\ \/ appReady' = [appReady EXCEPT ![i] = "fulfilled"]
     \/ MayFail /\ appReady' = [appReady EXCEPT ![i] = "rejected"]
  /\ UNCHANGED <<apps, roles, issued, req>>

\* `await appReady` throws what the bootstrap threw: the function fails.
Settles_IfReady(i) == FALSE
Settles(i)         == appReady[i] = "rejected"

AwaitRejected(c) ==
  /\ At(c, "awaitApp")
  /\ Settles(req[c].instance)
  /\ Answer(c, "FUNCTION_FAILED")
  /\ UNCHANGED <<appReady, apps, roles, issued>>

-----------------------------------------------------------------------------
(* The guards and the handlers.                                            *)

Guarded(route) == route # "login"

\* @Roles of the handler
RequiredRoles_OfClass(route) == {}
RequiredRoles(route)         == IF route = "admin-only" THEN {"ADMIN"} ELSE {}

\* RolesGuard
Admitted(role, route) ==
  RequiredRoles(route) = {} \/ role = "ADMIN" \/ role \in RequiredRoles(route)

\* expressServer(req, res): JwtAuthGuard refuses a missing token and any that has
\* expired, then RolesGuard looks at the role.
Dispatch(c) ==
  LET r == req[c]
  IN /\ At(c, "awaitApp")
     /\ appReady[r.instance] = "fulfilled"
     /\ \/ /\ ~Guarded(r.route)
           /\ req' = [req EXCEPT ![c].at = "findUser"]
        \/ /\ Guarded(r.route)
           /\ Answer(c, "UNAUTHORIZED_ACCESS")
        \/ /\ Guarded(r.route) /\ r.claims # None /\ ~Admitted(r.claims.role, r.route)
           /\ Answer(c, "FORBIDDEN_ACCESS")
        \/ /\ Guarded(r.route) /\ r.claims # None /\ Admitted(r.claims.role, r.route)
           /\ Answer(c, "OK")
     /\ UNCHANGED <<appReady, apps, roles, issued>>

\* createPayload: the claims of user u as the row is now.
Payload_WithoutRole(u) == [user |-> u, role |-> None]
Payload(u)             == [user |-> u, role |-> roles[u]]

\* The credentials are wrong, or the row is read.
FindUser(c) ==
  /\ At(c, "findUser")
  /\ \/ Answer(c, "REFUSED")
     \/ req' = [req EXCEPT ![c].at = "signTokens", ![c].claims = Payload(req[c].user)]
  /\ UNCHANGED <<appReady, apps, roles, issued>>

\* The pair is signed, the session written (module Sessions) and the answer sent.
SignTokens(c) ==
  /\ At(c, "signTokens")
  /\ \/ issued' = issued \cup {req[c].claims} /\ Answer(c, "OK")
     \/ MayFail /\ UNCHANGED issued /\ \E reply \in {"INTERNAL_SERVER_ERROR", "LOST"} : Answer(c, reply)
  /\ UNCHANGED <<appReady, apps, roles>>

\* prisma/seed.ts
SeedAdmin(u) ==
  /\ roles' = [roles EXCEPT ![u] = "ADMIN"]
  /\ UNCHANGED <<appReady, apps, issued, req>>

Proceed(c) == Dispatch(c) \/ AwaitRejected(c) \/ FindUser(c) \/ SignTokens(c)

Next ==
  \/ \E c \in Client, i \in Instance :
       \/ \E u \in User : Login(c, i, u)
       \/ \E route \in Route \ {"login"}, claims \in Optional(issued) : Call(c, i, route, claims)
  \/ \E c \in Client : Proceed(c)
  \/ \E i \in Instance : StartInstance(i) \/ StopInstance(i) \/ BootstrapServer(i)
  \/ \E u \in Seeded : SeedAdmin(u)

Spec == Init /\ [][Next]_vars

\* A bootstrap settles, and the event loop of an instance gets to every request.
Fairness == /\ \A i \in Instance : WF_vars(BootstrapServer(i))
            /\ \A c \in Client : WF_vars(Proceed(c))
FairSpec == Spec /\ Fairness

-----------------------------------------------------------------------------
(* Properties                                                              *)

\* However requests overlap on a cold instance and however its bootstrap ends, no
\* second application, with its timer, its pool and its routes, is ever put on the
\* instance's express server.
OneAppPerInstance ==
  \A i \in Instance : apps[i] <= 1 /\ (apps[i] = 0 <=> appReady[i] \in {"down", "undefined"})

\* Claims may lag behind the row, but never run ahead of it.
ClaimsHold(claims) == claims.role = "ADMIN" => roles[claims.user] = "ADMIN"

\* A request that waits for something waits on an instance that works on it.
Waits(r) ==
  /\ r.at # "idle" => r.instance \in Instance /\ appReady[r.instance] \notin {"down", "undefined"}
  /\ r.at \in {"findUser", "signTokens"} => r.user \in User
  /\ r.at = "awaitApp" => r.route \in Route /\ (r.route = "login" => r.user \in User)
  /\ r.route = "admin-only" => r.at = "awaitApp" /\ r.reply = "NONE"
  /\ r.at = "signTokens" => r.claims # None
  /\ r.claims # None => ClaimsHold(r.claims)

\* The inductive invariant of the proofs.
IndInv == /\ TypeOK
          /\ OneAppPerInstance
          /\ \A claims \in issued : ClaimsHold(claims)
          /\ \A c \in Client : Waits(req[c])

\* The admin route answers administrators only: by the row as it is at that moment,
\* although the guard goes by claims signed before, from a row read earlier still.
AdminsOnly ==
  [][\A c \in Client :
       req[c].route = "admin-only" /\ req'[c].reply = "OK" =>
         req[c].claims # None /\ roles[req[c].claims.user] = "ADMIN"
    ]_vars

\* A request is eventually answered, a failed bootstrap included: nobody waits for
\* an application that will not come.
RequestAnswered == \A c \in Client : ~At(c, "idle") ~> At(c, "idle")
=============================================================================
