---------------------------- MODULE MCRateLimit -----------------------------
(* The guard with two routes of different options, for TLC. *)
EXTENDS RateLimit, TLC

CONSTANTS login, refresh

\* As in AuthController, the route with the shorter window has the higher limit.
LimitOf == login :> 1 @@ refresh :> 2
TtlOf   == login :> 3 @@ refresh :> 2
=============================================================================
