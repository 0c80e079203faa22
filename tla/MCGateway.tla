------------------------------ MODULE MCGateway ------------------------------
(* Gateway with two instances, two requests in flight and two users, for TLC. *)
EXTENDS Gateway

CONSTANTS u1
=============================================================================
