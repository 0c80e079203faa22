--------------------------- MODULE MCRegistration ---------------------------
(* Registration on a few emails and connections, for TLC. *)
EXTENDS Registration

CONSTANTS c1, c2, c3, e1
=============================================================================
