---------------------------- MODULE MCPagination ----------------------------
(* Pagination over a few rows, for TLC. *)
EXTENDS Pagination
=============================================================================
