---------------------------- MODULE MCPagination ----------------------------
(* Instances of Pagination for TLC. *)
EXTENDS Pagination

StateOrAll == {NoFilter, "RUNNING"}

\* Zero, and more than MaxPageSize.
SizesAround == {0, MaxPageSize + 1}
============================================================================
