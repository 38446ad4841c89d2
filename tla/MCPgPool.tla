------------------------------ MODULE MCPgPool ------------------------------
(* Instances of PgPool for TLC. *)
EXTENDS PgPool

CONSTANTS c1, c2

TwoCallers == {c1, c2}
============================================================================
