--------------------------- MODULE ConnectionPool ---------------------------
(***************************************************************************)
(* What the manager of the PostgreSQL connections promises, without its    *)
(* mutexes, its health check and its callers' local variables.  There is   *)
(* one pool at a time.  Connections are leased from an open pool only; a   *)
(* pool that is being closed leases no more and is gone when, and only     *)
(* when, the last connection has been returned.  Then another may open.    *)
(***************************************************************************)

CONSTANT Clients

VARIABLES
    phase,      \* of the pool: there is "none", it is "open" or "closing"
    leases      \* the clients with a connection

ConnectionPoolInit ==
    /\ phase = "none"
    /\ leases = {}

Open ==
    /\ phase = "none"
    /\ phase' = "open"
    /\ UNCHANGED leases

\* A client that asks when there is no pool has one opened.
Lease(c) ==
    /\ phase # "closing"
    /\ c \notin leases
    /\ phase' = "open"
    /\ leases' = leases \cup {c}

Return(c) ==
    /\ c \in leases
    /\ leases' = leases \ {c}
    /\ UNCHANGED phase

BeginClose ==
    /\ phase = "open"
    /\ phase' = "closing"
    /\ UNCHANGED leases

EndClose ==
    /\ phase = "closing"
    /\ leases = {}
    /\ phase' = "none"
    /\ UNCHANGED leases

ConnectionPoolNext ==
    \/ Open \/ BeginClose \/ EndClose
    \/ \E c \in Clients : Lease(c) \/ Return(c)

ConnectionPoolSpec ==
    ConnectionPoolInit /\ [][ConnectionPoolNext]_<<phase, leases>>
============================================================================
