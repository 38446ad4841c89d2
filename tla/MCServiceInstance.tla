-------------------------- MODULE MCServiceInstance --------------------------
(* Instances of ServiceInstance for TLC. *)
EXTENDS ServiceInstance

CONSTANTS i1, i2, p1, h1, h2, r1, r2

TwoInstances == {i1, i2}
OneRpc == {p1}
TwoConns == {h1, h2}
TwoRuns == {r1, r2}
==============================================================================
