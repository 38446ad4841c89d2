--------------------------- MODULE MCWaitOperation ---------------------------
(* Instances of WaitOperation for TLC. *)
EXTENDS WaitOperation

Facts == [edb |-> "facts", idb |-> ""]

Spaces == [edb |-> " ", idb |-> ""]

\* Inputs that MulVAL runs on, and inputs whose edb is blank.
FactsOrBlank == {Facts, Spaces}
============================================================================
