------------------------- MODULE AnalysisLifecycle -------------------------
(***************************************************************************)
(* What the service really promises about an operation, without handlers,  *)
(* goroutines or messages.  An operation starts once.  It gets at most one *)
(* verdict, the result or the error of its only run, and keeps it.  It may *)
(* be cancelled at any time, before its verdict and after it; the status a *)
(* client sees is that of the last of the two.                             *)
(***************************************************************************)

CONSTANT Names

VARIABLES status, verdict

Verdicts == {"none", "result", "failure"}

StatusOf(v) == IF v = "result" THEN "SUCCEEDED" ELSE "FAILED"

LifecycleInit ==
    /\ status = [n \in Names |-> "ABSENT"]
    /\ verdict = [n \in Names |-> "none"]

Start(n) ==
    /\ status[n] = "ABSENT"
    /\ status' = [status EXCEPT ![n] = "RUNNING"]
    /\ UNCHANGED verdict

Decide(n, v) ==
    /\ status[n] # "ABSENT"
    /\ verdict[n] = "none"
    /\ verdict' = [verdict EXCEPT ![n] = v]
    /\ status' = [status EXCEPT ![n] = StatusOf(v)]

Cancel(n) ==
    /\ status[n] # "ABSENT"
    /\ status' = [status EXCEPT ![n] = "CANCELLED"]
    /\ UNCHANGED verdict

LifecycleNext ==
    \E n \in Names :
        \/ Start(n)
        \/ \E v \in Verdicts \ {"none"} : Decide(n, v)
        \/ Cancel(n)

LifecycleSpec == LifecycleInit /\ [][LifecycleNext]_<<status, verdict>>
============================================================================
