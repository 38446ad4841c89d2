---------------------------- MODULE MCAnalysisRun ----------------------------
(* Instances of AnalysisRun for TLC. *)
EXTENDS AnalysisRun, TLC

Facts == [edb |-> "facts", idb |-> ""]

Spaces == [edb |-> " ", idb |-> ""]

\* Analyses with the same inputs, and inputs whose edb is blank.
FactsOrBlank == {Facts, Spaces}

Symmetry == Permutations(Names) \cup Permutations(Creators)
              \cup Permutations(Cancellers)
============================================================================
