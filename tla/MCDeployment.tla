---------------------------- MODULE MCDeployment ----------------------------
(* Instances of Deployment for TLC. *)
EXTENDS Deployment

CONSTANTS s1, s2, s3

ThreeStacks == {s1, s2, s3}

\* s1 has a namespace of its own, the others share the given one.
Shared == {s2, s3}

Beginning(first, second, third) ==
    [s \in ThreeStacks |-> IF s = s1 THEN first ELSE IF s = s2 THEN second
                           ELSE third]

\* pulumi up for s1; for s2 next to s3; for s2 while s3 has no chart yet.
UnderWay == {Beginning("absent", "chartless", "complete"),
             Beginning("complete", "absent", "complete"),
             Beginning("complete", "absent", "chartless")}
=============================================================================
