------------------------------ MODULE MCAppLock ------------------------------
(* Constants for the model-checking runs of AppLock. *)
EXTENDS AppLock, TLC

CONSTANTS i1, i2, r1, r2, r3

Instances == {i1, i2}
TwoRuns == {r1, r2}
ThreeRuns == {r1, r2, r3}
OneTtl == {2}
\* withLock("municipality", ..., 1200) in the scheduler, 600 in the routes.
TwoTtls == {1, 2}
=============================================================================
