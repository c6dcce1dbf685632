-------------------------- MODULE MCOperatorProcess --------------------------
(* Three replicas of the operator for TLC.                                 *)
EXTENDS OperatorProcess

CONSTANTS r1, r2, r3

ThreeReplicas == {r1, r2, r3}
==============================================================================
