-------------------------------- MODULE MCDLQ --------------------------------
(* Instances of DLQ for TLC: two replicas and two actuator requests. *)
EXTENDS DLQ

CONSTANTS w1, w2, m1, m2
=============================================================================
