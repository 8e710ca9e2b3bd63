---------------------------- MODULE ServiceClaims ----------------------------
(***************************************************************************)
(* What the plan says of the service and the code does not do.             *)
(***************************************************************************)
EXTENDS ServiceHost

(***************************************************************************)
(* A service with recovery actions is restarted after a failure            *)
(* (docs/PLAN_HIBERNACION_SIRI.md), a controlled one included.  Execute    *)
(* reports Stopped with code 1, which to the SCM is no failure.            *)
(***************************************************************************)
FailureRestarts == exit = "failed" /\ recovery ~> state # "Stopped"
=============================================================================
