---------------------------- MODULE MCServiceHost ----------------------------
(***************************************************************************)
(* One service, two ports and two configurations.                          *)
(***************************************************************************)
EXTENDS ServiceClaims

CONSTANTS p1, p2

TwoPorts == {p1, p2}
TwoEnvFiles == {[port |-> p, maxBody |-> "default", usable |-> u] : p \in TwoPorts, u \in BOOLEAN}
=============================================================================
