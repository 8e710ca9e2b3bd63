----------------------------- MODULE MCInstaller -----------------------------
(***************************************************************************)
(* One tool, two ports, of which one is the default.                       *)
(***************************************************************************)
EXTENDS InstallerClaims

CONSTANTS p1, p2, t1

OneTool == {t1}
OnePort == {p1}
TwoPorts == {p1, p2}

EnvFile(port, body, usable) == [port |-> port, maxBody |-> body, usable |-> usable]

SomeEnvFiles ==
  {EnvFile(p, "own", TRUE) : p \in Ports}
    \cup {EnvFile(p, "default", usable) : p \in Ports, usable \in BOOLEAN}
    \cup {EnvFile(NoPort, "default", FALSE)}

Form(port, ticked, key, usable) ==
  [port |-> port, ticked |-> ticked, key |-> key, usable |-> usable]

GoodForms == {Form(p, TRUE, TRUE, TRUE) : p \in Ports}
BadSkew == {Form(p, TRUE, TRUE, FALSE) : p \in Ports}
Portless == {Form(NoPort, FALSE, FALSE, FALSE)}
SomeForms == GoodForms \cup BadSkew \cup Portless
=============================================================================
