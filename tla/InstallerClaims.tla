--------------------------- MODULE InstallerClaims ---------------------------
(***************************************************************************)
(* What the window says, or the plan, and the code does not do.            *)
(***************************************************************************)
EXTENDS Installer

(***************************************************************************)
(* "Servicio iniciado correctamente (escuchando en 0.0.0.0:port)"          *)
(* (gui_windows.go): when the start button ends well, the process that     *)
(* runs was given the port in the field.  start() returns at once if the   *)
(* service runs, as it may since the window last looked.                   *)
(***************************************************************************)
StartedWithThePort ==
  [][\A t \in Tools :
       op[t] = "start" /\ outcome[t] = "none" /\ outcome'[t] = "ok"
          /\ env # Broken /\ env.port = form[t].port
         => loaded.port = form[t].port]_installerVars
=============================================================================
