----------------------------- MODULE SetupClaims -----------------------------
(***************************************************************************)
(* What the plan says of the settings and the code does not do.            *)
(***************************************************************************)
EXTENDS Setup

(***************************************************************************)
(* "Al actualizar, conservar el archivo de configuracion salvo que el      *)
(* usuario el cambie expresamente" (docs/PLAN_HIBERNACION_SIRI.md): a save *)
(* with nothing typed keeps the whole configuration.  saveCurrentEnv       *)
(* writes five of the six values, and the box for notifications knows only *)
(* the word "false".                                                       *)
(***************************************************************************)
UpdateKeepsFile ==
  [][SaveFields /\ Load(file) \notin {NoConfig, Panics} /\ Untouched
       => Load(file') = Load(file)]_vars
=============================================================================
