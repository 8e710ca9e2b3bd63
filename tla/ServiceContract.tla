--------------------------- MODULE ServiceContract ---------------------------
(***************************************************************************)
(* What the service of module ServiceHost promises the Service Control     *)
(* Manager and whoever reads its state: the states follow one another as   *)
(* Windows wants them; a stop is pending only if it was asked for, and     *)
(* only then is the end clean; a service that ends by itself reports a     *)
(* failure; every run serves for one stretch at most, and an end is        *)
(* reported when nobody is served any more.                                *)
(***************************************************************************)
VARIABLES
  told,     \* the state the SCM has been told
  asked,    \* whether it has asked for a stop that is not pending yet
  serving,  \* whether this run serves: "not yet", "now" or "no more"
  exit      \* how the last run ended

contractVars == <<told, asked, serving, exit>>

Init == told = "Stopped" /\ asked = FALSE /\ serving = "no more" /\ exit = "none"

Start ==
  /\ told = "Stopped"
  /\ told' = "StartPending" /\ serving' = "not yet"
  /\ UNCHANGED <<asked, exit>>

\* Ready is not serving: the port may not be bound yet, or never be.
Ready ==
  /\ told = "StartPending"
  /\ told' = "Running"
  /\ UNCHANGED <<asked, serving, exit>>

Serve ==
  /\ told # "Stopped" /\ serving = "not yet"
  /\ serving' = "now"
  /\ UNCHANGED <<told, asked, exit>>

Close ==
  /\ told # "Stopped" /\ serving # "no more"
  /\ serving' = "no more"
  /\ UNCHANGED <<told, asked, exit>>

Ask ==
  /\ told = "Running" /\ ~ asked
  /\ asked' = TRUE
  /\ UNCHANGED <<told, serving, exit>>

Heed ==
  /\ told = "Running" /\ asked
  /\ told' = "StopPending" /\ asked' = FALSE
  /\ UNCHANGED <<serving, exit>>

End(code) == told' = "Stopped" /\ asked' = FALSE /\ serving' = "no more" /\ exit' = code

EndAsAsked == told = "StopPending" /\ serving # "now" /\ End("clean")

EndByItself == told \in {"StartPending", "Running"} /\ serving # "now" /\ End("failed")

\* The process is gone, with all it had.
Crash == told # "Stopped" /\ End("crashed")

\* The service is removed.
Forget == told = "Stopped" /\ exit' = "none" /\ UNCHANGED <<told, asked, serving>>

Next ==
  \/ Start \/ Ready \/ Serve \/ Close \/ Ask \/ Heed
  \/ EndAsAsked \/ EndByItself \/ Crash \/ Forget

Spec == Init /\ [][Next]_contractVars
=============================================================================
