----------------------------- MODULE ServiceHost -----------------------------
(***************************************************************************)
(* Sentinel as a Windows service: the goroutines of one process, which are *)
(* Execute (sentinel/src/app/service_windows.go), Runtime.Run and the one  *)
(* that listens (sentinel/src/app/runtime.go), their channels, and the     *)
(* Service Control Manager, which starts the process, asks it to stop and  *)
(* restarts it after a crash.  What the HTTP handlers do while the process *)
(* serves is module Sentinel's.                                            *)
(***************************************************************************)
EXTENDS Naturals

CONSTANTS
  Ports,       \* the TCP ports
  EnvFiles,    \* what .env may hold: [port, maxBody, usable]
  Broken       \* no .env, or one that does not parse

ASSUME EnvFilesAssumption ==
  /\ \A e \in EnvFiles : e.usable => e.port \in Ports
  /\ Broken \notin EnvFiles

\* config.Load finds a port, a key and a device it accepts.
Loads(file) == file # Broken /\ file.usable

VARIABLES
  env,        \* the .env file
  owner,      \* who listens on each port: "nobody", "sentinel" or "other"
  recovery,   \* whether the SCM has actions for failures
  state,      \* the state the SCM has been told
  exit,       \* how the last process ended
  execute,    \* where Execute is; "off" when there is no process
  loaded,     \* the configuration NewRuntime was given
  control,    \* whether a stop request is in the channel of requests
  canceled,   \* Run's context
  runner,     \* where Runtime.Run is
  server,     \* where the goroutine of ListenAndServe is
  closing,    \* http.Server's inShutdown
  errCh,      \* what ListenAndServe returned
  done        \* what Run returned

scmVars == <<recovery, state, exit, control>>
goVars == <<execute, loaded, canceled, runner, server, closing, errCh, done>>
hostVars == <<env, owner, scmVars, goVars>>

Freed(port) == [owner EXCEPT ![port] = "nobody"]

\* The ports once this process is gone.
Released == [p \in Ports |-> IF owner[p] = "sentinel" THEN "nobody" ELSE owner[p]]

-----------------------------------------------------------------------------
\* No process has run yet.
HostInit ==
  /\ env \in EnvFiles \cup {Broken}
  /\ owner = [p \in Ports |-> "nobody"]
  /\ recovery \in BOOLEAN
  /\ state = "Stopped" /\ exit = "none" /\ control = FALSE
  /\ execute = "off" /\ loaded = Broken /\ canceled = FALSE
  /\ runner = "none" /\ server = "none" /\ closing = FALSE
  /\ errCh = "empty" /\ done = "empty"

\* The SCM starts the process; Execute reports StartPending.
Launch ==
  /\ state = "Stopped" /\ execute = "off"
  /\ state' = "StartPending"
  /\ execute' = "load"
  /\ control' = FALSE
  /\ UNCHANGED <<env, owner, recovery, exit, loaded, canceled, runner, server, closing, errCh, done>>

(***************************************************************************)
(* Execute.                                                                *)
(***************************************************************************)
\* Execute returns; svc.Run reports the end and its code.
Finish(code) ==
  /\ execute' = "ending"
  /\ state' = "Stopped"
  /\ exit' = code

\* runtimeFromExecutable fails.
LoadFails ==
  /\ execute = "load" /\ ~ Loads(env)
  /\ Finish("failed")
  /\ UNCHANGED <<env, owner, recovery, control, loaded, canceled, runner, server, closing, errCh, done>>

Load ==
  /\ execute = "load" /\ Loads(env)
  /\ loaded' = env
  /\ execute' = "spawn"
  /\ UNCHANGED <<env, owner, scmVars, canceled, runner, server, closing, errCh, done>>

\* `go runtime.Run(ctx)', whose first step is `go ListenAndServe()'.
Spawn ==
  /\ execute = "spawn"
  /\ runner' = "select" /\ server' = "starting"
  /\ execute' = "report"
  /\ UNCHANGED <<env, owner, scmVars, loaded, canceled, closing, errCh, done>>

\* Running is reported as soon as the goroutine is started.
ReportRunning ==
  /\ execute = "report"
  /\ state' = "Running"
  /\ execute' = "loop"
  /\ UNCHANGED <<env, owner, recovery, exit, control, loaded, canceled, runner, server, closing, errCh, done>>

\* Mutant of TakeStop: Execute does not wait for Run.
TakeStopAndReturn ==
  /\ execute = "loop" /\ control
  /\ control' = FALSE
  /\ canceled' = TRUE
  /\ Finish("clean")
  /\ UNCHANGED <<env, owner, recovery, loaded, runner, server, closing, errCh, done>>

\* Mutant of TakeStop: the context is left alone.
TakeStopWithoutCancel ==
  /\ execute = "loop" /\ control
  /\ control' = FALSE
  /\ state' = "StopPending"
  /\ execute' = "await"
  /\ UNCHANGED <<env, owner, recovery, exit, loaded, canceled, runner, server, closing, errCh, done>>

\* A Stop or Shutdown request.
TakeStop ==
  /\ execute = "loop" /\ control
  /\ control' = FALSE
  /\ state' = "StopPending"
  /\ canceled' = TRUE
  /\ execute' = "await"
  /\ UNCHANGED <<env, owner, recovery, exit, loaded, runner, server, closing, errCh, done>>

\* Mutant of AwaitDone: Run's result becomes the exit code.
AwaitDoneWithResult ==
  /\ execute = "await" /\ done # "empty"
  /\ Finish(done)
  /\ UNCHANGED <<env, owner, recovery, control, loaded, canceled, runner, server, closing, errCh, done>>

\* <-done after a stop.
AwaitDone ==
  /\ execute = "await" /\ done # "empty"
  /\ Finish("clean")
  /\ UNCHANGED <<env, owner, recovery, control, loaded, canceled, runner, server, closing, errCh, done>>

\* Mutant of TakeDone: an error is logged, and the loop goes on.
TakeDoneIfNil ==
  /\ execute = "loop" /\ done = "nil"
  /\ Finish("failed")
  /\ UNCHANGED <<env, owner, recovery, control, loaded, canceled, runner, server, closing, errCh, done>>

\* Mutant of TakeDone: any end is taken for that of a stop.
TakeDoneAsStop ==
  /\ execute = "loop" /\ done # "empty"
  /\ Finish("clean")
  /\ UNCHANGED <<env, owner, recovery, control, loaded, canceled, runner, server, closing, errCh, done>>

\* Run has returned although nobody asked it to.
TakeDone ==
  /\ execute = "loop" /\ done # "empty"
  /\ Finish("failed")
  /\ UNCHANGED <<env, owner, recovery, control, loaded, canceled, runner, server, closing, errCh, done>>

\* What is left when the process is gone.
NoProcess ==
  /\ execute' = "off" /\ loaded' = Broken /\ canceled' = FALSE
  /\ runner' = "none" /\ server' = "none" /\ closing' = FALSE
  /\ errCh' = "empty" /\ done' = "empty" /\ control' = FALSE
  /\ owner' = Released
  /\ UNCHANGED <<env, recovery>>

\* main returns.
Exit == execute = "ending" /\ NoProcess /\ UNCHANGED <<state, exit>>

\* The process ends without telling the SCM.
Die ==
  /\ execute \notin {"off", "ending"}
  /\ state' = "Stopped" /\ exit' = "crashed"
  /\ NoProcess

(***************************************************************************)
(* Runtime.Run: the select takes either case when both are ready.          *)
(***************************************************************************)
\* Shutdown refuses new connections and closes the listeners it knows.
Shut ==
  /\ runner = "select" /\ canceled
  /\ runner' = "shutdown"
  /\ closing' = TRUE
  /\ owner' = IF server = "serving" THEN Freed(loaded.port) ELSE owner
  /\ server' = IF server = "serving" THEN "closed" ELSE server
  /\ UNCHANGED <<env, scmVars, execute, loaded, canceled, errCh, done>>

\* Shutdown returns, without an error or with that of the 5 s context.
ShutdownReturns ==
  /\ runner = "shutdown"
  /\ runner' = "returned"
  /\ done' \in {"nil", "error"}
  /\ UNCHANGED <<env, owner, scmVars, execute, loaded, canceled, server, closing, errCh>>

\* Run receives from errCh; ErrServerClosed is no error.
ServerReturned ==
  /\ runner = "select" /\ errCh # "empty"
  /\ runner' = "returned"
  /\ done' = IF errCh = "closed" THEN "nil" ELSE "error"
  /\ errCh' = "empty"
  /\ UNCHANGED <<env, owner, scmVars, execute, loaded, canceled, server, closing>>

(***************************************************************************)
(* ListenAndServe.                                                         *)
(***************************************************************************)
ServerEnds(result) ==
  /\ server' = "ended"
  /\ errCh' = result
  /\ UNCHANGED <<env, scmVars, execute, loaded, canceled, runner, closing, done>>

\* The port is bound, unless Shutdown was called or the port is taken.
Listen ==
  /\ server = "starting"
  /\ \/ closing /\ ServerEnds("closed") /\ UNCHANGED owner
     \/ ~ closing /\ owner[loaded.port] # "nobody" /\ ServerEnds("error") /\ UNCHANGED owner
     \/ /\ ~ closing /\ owner[loaded.port] = "nobody"
        /\ owner' = [owner EXCEPT ![loaded.port] = "sentinel"]
        /\ server' = "bound"
        /\ UNCHANGED <<env, scmVars, execute, loaded, canceled, runner, closing, errCh, done>>

\* Serve takes the listener; a Shutdown meanwhile makes it close it.
Serve ==
  /\ server = "bound"
  /\ \/ closing /\ ServerEnds("closed") /\ owner' = Freed(loaded.port)
     \/ /\ ~ closing /\ server' = "serving"
        /\ UNCHANGED <<env, owner, scmVars, execute, loaded, canceled, runner, closing, errCh, done>>

ServeClosed == server = "closed" /\ ServerEnds("closed") /\ UNCHANGED owner

AcceptFails == server = "serving" /\ ServerEnds("error") /\ owner' = Freed(loaded.port)

(***************************************************************************)
(* The Service Control Manager and other programs.                         *)
(***************************************************************************)
\* A stop request reaches a service that accepts it.
AskStop ==
  /\ state = "Running" /\ ~ control
  /\ control' = TRUE
  /\ UNCHANGED <<env, owner, recovery, state, exit, goVars>>

\* A failure is the end of a process that did not report it: the flag for
\* failures that are no crashes is never set.
Restart == exit = "crashed" /\ recovery /\ Launch

OtherTakes(p) ==
  /\ owner[p] = "nobody"
  /\ owner' = [owner EXCEPT ![p] = "other"]
  /\ UNCHANGED <<env, scmVars, goVars>>

OtherLeaves(p) ==
  /\ owner[p] = "other"
  /\ owner' = Freed(p)
  /\ UNCHANGED <<env, scmVars, goVars>>

ProcessStep ==
  \/ LoadFails \/ Load \/ Spawn \/ ReportRunning \/ TakeStop \/ AwaitDone \/ TakeDone \/ Exit
  \/ Shut \/ ShutdownReturns \/ ServerReturned
  \/ Listen \/ Serve \/ ServeClosed

World ==
  \/ Die \/ AcceptFails \/ Restart
  \/ \E p \in Ports : OtherTakes(p) \/ OtherLeaves(p)

HostNext == ProcessStep \/ World \/ Launch \/ AskStop

\* Every goroutine that can run is scheduled, and the SCM carries out its
\* recovery actions; nobody has to start or stop the service.
HostFairness ==
  /\ WF_hostVars(LoadFails \/ Load \/ Spawn \/ ReportRunning \/ TakeStop \/ AwaitDone \/ TakeDone \/ Exit)
  /\ WF_hostVars(Shut \/ ShutdownReturns \/ ServerReturned)
  /\ WF_hostVars(Listen \/ Serve \/ ServeClosed)
  /\ WF_hostVars(Restart)

HostSpec == HostInit /\ [][HostNext]_hostVars /\ HostFairness

-----------------------------------------------------------------------------
\* The types of the service's variables.
HostTypeOK ==
  /\ env \in EnvFiles \cup {Broken}
  /\ owner \in [Ports -> {"nobody", "sentinel", "other"}]
  /\ recovery \in BOOLEAN
  /\ state \in {"Stopped", "StartPending", "Running", "StopPending"}
  /\ exit \in {"none", "clean", "failed", "crashed"}
  /\ execute \in {"off", "load", "spawn", "report", "loop", "await", "ending"}
  /\ loaded \in EnvFiles \cup {Broken}
  /\ control \in BOOLEAN /\ canceled \in BOOLEAN /\ closing \in BOOLEAN
  /\ runner \in {"none", "select", "shutdown", "returned"}
  /\ server \in {"none", "starting", "bound", "serving", "closed", "ended"}
  /\ errCh \in {"empty", "closed", "error"}
  /\ done \in {"empty", "nil", "error"}

(***************************************************************************)
(* Once the SCM has been told Stopped, no connection is accepted any more, *)
(* even if the stop came before ListenAndServe had got as far as the       *)
(* listener; and only the process that lives, on the port it was           *)
(* configured with, holds one (service_windows.go, Execute; runtime.go,    *)
(* Run).                                                                   *)
(***************************************************************************)
StoppedServesNobody ==
  /\ state = "Stopped" => server # "serving"
  /\ \A p \in Ports :
       owner[p] = "sentinel" <=> server \in {"bound", "serving"} /\ loaded.port = p

(***************************************************************************)
(* A service that was asked to stop gets there, whatever its goroutines    *)
(* are doing, and also when it is failing by itself at that moment.        *)
(***************************************************************************)
StopCompletes == control ~> state = "Stopped"

(***************************************************************************)
(* Running is reported before the port is bound, so start() may report a   *)
(* success that is none; but a service that is Running and not serving,    *)
(* not yet or no longer, comes to serve or to Stopped: it never stays      *)
(* Running and deaf (service_windows.go, Execute; runtime.go, Run).        *)
(***************************************************************************)
RunningServesOrEnds ==
  state = "Running" /\ server # "serving" ~> server = "serving" \/ state = "Stopped"

(***************************************************************************)
(* What the service reports is what it does, step by step: see module      *)
(* ServiceContract (service_windows.go, Execute; runtime.go, Run).         *)
(***************************************************************************)
Contract == INSTANCE ServiceContract WITH
  told <- state,
  asked <- control /\ state = "Running",
  serving <- IF server = "serving" THEN "now"
             ELSE IF state = "Stopped" \/ server \in {"closed", "ended"} THEN "no more"
             ELSE "not yet"

ContractSpec == Contract!Spec
=============================================================================
