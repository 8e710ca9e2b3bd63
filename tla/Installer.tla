------------------------------ MODULE Installer ------------------------------
(***************************************************************************)
(* The administrator's tools around the service of module ServiceHost: the *)
(* subcommands of sentinel.exe service and the buttons of the window       *)
(* (sentinel/src/installer/installer.go, gui_windows.go,                   *)
(* firewall_windows.go).  Every one of them is a fixed sequence of calls,  *)
(* of the SCM, the firewall, the .env file and a port probe, between which *)
(* the service, the SCM and other programs go on; it ends at the first     *)
(* error it does not ignore.                                               *)
(***************************************************************************)
EXTENDS ServiceHost, Sequences

CONSTANTS
  Tools,        \* the windows and terminals
  Forms,        \* what a window's fields may hold: [port, ticked, key, usable],
                \* where key tells a public key and usable what config.Load takes
  NoPort,       \* a field with no port from 1 to 65535 in it
  DefaultPort,  \* 9876
  NoForm        \* no field read

ASSUME FormsAssumption ==
  /\ \A f \in Forms : f.usable => f.key /\ f.port \in Ports
  /\ \A f \in Forms : f.port \in Ports \cup {NoPort}
  /\ DefaultPort \in Ports /\ NoPort \notin Ports

\* What .env may hold includes what a window saves; ParsePort finds a port in
\* it or none.
ASSUME SavedAssumption ==
  /\ \A f \in Forms :
       [port |-> f.port, maxBody |-> "default", usable |-> f.usable] \in EnvFiles
  /\ \A fine \in BOOLEAN :
       [port |-> DefaultPort, maxBody |-> "default", usable |-> fine] \in EnvFiles
  /\ \A e \in EnvFiles : e.port \in Ports \cup {NoPort}

VARIABLES
  registered,  \* the SCM's record of the service: "no", "yes", "deleting"
  rules,       \* the ports the firewall's rules of Sentinel's name open
  todo,        \* the calls each tool has still to make
  op,          \* what it carries out: "install" or "start", the buttons, a
               \* "command", or "none" when idle
  form,        \* the fields its button has read, while it runs
  chosen,      \* the port install() has read from .env
  shown,       \* the state its window shows
  outcome      \* how its last button or subcommand ended

toolVars == <<todo, op, form, chosen, shown, outcome>>
installerVars == <<hostVars, registered, rules, toolVars>>

(***************************************************************************)
(* The sequences.  A call that may fail says what follows its failure: the *)
(* end of the operation ("fail"), the call after it or, for a stop, after  *)
(* the wait ("skip"), or the wait itself ("wait").                         *)
(***************************************************************************)
Call(name, ifNot) == [call |-> name, ifNot |-> ifNot]
Sure(name) == Call(name, "fail")

Stop(ifNot) ==
  <<Call("stop", ifNot), Call("awaitStopped", IF ifNot = "fail" THEN "fail" ELSE "skip")>>

Start == <<Sure("start"), Sure("awaitRunning")>>

Install ==
  <<Sure("readEnv")>> \o Stop("wait")
    \o <<Call("delete", "skip"), Sure("checkChosen"), Sure("create"),
         Sure("setRecovery"), Sure("openChosen")>>

Uninstall ==
  <<Sure("open")>> \o Stop("skip") \o <<Sure("delete"), Sure("closeFirewall")>>

Ticked(f) == IF f.ticked THEN <<Sure("openForm")>> ELSE <<>>

InstallButton(f) ==
  Stop("skip") \o <<Sure("checkForm"), Sure("save")>> \o Install \o Ticked(f) \o Start

StartButton(f) ==
  IF f.port = NoPort THEN <<Sure("save")>> \o Start
  ELSE <<Sure("checkForm"), Sure("save")>> \o Ticked(f) \o Start

-----------------------------------------------------------------------------
InstallerInit ==
  /\ HostInit
  /\ registered = "no" /\ recovery = FALSE
  /\ rules = {}
  /\ todo = [t \in Tools |-> <<>>]
  /\ op = [t \in Tools |-> "none"]
  /\ form = [t \in Tools |-> NoForm]
  /\ chosen = [t \in Tools |-> NoPort]
  /\ shown = [t \in Tools |-> "no"]
  /\ outcome = [t \in Tools |-> "none"]

Idle(t) == todo[t] = <<>>

Begin(t, name, calls) ==
  /\ Idle(t)
  /\ todo' = [todo EXCEPT ![t] = calls]
  /\ op' = [op EXCEPT ![t] = name]
  /\ outcome' = [outcome EXCEPT ![t] = "none"]
  /\ UNCHANGED <<hostVars, registered, rules, chosen, shown>>

\* updateServiceStatus: a timer of 1.5 s, and the end of most buttons.
Status == IF registered = "no" THEN "no" ELSE state

\* The buttons the window has enabled since it last looked.
Press(t) ==
  \/ \E f \in Forms :
       /\ form' = [form EXCEPT ![t] = f]
       /\ \/ f.key /\ f.port # NoPort /\ Begin(t, "install", InstallButton(f))
          \/ shown[t] = "Stopped" /\ Begin(t, "start", StartButton(f))
  \/ /\ UNCHANGED form
     /\ \/ shown[t] \notin {"no", "Stopped"} /\ Begin(t, "command", Stop("fail"))
        \/ shown[t] # "no" /\ Begin(t, "command", Uninstall)

\* sentinel.exe service install, uninstall, start, stop
Type(t) ==
  /\ UNCHANGED form
  /\ \E calls \in {Install, Uninstall, Start, Stop("fail")} : Begin(t, "command", calls)

Refresh(t) ==
  /\ Idle(t) /\ shown[t] # Status
  /\ shown' = [shown EXCEPT ![t] = Status]
  /\ UNCHANGED <<hostVars, registered, rules, todo, op, form, chosen, outcome>>

(***************************************************************************)
(* The calls.                                                              *)
(***************************************************************************)
At(t, names) == ~ Idle(t) /\ Head(todo[t]).call \in names

Return(t, result) ==
  /\ outcome' = [outcome EXCEPT ![t] = result]
  /\ op' = [op EXCEPT ![t] = "none"]
  /\ form' = [form EXCEPT ![t] = NoForm]
  /\ chosen' = [chosen EXCEPT ![t] = NoPort]

\* n calls are done.
Advance(t, n) ==
  LET rest == SubSeq(todo[t], n + 1, Len(todo[t]))
  IN /\ todo' = [todo EXCEPT ![t] = rest]
     /\ IF rest = <<>>
        THEN Return(t, "ok") /\ shown' = [shown EXCEPT ![t] = Status]
        ELSE UNCHANGED <<op, form, chosen, outcome, shown>>

\* The operation returns an error; the window looks again unless the button
\* returned early.
Fail(t) ==
  /\ todo' = [todo EXCEPT ![t] = <<>>]
  /\ Return(t, "failed")
  /\ shown' = IF At(t, {"checkForm", "checkChosen", "create"}) THEN shown
              ELSE [shown EXCEPT ![t] = Status]

\* What follows the failure of the call at hand; n calls are skipped.
Otherwise(t, n) ==
  IF Head(todo[t]).ifNot = "fail" THEN Fail(t) ELSE Advance(t, n)

\* OpenService, Query and Control.
AskToStop(t) ==
  /\ At(t, {"stop"})
  /\ UNCHANGED <<registered, rules>>
  /\ \/ Status \in {"no", "Stopped"} /\ Advance(t, 2) /\ UNCHANGED hostVars
     \/ Status = "Running" /\ ~ control /\ AskStop /\ Advance(t, 1)
     \/ Status = "Running" /\ control /\ Advance(t, 1) /\ UNCHANGED hostVars
     \/ /\ Status \in {"StartPending", "StopPending"}
        /\ Otherwise(t, IF Head(todo[t]).ifNot = "wait" THEN 1 ELSE 2)
        /\ UNCHANGED hostVars

\* waitForState, 10 or 15 s.
AwaitStopped(t) ==
  /\ At(t, {"awaitStopped"})
  /\ IF state = "Stopped" THEN Advance(t, 1) ELSE Otherwise(t, 1)
  /\ UNCHANGED <<hostVars, registered, rules>>

\* OpenService, Query and Start, which may fail in any other state.
AskToStart(t) ==
  /\ At(t, {"start"})
  /\ UNCHANGED <<registered, rules>>
  /\ \/ Status = "Running" /\ Advance(t, 2) /\ UNCHANGED hostVars
     \/ registered = "yes" /\ Launch /\ Advance(t, 1)
     \/ Status # "Running" /\ Fail(t) /\ UNCHANGED hostVars

AwaitRunning(t) ==
  /\ At(t, {"awaitRunning"})
  /\ IF state = "Running" THEN Advance(t, 1) ELSE Fail(t)
  /\ UNCHANGED <<hostVars, registered, rules>>

\* uninstall() needs a service.
Open(t) ==
  /\ At(t, {"open"})
  /\ IF registered = "no" THEN Fail(t) ELSE Advance(t, 1)
  /\ UNCHANGED <<hostVars, registered, rules>>

\* DeleteService marks the record.
Delete(t) ==
  /\ At(t, {"delete"})
  /\ IF registered = "yes" THEN Advance(t, 1) ELSE Otherwise(t, 1)
  /\ registered' = IF registered = "yes" THEN "deleting" ELSE registered
  /\ UNCHANGED <<hostVars, rules>>

\* Mutant of Create: a service that is already there will do.
CreateOrKeep(t) ==
  /\ At(t, {"create"})
  /\ Advance(t, 1)
  /\ registered' = "yes"
  /\ UNCHANGED <<hostVars, rules>>

\* CreateService refuses a name there is a record of, a marked one included.
Create(t) ==
  /\ At(t, {"create"})
  /\ IF registered = "no" THEN Advance(t, 1) ELSE Fail(t)
  /\ registered' = IF registered = "no" THEN "yes" ELSE registered
  /\ UNCHANGED <<hostVars, rules>>

\* SetRecoveryActions; its failure is a warning.
SetRecovery(t) ==
  /\ At(t, {"setRecovery"})
  /\ recovery' \in {recovery, TRUE}
  /\ Advance(t, 1)
  /\ UNCHANGED <<env, owner, state, exit, control, goVars, registered, rules>>

\* Mutant of ReadEnv: the port that does not parse is not replaced.
ReadEnvAsIs(t) ==
  /\ At(t, {"readEnv"})
  /\ todo' = [todo EXCEPT ![t] = Tail(@)]
  /\ chosen' = [chosen EXCEPT ![t] =
       IF env = Broken \/ env.port = NoPort THEN 0 ELSE env.port]
  /\ UNCHANGED <<hostVars, registered, rules, op, form, shown, outcome>>

\* LoadWithDefaults and ParsePort.
ReadEnv(t) ==
  /\ At(t, {"readEnv"})
  /\ todo' = [todo EXCEPT ![t] = Tail(@)]
  /\ chosen' = [chosen EXCEPT ![t] =
       IF env = Broken \/ env.port = NoPort THEN DefaultPort ELSE env.port]
  /\ UNCHANGED <<hostVars, registered, rules, op, form, shown, outcome>>

\* CheckPortAvailable binds the port and lets it go.
CheckPort(t) ==
  /\ At(t, {"checkForm", "checkChosen"})
  /\ LET port == IF At(t, {"checkForm"}) THEN form[t].port ELSE chosen[t]
     IN IF owner[port] = "nobody" THEN Advance(t, 1) ELSE Fail(t)
  /\ UNCHANGED <<hostVars, registered, rules>>

\* saveCurrentEnv writes the fields, and MAX_BODY_BYTES by default; an empty
\* port becomes the default.  The error of Save is ignored: the file may
\* stay, or be cut off.
SaveEnv(t) ==
  /\ At(t, {"save"})
  /\ \/ env' = [port |-> form[t].port, maxBody |-> "default", usable |-> form[t].usable]
     \/ /\ form[t].port = NoPort
        /\ \E fine \in BOOLEAN :
             env' = [port |-> DefaultPort, maxBody |-> "default", usable |-> fine]
     \/ env' \in {env, Broken}
  /\ Advance(t, 1)
  /\ UNCHANGED <<owner, scmVars, goVars, registered, rules>>

\* AddFirewallRule removes the rules of the name, ignoring an error, and adds
\* one, which may fail; RemoveFirewallRule removes them.
Firewall(t) ==
  /\ At(t, {"openForm", "openChosen", "closeFirewall"})
  /\ \E kept \in {rules, {}} :
       rules' \in {kept} \cup
         CASE At(t, {"openForm"}) -> {kept \cup {form[t].port}}
           [] At(t, {"openChosen"}) -> {kept \cup {chosen[t]}}
           [] OTHER -> {}
  /\ Advance(t, 1)
  /\ UNCHANGED <<hostVars, registered>>

Do(t) ==
  \/ AskToStop(t) \/ AwaitStopped(t) \/ AskToStart(t) \/ AwaitRunning(t)
  \/ Open(t) \/ Delete(t) \/ Create(t) \/ SetRecovery(t)
  \/ ReadEnv(t) \/ CheckPort(t) \/ SaveEnv(t) \/ Firewall(t)

(***************************************************************************)
(* The SCM: a marked record goes once the process has ended and the last   *)
(* handle is closed; the service starts with Windows.                      *)
(***************************************************************************)
Purge ==
  /\ registered = "deleting" /\ state = "Stopped" /\ execute = "off"
  /\ registered' = "no"
  /\ recovery' = FALSE /\ exit' = "none"
  /\ UNCHANGED <<env, owner, state, control, goVars, rules, toolVars>>

Host ==
  /\ \/ ProcessStep
     \/ Die \/ AcceptFails
     \/ registered = "yes" /\ (Restart \/ Launch)
     \/ \E p \in Ports : OtherTakes(p) \/ OtherLeaves(p)
  /\ UNCHANGED <<registered, rules, toolVars>>

InstallerNext ==
  \/ \E t \in Tools : Press(t) \/ Type(t) \/ Refresh(t) \/ Do(t)
  \/ Purge \/ Host

InstallerSpec == InstallerInit /\ [][InstallerNext]_installerVars

-----------------------------------------------------------------------------
\* The types of what the tools and the SCM keep.
InstallerTypeOK ==
  /\ HostTypeOK
  /\ registered \in {"no", "yes", "deleting"}
  /\ rules \subseteq Ports
  /\ chosen \in [Tools -> Ports \cup {NoPort}]
  /\ form \in [Tools -> Forms \cup {NoForm}]
  /\ shown \in [Tools -> {"no", "Stopped", "StartPending", "Running", "StopPending"}]
  /\ outcome \in [Tools -> {"none", "ok", "failed"}]

(***************************************************************************)
(* When the install button ends well, what runs is the service it has just *)
(* registered, with the .env now on disk: never the old process, however   *)
(* slowly that stopped, whether it crashed meanwhile or was restarted      *)
(* (gui_windows.go, handleButtonClick; installer.go, install and start).   *)
(***************************************************************************)
InstallStartsSavedFile ==
  [][\A t \in Tools :
       op[t] = "install" /\ outcome[t] = "none" /\ outcome'[t] = "ok"
         => loaded = env /\ registered = "yes"]_installerVars
=============================================================================
