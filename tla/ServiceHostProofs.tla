-------------------------- MODULE ServiceHostProofs --------------------------
(***************************************************************************)
(* What the Windows service guarantees for any ports and configurations,   *)
(* and any moment of a stop, a failure or a crash: its types, and that     *)
(* nobody is served once the SCM has been told Stopped.                    *)
(***************************************************************************)
EXTENDS ServiceHost, TLAPS

\* The goroutines a process has, and what the SCM has been told, follow from
\* where Execute is (service_windows.go).
ExecuteKnows ==
  /\ execute \in {"off", "load"} => loaded = Broken
  /\ execute \in {"spawn", "report", "loop", "await"} => Loads(loaded)
  /\ execute \in {"off", "load", "spawn"} =>
       runner = "none" /\ server = "none" /\ errCh = "empty" /\ done = "empty" /\ ~ closing
  /\ execute \in {"report", "loop", "await"} => runner # "none"
  /\ execute \in {"off", "ending"} <=> state = "Stopped"
  /\ execute \in {"load", "spawn", "report"} <=> state = "StartPending"
  /\ execute = "loop" <=> state = "Running"
  /\ execute = "await" <=> state = "StopPending"
  /\ control => execute \in {"loop", "ending"}

\* Runtime.Run returns only once the server cannot serve any more.
RunKnows ==
  /\ runner = "none" => server = "none"
  /\ runner = "shutdown" => closing
  /\ runner = "returned" => closing \/ server = "ended"
  /\ done # "empty" => runner = "returned"
  /\ errCh # "empty" => server = "ended"
  /\ closing => server # "serving"
  /\ server # "none" => Loads(loaded)

\* A process about to end has no server, or one that serves nobody.
EndKnows == execute = "ending" => runner \in {"none", "returned"}

\* The port is this process's exactly while it listens.
PortsKnow ==
  \A p \in Ports :
    owner[p] = "sentinel" <=> server \in {"bound", "serving"} /\ loaded.port = p

HostInv == HostTypeOK /\ ExecuteKnows /\ RunKnows /\ EndKnows /\ PortsKnow

-----------------------------------------------------------------------------
\* Before any process there is nothing to know.
LEMMA HostInvInit == HostInit => HostInv
  BY DEF HostInit, HostInv, HostTypeOK, ExecuteKnows, RunKnows, EndKnows, PortsKnow

\* A step that leaves the ports, the server and its configuration alone
\* leaves the port with whom it was.
LEMMA PortsUntouched ==
  ASSUME PortsKnow, UNCHANGED <<owner, server, loaded>>
  PROVE  PortsKnow'
  BY DEF PortsKnow

\* The steps of Execute (service_windows.go).
LEMMA ExecuteKeepsInv ==
  ASSUME HostInv,
         \/ LoadFails \/ Load \/ Spawn \/ ReportRunning
         \/ TakeStop \/ AwaitDone \/ TakeDone
  PROVE  HostInv'
<1> USE DEF HostInv
<1>1. CASE Load
  <2>1. HostTypeOK' /\ ExecuteKnows' /\ RunKnows' /\ EndKnows'
    BY <1>1 DEF Load, Loads, scmVars, HostTypeOK, ExecuteKnows, RunKnows, EndKnows
  <2>2. PortsKnow'
    BY <1>1 DEF Load, PortsKnow, ExecuteKnows
  <2> QED
    BY <2>1, <2>2
<1>2. CASE Spawn
  <2>1. HostTypeOK' /\ ExecuteKnows' /\ RunKnows' /\ EndKnows'
    BY <1>2 DEF Spawn, scmVars, HostTypeOK, ExecuteKnows, RunKnows, EndKnows
  <2>2. PortsKnow'
    BY <1>2 DEF Spawn, PortsKnow, ExecuteKnows
  <2> QED
    BY <2>1, <2>2
<1>3. CASE ReportRunning \/ TakeStop
  <2>1. ExecuteKnows' /\ RunKnows' /\ EndKnows'
    BY <1>3 DEF ReportRunning, TakeStop, ExecuteKnows, RunKnows, EndKnows
  <2>2. control' \in BOOLEAN /\ canceled' \in BOOLEAN
    BY <1>3, Zenon DEF ReportRunning, TakeStop, HostTypeOK
  <2>3. HostTypeOK'
    BY <1>3, <2>2 DEF ReportRunning, TakeStop, HostTypeOK
  <2>4. PortsKnow'
    BY <1>3, PortsUntouched DEF ReportRunning, TakeStop
  <2> QED
    BY <2>1, <2>3, <2>4
<1>4. CASE LoadFails \/ AwaitDone \/ TakeDone
  <2>1. HostTypeOK' /\ ExecuteKnows' /\ RunKnows' /\ EndKnows'
    BY <1>4 DEF LoadFails, AwaitDone, TakeDone, Finish, HostTypeOK, ExecuteKnows,
       RunKnows, EndKnows
  <2>2. PortsKnow'
    BY <1>4, PortsUntouched DEF LoadFails, AwaitDone, TakeDone
  <2> QED
    BY <2>1, <2>2
<1> QED
  BY <1>1, <1>2, <1>3, <1>4

\* The steps of Runtime.Run (runtime.go).
LEMMA RunKeepsInv ==
  ASSUME HostInv, Shut \/ ShutdownReturns \/ ServerReturned
  PROVE  HostInv'
<1> USE DEF HostInv
<1>1. CASE Shut
  <2>1. ExecuteKnows' /\ RunKnows' /\ EndKnows'
    BY <1>1 DEF Shut, scmVars, HostTypeOK, ExecuteKnows, RunKnows, EndKnows
  <2>2. HostTypeOK'
    <3>1. owner' \in [Ports -> {"nobody", "sentinel", "other"}]
      BY <1>1 DEF Shut, Freed, HostTypeOK
    <3>2. closing' \in BOOLEAN /\ control' \in BOOLEAN /\ canceled' \in BOOLEAN /\ recovery' \in BOOLEAN
      BY <1>1, Zenon DEF Shut, scmVars, HostTypeOK
    <3> QED
      BY <1>1, <3>1, <3>2 DEF Shut, scmVars, HostTypeOK
  <2>3. PortsKnow'
    BY <1>1 DEF Shut, Freed, HostTypeOK, PortsKnow
  <2> QED
    BY <2>1, <2>2, <2>3
<1>2. CASE ShutdownReturns \/ ServerReturned
  <2>1. HostTypeOK' /\ ExecuteKnows' /\ RunKnows' /\ EndKnows'
    BY <1>2 DEF ShutdownReturns, ServerReturned, scmVars, HostTypeOK, ExecuteKnows,
       RunKnows, EndKnows
  <2>2. PortsKnow'
    BY <1>2, PortsUntouched DEF ShutdownReturns, ServerReturned
  <2> QED
    BY <2>1, <2>2
<1> QED
  BY <1>1, <1>2

\* The steps of ListenAndServe (runtime.go, Run).
LEMMA ServerKeepsInv ==
  ASSUME HostInv, Listen \/ Serve \/ ServeClosed \/ AcceptFails
  PROVE  HostInv'
<1> USE DEF HostInv
<1>1. execute \in {"report", "loop", "await", "ending"} /\ loaded.port \in Ports
  BY EnvFilesAssumption
     DEF Listen, Serve, ServeClosed, AcceptFails, HostTypeOK, ExecuteKnows, RunKnows, Loads
<1>2. HostTypeOK' /\ ExecuteKnows' /\ RunKnows' /\ EndKnows'
  BY <1>1 DEF Listen, Serve, ServeClosed, AcceptFails, ServerEnds, Freed, scmVars,
     HostTypeOK, ExecuteKnows, RunKnows, EndKnows
<1>3. PortsKnow'
  BY <1>1 DEF Listen, Serve, ServeClosed, AcceptFails, ServerEnds, Freed, HostTypeOK, PortsKnow
<1> QED
  BY <1>2, <1>3

\* The end of the process (service_windows.go, Execute; main.go).
LEMMA EndKeepsInv ==
  ASSUME HostInv, Exit \/ Die
  PROVE  HostInv'
<1> USE DEF HostInv
<1>1. HostTypeOK' /\ ExecuteKnows' /\ RunKnows' /\ EndKnows'
  BY DEF Exit, Die, NoProcess, Released, HostTypeOK, ExecuteKnows, RunKnows, EndKnows
<1>2. PortsKnow'
  BY DEF Exit, Die, NoProcess, Released, PortsKnow
<1> QED
  BY <1>1, <1>2

\* The SCM and other programs.
LEMMA WorldKeepsInv ==
  ASSUME HostInv,
         \/ Launch \/ AskStop \/ Restart
         \/ \E p \in Ports : OtherTakes(p) \/ OtherLeaves(p)
  PROVE  HostInv'
<1> USE DEF HostInv
<1>1. CASE Launch \/ Restart
  <2>1. Launch
    BY <1>1 DEF Restart
  <2>2. ExecuteKnows' /\ RunKnows' /\ EndKnows'
    BY <2>1 DEF Launch, ExecuteKnows, RunKnows, EndKnows
  <2>3. control' \in BOOLEAN
    BY <2>1, Zenon DEF Launch
  <2>4. HostTypeOK'
    BY <2>1, <2>3 DEF Launch, HostTypeOK
  <2>5. PortsKnow'
    BY <2>1, PortsUntouched DEF Launch
  <2> QED
    BY <2>2, <2>4, <2>5
<1>2. CASE AskStop
  <2>1. ExecuteKnows' /\ RunKnows' /\ EndKnows'
    BY <1>2 DEF AskStop, goVars, ExecuteKnows, RunKnows, EndKnows
  <2>2. control' \in BOOLEAN
    BY <1>2, Zenon DEF AskStop
  <2>3. HostTypeOK'
    BY <1>2, <2>2 DEF AskStop, goVars, HostTypeOK
  <2>4. PortsKnow'
    BY <1>2, PortsUntouched DEF AskStop, goVars
  <2> QED
    BY <2>1, <2>3, <2>4
<1>3. ASSUME NEW p \in Ports, OtherTakes(p) \/ OtherLeaves(p) PROVE HostInv'
  <2>1. ExecuteKnows' /\ RunKnows' /\ EndKnows'
    BY <1>3 DEF OtherTakes, OtherLeaves, scmVars, goVars, ExecuteKnows, RunKnows, EndKnows
  <2>2. HostTypeOK'
    BY <1>3 DEF OtherTakes, OtherLeaves, Freed, scmVars, goVars, HostTypeOK
  <2>3. PortsKnow'
    BY <1>3 DEF OtherTakes, OtherLeaves, Freed, goVars, HostTypeOK, PortsKnow
  <2> QED
    BY <2>1, <2>2, <2>3
<1> QED
  BY <1>1, <1>2, <1>3

\* No step of the service or around it breaks the invariant.
LEMMA HostInvStep == HostInv /\ [HostNext]_hostVars => HostInv'
<1> SUFFICES ASSUME HostInv, [HostNext]_hostVars PROVE HostInv'
  OBVIOUS
<1>1. CASE UNCHANGED hostVars
  BY <1>1 DEF hostVars, scmVars, goVars, HostInv, HostTypeOK, ExecuteKnows, RunKnows,
     EndKnows, PortsKnow
<1> QED
  BY <1>1, ExecuteKeepsInv, RunKeepsInv, ServerKeepsInv, EndKeepsInv, WorldKeepsInv
     DEF HostNext, ProcessStep, World

\* What each goroutine of the service and the SCM know of one another is
\* right in every reachable state (service_windows.go, runtime.go).
THEOREM HostInvHolds == HostSpec => []HostInv
  BY HostInvInit, HostInvStep, PTL DEF HostSpec

-----------------------------------------------------------------------------
\* Every variable of the service keeps its type (service_windows.go, runtime.go).
THEOREM HostTyped == HostSpec => []HostTypeOK
<1>1. HostInv => HostTypeOK
  BY DEF HostInv
<1> QED
  BY <1>1, HostInvHolds, PTL

\* An end reported is an end of serving: what Execute has waited for or never
\* started.
LEMMA InvServesNobody == HostInv => StoppedServesNobody
<1> SUFFICES ASSUME HostInv PROVE StoppedServesNobody
  OBVIOUS
<1>1. ASSUME state = "Stopped" PROVE server # "serving"
  <2>1. runner \in {"none", "returned"}
    BY <1>1 DEF HostInv, ExecuteKnows, EndKnows
  <2> QED
    BY <2>1 DEF HostInv, RunKnows
<1> QED
  BY <1>1 DEF HostInv, PortsKnow, StoppedServesNobody

(***************************************************************************)
(* Once the SCM has been told Stopped nobody is served any more, and a     *)
(* port is held by the process exactly while it listens, on the port it    *)
(* was configured with: in any interleaving of a stop, the listener and    *)
(* its failure (service_windows.go, Execute; runtime.go, Run).             *)
(***************************************************************************)
THEOREM HostServesNobodyStopped == HostSpec => []StoppedServesNobody
  BY InvServesNobody, HostInvHolds, PTL

-----------------------------------------------------------------------------
(***************************************************************************)
(* The refinement of ServiceContract, a step at a time.                    *)
(***************************************************************************)
LEMMA ContractInit == HostInit => Contract!Init
  BY DEF HostInit, Contract!Init

\* A step that changes nothing of what the contract is about.
LEMMA ContractUntouched ==
  ASSUME UNCHANGED <<state, control, server, exit>>
  PROVE  UNCHANGED Contract!contractVars
  BY DEF Contract!contractVars

\* The SCM starts a process: a run begins, told and asked nothing.
LEMMA LaunchStarts ==
  ASSUME HostInv, Launch
  PROVE  Contract!Start
  BY DEF Launch, HostInv, ExecuteKnows, RunKnows, Contract!Start

\* Execute tells the SCM Running.
LEMMA ReportReadies ==
  ASSUME HostInv, ReportRunning
  PROVE  Contract!Ready
  BY DEF ReportRunning, HostInv, ExecuteKnows, Contract!Ready

\* The SCM sends a stop.
LEMMA AskStopAsks ==
  ASSUME HostInv, AskStop
  PROVE  Contract!Ask
  BY DEF AskStop, goVars, Contract!Ask

\* Execute receives it.
LEMMA TakeStopHeeds ==
  ASSUME HostInv, TakeStop
  PROVE  Contract!Heed
  BY DEF TakeStop, HostInv, ExecuteKnows, Contract!Heed

\* Execute ends after a stop, its server closed (runtime.go, Run).
LEMMA AwaitDoneEnds ==
  ASSUME HostInv, AwaitDone
  PROVE  Contract!EndAsAsked
  BY DEF AwaitDone, Finish, HostInv, ExecuteKnows, RunKnows, Contract!EndAsAsked, Contract!End

\* Execute ends of itself: the file does not load, or the server failed.
LEMMA FailureEnds ==
  ASSUME HostInv, LoadFails \/ TakeDone
  PROVE  Contract!EndByItself
  BY DEF LoadFails, TakeDone, Finish, HostInv, ExecuteKnows, RunKnows,
     Contract!EndByItself, Contract!End

\* The process is killed.
LEMMA DieCrashes ==
  ASSUME HostInv, Die
  PROVE  Contract!Crash
  BY DEF Die, NoProcess, HostInv, ExecuteKnows, Contract!Crash, Contract!End

\* The goroutine that listens opens and closes within a run, or is not seen.
LEMMA ServerOpensAndCloses ==
  ASSUME HostInv, Listen \/ Serve \/ ServeClosed \/ AcceptFails \/ Shut
  PROVE  [Contract!Serve \/ Contract!Close]_(Contract!contractVars)
<1>1. UNCHANGED <<state, control, exit>>
  BY DEF Listen, Serve, ServeClosed, AcceptFails, Shut, ServerEnds, scmVars
<1>2. CASE server' = server
  BY <1>1, <1>2, ContractUntouched
<1>3. CASE server # "serving" /\ server' = "serving"
  <2>1. server = "bound" /\ ~ closing
    BY <1>3 DEF Listen, Serve, ServeClosed, AcceptFails, Shut, ServerEnds
  <2>2. state # "Stopped"
    BY <2>1 DEF HostInv, ExecuteKnows, RunKnows, EndKnows
  <2> QED
    BY <1>1, <1>3, <2>1, <2>2 DEF Contract!Serve
<1>4. CASE server' \in {"closed", "ended"} /\ server # "closed" /\ server' # server
  <2>1. server \notin {"closed", "ended"}
    BY <1>4 DEF Listen, Serve, ServeClosed, AcceptFails, Shut, ServerEnds
  <2>2. CASE state = "Stopped"
    <3>1. server # "serving"
      BY <2>2, InvServesNobody DEF StoppedServesNobody
    <3> QED
      BY <1>1, <1>4, <2>2, <3>1 DEF Contract!contractVars
  <2>3. CASE state # "Stopped"
    BY <1>1, <1>4, <2>1, <2>3 DEF Contract!Close
  <2> QED
    BY <2>2, <2>3
<1>5. CASE \/ server = "closed" /\ server' = "ended"
           \/ server = "starting" /\ server' = "bound"
  BY <1>1, <1>5 DEF Contract!contractVars
<1> QED
  BY <1>2, <1>3, <1>4, <1>5 DEF Listen, Serve, ServeClosed, AcceptFails, Shut, ServerEnds

\* The process goes after its end has been reported: nothing is left to see.
LEMMA ExitIsUnseen ==
  ASSUME HostInv, Exit \/ Spawn
  PROVE  UNCHANGED Contract!contractVars
<1>1. CASE Exit
  <2>1. state = "Stopped" /\ server # "serving"
    BY <1>1, InvServesNobody DEF Exit, HostInv, ExecuteKnows, StoppedServesNobody
  <2>2. state' = state /\ exit' = exit /\ server' = "none"
    BY <1>1 DEF Exit, NoProcess
  <2> QED
    BY <2>1, <2>2 DEF Contract!contractVars
<1>2. CASE Spawn
  <2>1. server = "none" /\ server' = "starting" /\ UNCHANGED <<state, control, exit>>
    BY <1>2 DEF Spawn, scmVars, HostInv, ExecuteKnows
  <2>2. state # "Stopped"
    BY <1>2 DEF Spawn, HostInv, ExecuteKnows
  <2> QED
    BY <2>1, <2>2 DEF Contract!contractVars
<1> QED
  BY <1>1, <1>2

\* Every step of the service is one of the contract, or unseen.
LEMMA ContractStep ==
  HostInv /\ [HostNext]_hostVars => [Contract!Next]_(Contract!contractVars)
<1> SUFFICES ASSUME HostInv, [HostNext]_hostVars
             PROVE  [Contract!Next]_(Contract!contractVars)
  OBVIOUS
<1>1. CASE UNCHANGED hostVars
  BY <1>1, ContractUntouched DEF hostVars, scmVars, goVars
<1>2. CASE ShutdownReturns \/ ServerReturned \/ \E p \in Ports : OtherTakes(p) \/ OtherLeaves(p)
  BY <1>2, ContractUntouched DEF ShutdownReturns, ServerReturned, OtherTakes, OtherLeaves,
     scmVars, goVars
<1>3. CASE Launch \/ Restart \/ ReportRunning \/ AskStop \/ TakeStop
  BY <1>3, LaunchStarts, ReportReadies, AskStopAsks, TakeStopHeeds DEF Restart, Contract!Next
<1>4. CASE AwaitDone \/ LoadFails \/ TakeDone \/ Die
  BY <1>4, AwaitDoneEnds, FailureEnds, DieCrashes DEF Contract!Next
<1>5. CASE Load
  BY <1>5, ContractUntouched DEF Load, scmVars
<1> QED
  BY <1>1, <1>2, <1>3, <1>4, <1>5, ServerOpensAndCloses, ExitIsUnseen
     DEF HostNext, ProcessStep, World, Contract!Next

(***************************************************************************)
(* What the service reports is what it does: the states in Windows' order, *)
(* a clean end only after a stop that was asked for, a failure otherwise,  *)
(* one stretch of serving a run, over before the end is reported           *)
(* (service_windows.go, Execute; runtime.go, Run).                         *)
(***************************************************************************)
THEOREM HostKeepsContract == HostSpec => ContractSpec
  BY HostInvHolds, ContractInit, ContractStep, PTL DEF HostSpec, ContractSpec, Contract!Spec
=============================================================================
