--------------------------- MODULE SentinelProofs ---------------------------
(***************************************************************************)
(* What Sentinel guarantees for any requests, commands, clock and number   *)
(* of restarts: its types, that its store is the guard of ReplayGuard,     *)
(* that answers and deeds agree, and, if the clock is never set, that a    *)
(* repeated command is refused while its window is open.                   *)
(***************************************************************************)
EXTENDS Sentinel, TLAPS

\* The store's own theorems, about the store inside this process.
StoreProofs == INSTANCE ReplayStoreProofs
  WITH Callers <- Requests,
       Ids <- {c.commandId : c \in Commands},
       Nonces <- {c.nonce : c \in Commands},
       Untils <- {ReplayUntil(c) : c \in Commands}

Labels == {"new", "accept", "claim", "notify", "respond", "spawn", "done", "dead"}

ControlTyped ==
  /\ clock \in 0..MaxClock
  /\ power \in {"on", "hibernated"}
  /\ phase \in {"down", "serving", "draining"}
  /\ starts \in 0..MaxStarts
  /\ pc \in [Requests -> Labels]
  /\ cmd \in [Requests -> Commands \cup {NoCommand}]
  /\ now \in [Requests -> 0..MaxClock]
  /\ accepted \subseteq Requests
  /\ notice \in [Requests -> {"none", "failure", "executed"}]
  /\ reply \in [Requests -> {0, 202, 400, 401, 403, 405, 409, 413, 422}]
  /\ task \in [Requests -> {"none", "running", "done", "failed", "lost"}]

\* A handler past decoding has a command; one that has not claimed is not
\* among the accepted.
HandlersKnow ==
  \A r \in Requests :
    /\ pc[r] \in {"accept", "claim", "notify", "respond", "spawn"} \/ r \in accepted
         => cmd[r] \in Commands
    /\ pc[r] \in {"new", "accept", "claim"} => r \notin accepted
    /\ pc[r] \in {"notify", "respond", "spawn"} => r \in accepted

\* Every grant was made to an accepted request, for its own command.
GrantsAreAccepted ==
  \A g \in grants : g.caller \in accepted /\ g = ClaimOf(g.caller)

ProcessInv == ControlTyped /\ HandlersKnow /\ GrantsAreAccepted

-----------------------------------------------------------------------------
\* A clock reading in seconds is a whole number (time.Time.Unix).
LEMMA UnixInt == \A t \in Int : Unix(t) \in Int
  BY PolicyAssumption DEF Unix

\* The seconds of the clock and the ends of the windows meet the store's
\* assumption (store.go).
LEMMA StoreAssumptionHolds ==
  {ReplayUntil(c) : c \in Commands} \subseteq Int /\ Seconds \subseteq Int
<1>1. \A c \in Commands : ReplayUntil(c) \in Int
  BY PolicyAssumption, SentinelAssumption DEF ReplayUntil
<1>2. \A t \in 0..MaxClock : t \in Int
  BY SentinelAssumption
<1> QED
  BY <1>1, <1>2, UnixInt DEF Seconds

\* The claim of a request with a command is one the store knows (Accept).
LEMMA ClaimTyped ==
  ASSUME NEW r \in Requests, cmd[r] \in Commands
  PROVE  ClaimOf(r) \in Store!Guard!Claims
  BY DEF ClaimOf, Store!Guard!Claims

-----------------------------------------------------------------------------
\* The process starts with its handlers' bookkeeping right (NewRuntime).
LEMMA ProcessInvInit == Init => ProcessInv
  BY SentinelAssumption DEF Init, ProcessInv, ControlTyped, HandlersKnow,
     GrantsAreAccepted, Store!Init, Labels

\* A refusal keeps it: it changes nothing but the answer (handler.go, command).
LEMMA RejectKeepsInv ==
  ASSUME ProcessInv, NEW r \in Requests, NEW err, Reject(r, err),
         pc[r] \in {"accept", "claim"}, grants' = grants
  PROVE  ProcessInv'
<1>1. StatusOf(err) \in {400, 401, 403, 409, 422}
  BY DEF StatusOf
<1>2. ControlTyped'
  BY <1>1 DEF ProcessInv, ControlTyped, Labels, Reject, Answer, Goto
<1>3. HandlersKnow'
  BY DEF ProcessInv, ControlTyped, HandlersKnow, Labels, Reject, Answer, Goto
<1>4. GrantsAreAccepted'
  BY DEF ProcessInv, GrantsAreAccepted, ClaimOf, Reject
<1> QED
  BY <1>2, <1>3, <1>4 DEF ProcessInv

\* Every step of Accept keeps it (service.go, Accept).
LEMMA AcceptKeepsInv ==
  ASSUME ProcessInv, NEW r \in Requests, Accept(r)
  PROVE  ProcessInv'
<1>1. CASE \E err : Reject(r, err) /\ UNCHANGED storeVars
  BY <1>1, RejectKeepsInv DEF Accept, At, storeVars
<1>2. CASE /\ now' = [now EXCEPT ![r] = clock] /\ Goto(r, "claim")
           /\ UNCHANGED <<clock, power, phase, starts, storeVars, cmd, accepted, notice, reply, task>>
  <2>1. ControlTyped'
    BY <1>2 DEF ProcessInv, ControlTyped, Labels, Goto
  <2>2. HandlersKnow'
    <3>1. pc' = [pc EXCEPT ![r] = "claim"] /\ cmd' = cmd /\ accepted' = accepted
      BY <1>2 DEF Goto
    <3>2. pc[r] = "accept" /\ pc \in [Requests -> Labels]
      BY DEF Accept, At, ProcessInv, ControlTyped
    <3> QED
      BY <3>1, <3>2 DEF ProcessInv, HandlersKnow
  <2>3. GrantsAreAccepted'
    BY <1>2 DEF ProcessInv, GrantsAreAccepted, ClaimOf, storeVars
  <2> QED
    BY <2>1, <2>2, <2>3 DEF ProcessInv
<1> QED
  BY <1>1, <1>2 DEF Accept

\* Every step of Claim keeps it (service.go, Accept; store.go, Claim).
LEMMA ClaimKeepsInv ==
  ASSUME ProcessInv, NEW r \in Requests, Claim(r)
  PROVE  ProcessInv'
<1>1. CASE Reject(r, "context canceled") /\ UNCHANGED storeVars
  BY <1>1, RejectKeepsInv DEF Claim, At, storeVars
<1>2. CASE Store!Refuse(ClaimOf(r), Unix(now[r])) /\ Reject(r, "ErrAlreadyProcessed")
  BY <1>2, RejectKeepsInv DEF Claim, At, Store!Refuse
<1>3. CASE /\ Store!Grant(ClaimOf(r), Unix(now[r]))
           /\ accepted' = accepted \cup {r}
           /\ Goto(r, "notify")
           /\ UNCHANGED <<clock, power, phase, starts, cmd, now, notice, reply, task>>
  <2>1. ControlTyped'
    BY <1>3 DEF ProcessInv, ControlTyped, Labels, Goto
  <2>2. HandlersKnow'
    BY <1>3 DEF ProcessInv, ControlTyped, HandlersKnow, Labels, Claim, At, Goto
  <2>3. ClaimOf(r)' = ClaimOf(r) /\ ClaimOf(r).caller = r
    BY <1>3 DEF ClaimOf
  <2>4. GrantsAreAccepted'
    BY <1>3, <2>3 DEF ProcessInv, GrantsAreAccepted, ClaimOf, Store!Grant
  <2> QED
    BY <2>1, <2>2, <2>4 DEF ProcessInv
<1> QED
  BY <1>1, <1>2, <1>3 DEF Claim

\* The end of the process keeps it (runtime.go, Run).
LEMMA StopKeepsInv == ProcessInv /\ Stop => ProcessInv'
<1> SUFFICES ASSUME ProcessInv, Stop PROVE ProcessInv'
  OBVIOUS
<1>1. ControlTyped'
  BY DEF ProcessInv, ControlTyped, Labels, Stop
<1>2. HandlersKnow'
  BY DEF ProcessInv, ControlTyped, HandlersKnow, Labels, Stop, Active
<1>3. GrantsAreAccepted'
  BY DEF ProcessInv, GrantsAreAccepted, ClaimOf, Stop, storeVars
<1> QED
  BY <1>1, <1>2, <1>3 DEF ProcessInv

\* A step that leaves the store and the handlers alone keeps it.
LEMMA EnvironmentKeepsInv ==
  ASSUME ProcessInv, UNCHANGED <<storeVars, handlerVars>>,
         clock' \in 0..MaxClock, power' \in {"on", "hibernated"},
         phase' \in {"down", "serving", "draining"}, starts' \in 0..MaxStarts,
         task' \in [Requests -> {"none", "running", "done", "failed", "lost"}]
  PROVE  ProcessInv'
<1>1. ControlTyped'
  BY DEF ProcessInv, ControlTyped, handlerVars
<1>2. HandlersKnow' /\ GrantsAreAccepted'
  BY DEF ProcessInv, HandlersKnow, GrantsAreAccepted, ClaimOf, handlerVars, storeVars
<1> QED
  BY <1>1, <1>2 DEF ProcessInv

\* Every step of the process and of the PC keeps it.
LEMMA ProcessInvStep == ProcessInv /\ [Next]_vars => ProcessInv'
<1> SUFFICES ASSUME ProcessInv, [Next]_vars PROVE ProcessInv'
  OBVIOUS
<1> USE DEF ProcessInv
<1>1. ASSUME NEW r \in Requests, NEW c \in Commands, Receive(r, c) PROVE ProcessInv'
  <2>1. ControlTyped' /\ HandlersKnow'
    BY <1>1 DEF ControlTyped, HandlersKnow, Labels, Receive, At, Goto
  <2>2. \A g \in grants : g.caller # r
    BY <1>1 DEF HandlersKnow, GrantsAreAccepted, Receive, At
  <2>3. GrantsAreAccepted'
    BY <1>1, <2>2 DEF ControlTyped, GrantsAreAccepted, ClaimOf, Receive, storeVars
  <2> QED
    BY <2>1, <2>3
<1>2. ASSUME NEW r \in Requests, NEW status \in {400, 405, 413}, Turn(r, status)
      PROVE  ProcessInv'
  <2>1. ControlTyped'
    BY <1>2 DEF ControlTyped, Labels, Turn, Answer, Goto
  <2>2. HandlersKnow'
    BY <1>2 DEF ControlTyped, HandlersKnow, Labels, Turn, At, Goto
  <2>3. GrantsAreAccepted'
    BY <1>2 DEF GrantsAreAccepted, ClaimOf, Turn, storeVars
  <2> QED
    BY <2>1, <2>2, <2>3
<1>3. ASSUME NEW r \in Requests, Notify(r) \/ Respond(r) \/ WriteFails(r) \/ Spawn(r)
      PROVE  ProcessInv'
  <2>1. ControlTyped'
    BY <1>3 DEF ControlTyped, Labels, Notify, Respond, WriteFails, Spawn, Answer, Goto
  <2>2. HandlersKnow'
    BY <1>3 DEF ControlTyped, HandlersKnow, Labels, Notify, Respond, WriteFails, Spawn, At, Goto
  <2>3. GrantsAreAccepted'
    BY <1>3 DEF GrantsAreAccepted, ClaimOf, Notify, Respond, WriteFails, Spawn, storeVars
  <2> QED
    BY <2>1, <2>2, <2>3
<1>4. ASSUME NEW r \in Requests, Execute(r) PROVE ProcessInv'
  BY <1>4, EnvironmentKeepsInv DEF Execute, ControlTyped
<1>5. CASE Start
  <2>1. ControlTyped'
    BY <1>5, SentinelAssumption DEF Start, ControlTyped, handlerVars
  <2>2. HandlersKnow'
    BY <1>5 DEF Start, HandlersKnow, handlerVars
  <2>3. GrantsAreAccepted'
    BY <1>5 DEF Start, GrantsAreAccepted, Store!NewStore
  <2> QED
    BY <2>1, <2>2, <2>3
<1>6. CASE BeginShutdown
  BY <1>6, EnvironmentKeepsInv DEF BeginShutdown, ControlTyped
<1>7. CASE Drained \/ DrainTimeout \/ Crash
  BY <1>7, StopKeepsInv DEF Drained, DrainTimeout, Crash
<1>8. CASE Wake
  BY <1>8, EnvironmentKeepsInv DEF Wake, ControlTyped
<1>9. CASE Tick
  <2>1. clock' \in 0..MaxClock
    BY <1>9, SentinelAssumption DEF Tick, ControlTyped
  <2> QED
    BY <1>9, <2>1, EnvironmentKeepsInv DEF Tick, ControlTyped
<1>10. CASE Resync
  BY <1>10, EnvironmentKeepsInv DEF Resync, ControlTyped
<1>11. CASE UNCHANGED vars
  BY <1>11, EnvironmentKeepsInv DEF vars, ControlTyped
<1> QED
  BY <1>1, <1>2, <1>3, <1>4, <1>5, <1>6, <1>7, <1>8, <1>9, <1>10, <1>11,
     AcceptKeepsInv, ClaimKeepsInv DEF Next, Handle

\* The bookkeeping is right in every reachable state (handler.go, service.go).
THEOREM ProcessInvHolds == Spec => []ProcessInv
  BY ProcessInvInit, ProcessInvStep, PTL DEF Spec

-----------------------------------------------------------------------------
\* A claim of a handler is one of the claims the store serves (Accept).
LEMMA HandlerClaims ==
  ASSUME ProcessInv, NEW r \in Requests, pc[r] = "claim"
  PROVE  ClaimOf(r) \in Store!Guard!Claims /\ Unix(now[r]) \in Seconds
<1>1. cmd[r] \in Commands /\ now[r] \in 0..MaxClock
  BY DEF ProcessInv, ControlTyped, HandlersKnow
<1> QED
  BY <1>1, ClaimTyped DEF Seconds

(***************************************************************************)
(* Every step of the process is a step of the store or leaves it alone:    *)
(* handlers reach it through Claim only, and claim at most once            *)
(* (service.go, Accept; runtime.go, NewRuntime).                           *)
(***************************************************************************)
LEMMA StoreStep == ProcessInv /\ [Next]_vars => [Store!Next]_(Store!vars)
<1> SUFFICES ASSUME ProcessInv, [Next]_vars PROVE [Store!Next]_(Store!vars)
  OBVIOUS
<1>1. ASSUME NEW r \in Requests, Claim(r) PROVE [Store!Next]_(Store!vars)
  <2>1. ClaimOf(r) \in Store!Guard!Claims /\ Unix(now[r]) \in Seconds
    BY <1>1, HandlerClaims DEF Claim, At
  <2>2. CASE Store!Refuse(ClaimOf(r), Unix(now[r])) \/ Store!Grant(ClaimOf(r), Unix(now[r]))
    BY <2>1, <2>2 DEF Store!Next
  <2>3. CASE UNCHANGED storeVars
    BY <2>3 DEF storeVars, Store!vars
  <2> QED
    BY <1>1, <2>2, <2>3 DEF Claim
<1>2. CASE Start
  BY <1>2 DEF Start, Store!Next
<1>3. CASE UNCHANGED vars
  BY <1>3 DEF vars, storeVars, Store!vars
<1>4. CASE \E r \in Requests :
             \/ \E c \in Commands : Receive(r, c)
             \/ \E status \in {400, 405, 413} : Turn(r, status)
             \/ Accept(r) \/ Notify(r) \/ Respond(r) \/ WriteFails(r) \/ Spawn(r)
             \/ Execute(r)
  <2>1. UNCHANGED storeVars
    BY <1>4 DEF Receive, Turn, Accept, Notify, Respond, WriteFails, Spawn, Execute
  <2> QED
    BY <2>1 DEF storeVars, Store!vars
<1>5. CASE BeginShutdown \/ Drained \/ DrainTimeout \/ Crash \/ Wake \/ Tick \/ Resync
  <2>1. UNCHANGED storeVars
    BY <1>5 DEF BeginShutdown, Drained, DrainTimeout, Crash, Stop, Wake, Tick, Resync
  <2> QED
    BY <2>1 DEF storeVars, Store!vars
<1> QED
  BY <1>1, <1>2, <1>3, <1>4, <1>5 DEF Next, Handle

\* The store of this process behaves as the store of module ReplayStore.
LEMMA RunsStore == Spec => StoreProofs!Spec
<1>1. Init => StoreProofs!Init
  BY DEF Init, Store!Init, StoreProofs!Init
<1>2. [Store!Next]_(Store!vars) => [StoreProofs!Next]_(StoreProofs!vars)
  BY DEF Store!Next, Store!vars, StoreProofs!Next, StoreProofs!vars,
     Store!Grant, Store!Refuse, Store!NewStore, Store!KeysOf, Store!Live,
     Store!CommandKey, Store!NonceKey, Store!Guard!Claims, Store!Guard!Later,
     StoreProofs!Grant, StoreProofs!Refuse, StoreProofs!NewStore, StoreProofs!KeysOf,
     StoreProofs!Live, StoreProofs!CommandKey, StoreProofs!NonceKey,
     StoreProofs!Guard!Claims, StoreProofs!Guard!Later
<1> QED
  BY <1>1, <1>2, ProcessInvHolds, StoreStep, PTL DEF Spec, StoreProofs!Spec

\* The store's invariant, about the store of this process.
StoreOK == Store!TypeOK /\ Store!EntriesMatchGrants

\* In every reachable state the store has its types and its entries match its
\* grants (store.go).
LEMMA StoreOKHolds == Spec => []StoreOK
<1>1. StoreProofs!StoreInv => StoreOK
  BY DEF StoreOK, StoreProofs!StoreInv, StoreProofs!TypeOK, Store!TypeOK,
     StoreProofs!EntriesMatchGrants, Store!EntriesMatchGrants,
     StoreProofs!EntriesFromGrants, Store!EntriesFromGrants,
     StoreProofs!GrantsRemembered, Store!GrantsRemembered,
     Store!Keys, StoreProofs!Keys, Store!KeysOf, StoreProofs!KeysOf,
     Store!CommandKey, Store!NonceKey, StoreProofs!CommandKey, StoreProofs!NonceKey,
     Store!Guard!Claims, StoreProofs!Guard!Claims
<1> QED
  BY <1>1, RunsStore, StoreProofs!StoreInvHolds, StoreAssumptionHolds, PTL

-----------------------------------------------------------------------------
\* Every variable keeps its type, the store's included (module Sentinel).
THEOREM SentinelTyped == Spec => []TypeOK
<1>1. ProcessInv /\ StoreOK => TypeOK
  BY DEF ProcessInv, ControlTyped, StoreOK, TypeOK, Labels
<1> QED
  BY <1>1, ProcessInvHolds, StoreOKHolds, PTL

-----------------------------------------------------------------------------
(***************************************************************************)
(* Answers and deeds.  The invariant says what was answered, shown and     *)
(* started at each label of the handler.                                   *)
(***************************************************************************)
Progress(r) ==
  /\ pc[r] \in {"new", "accept", "claim", "notify", "respond"} => reply[r] = 0
  /\ pc[r] \in {"new", "accept", "claim"} => notice[r] = "none"
  /\ pc[r] \in {"respond", "spawn"} => notice[r] = "executed"
  /\ pc[r] = "spawn" => reply[r] = 202
  /\ pc[r] # "done" => task[r] = "none"
  /\ pc[r] = "claim" => Validate(cmd[r], now[r]) = "ok"

Truth(r) ==
  /\ reply[r] = 202 => r \in accepted /\ notice[r] = "executed"
  /\ reply[r] \notin {0, 202} => r \notin accepted /\ notice[r] # "executed"
  /\ reply[r] = 409 => \E s \in accepted : Store!Guard!Clash(ClaimOf(s), ClaimOf(r))
  /\ task[r] # "none" => reply[r] = 202
  /\ r \in accepted => Validate(cmd[r], now[r]) = "ok"

TruthInv == \A r \in Requests : Progress(r) /\ Truth(r)

\* A step that gives request r's handler what it has, and the others too.
SameOf(r) ==
  /\ pc'[r] = pc[r] /\ cmd'[r] = cmd[r] /\ now'[r] = now[r]
  /\ notice'[r] = notice[r] /\ reply'[r] = reply[r] /\ task'[r] = task[r]
  /\ r \in accepted' <=> r \in accepted

\* Commands of accepted requests stay what they were, and no acceptance is
\* taken back, so that the reason for a 409 remains.
LEMMA ReasonsRemain ==
  ASSUME ProcessInv, ProcessInv', [Next]_vars, NEW s \in accepted
  PROVE  s \in accepted' /\ cmd'[s] = cmd[s] /\ now'[s] = now[s]
<1>1. s \in Requests /\ pc[s] \notin {"new", "accept", "claim"}
  BY DEF ProcessInv, ControlTyped, HandlersKnow
<1>2. CASE UNCHANGED <<cmd, now, accepted>>
  BY <1>2
<1>3. ASSUME NEW r \in Requests, NEW c \in Commands, Receive(r, c)
      PROVE  s \in accepted' /\ cmd'[s] = cmd[s] /\ now'[s] = now[s]
  BY <1>1, <1>3 DEF Receive, At, ProcessInv, ControlTyped
<1>4. ASSUME NEW r \in Requests, Accept(r)
      PROVE  s \in accepted' /\ cmd'[s] = cmd[s] /\ now'[s] = now[s]
  <2>1. s # r
    BY <1>1, <1>4 DEF Accept, At
  <2>2. accepted' = accepted /\ cmd' = cmd /\ (now' = now \/ now' = [now EXCEPT ![r] = clock])
    BY <1>4 DEF Accept, Reject
  <2> QED
    BY <1>1, <2>1, <2>2 DEF ProcessInv, ControlTyped
<1>5. ASSUME NEW r \in Requests, Claim(r)
      PROVE  s \in accepted' /\ cmd'[s] = cmd[s] /\ now'[s] = now[s]
  BY <1>5 DEF Claim, Reject
<1>6. CASE \E r \in Requests :
             \/ \E status \in {400, 405, 413} : Turn(r, status)
             \/ Notify(r) \/ Respond(r) \/ WriteFails(r) \/ Spawn(r) \/ Execute(r)
  BY <1>2, <1>6 DEF Turn, Notify, Respond, WriteFails, Spawn, Execute, handlerVars
<1>7. CASE Start \/ BeginShutdown \/ Drained \/ DrainTimeout \/ Crash \/ Wake \/ Tick \/ Resync
  BY <1>2, <1>7 DEF Start, BeginShutdown, Drained, DrainTimeout, Crash, Stop,
                    Wake, Tick, Resync, handlerVars
<1>8. CASE UNCHANGED vars
  BY <1>2, <1>8 DEF vars, handlerVars
<1> QED
  BY <1>3, <1>4, <1>5, <1>6, <1>7, <1>8 DEF Next, Handle

\* A request no step is about keeps its truth.
LEMMA OthersKeepTruth ==
  ASSUME ProcessInv, ProcessInv', [Next]_vars,
         NEW r \in Requests, Progress(r), Truth(r), SameOf(r)
  PROVE  (Progress(r) /\ Truth(r))'
<1>1. \A s \in accepted : s \in accepted' /\ ClaimOf(s)' = ClaimOf(s)
  BY ReasonsRemain DEF ClaimOf
<1>2. ClaimOf(r)' = ClaimOf(r)
  BY DEF SameOf, ClaimOf
<1>3. Progress(r)'
  BY DEF SameOf, Progress
<1>4. reply'[r] = 409 => \E s \in accepted' : Store!Guard!Clash(ClaimOf(s)', ClaimOf(r)')
  BY <1>1, <1>2 DEF SameOf, Truth
<1>5. (reply[r] = 409 => \E s \in accepted : Store!Guard!Clash(ClaimOf(s), ClaimOf(r)))'
  BY <1>4 DEF Store!Guard!Clash
<1>6. Truth(r)'
  BY <1>5 DEF SameOf, Truth
<1> QED
  BY <1>3, <1>6

\* What Validate can answer (policy.go, Validate), and that no error but a
\* repetition is a conflict (handler.go, commandErrorResponse).
LEMMA Verdicts ==
  ASSUME NEW c, NEW t
  PROVE  Validate(c, t) \in {"ok", "ErrInvalidCommand", "ErrWrongDevice",
           "ErrUnsupportedAction", "ErrExpiredCommand", "ErrInvalidSignature"}
  BY DEF Validate

\* Every error but that of a repetition is told as something else than 202
\* or 409 (handler.go, commandErrorResponse).
LEMMA OnlyRepeatsConflict ==
  ASSUME NEW err, err # "ErrAlreadyProcessed"
  PROVE  StatusOf(err) \notin {0, 202, 409}
<1>1. CASE err = "ErrWrongDevice" \/ err = "ErrExpiredCommand"
  <2>1. StatusOf(err) = 403
    BY <1>1 DEF StatusOf
  <2> QED
    BY <2>1
<1>2. CASE err = "ErrUnsupportedAction"
  <2>1. StatusOf(err) = 422
    BY <1>2 DEF StatusOf
  <2> QED
    BY <2>1
<1>3. CASE err = "ErrInvalidSignature"
  <2>1. StatusOf(err) = 401
    BY <1>3 DEF StatusOf
  <2> QED
    BY <2>1
<1>4. CASE err \notin {"ErrWrongDevice", "ErrExpiredCommand", "ErrUnsupportedAction",
                       "ErrInvalidSignature"}
  <2>1. StatusOf(err) = 400
    BY <1>4 DEF StatusOf
  <2> QED
    BY <2>1
<1> QED
  BY <1>1, <1>2, <1>3, <1>4

\* Accept's step of one request (service.go, Accept; handler.go, command).
LEMMA AcceptKeepsTruth ==
  ASSUME ProcessInv, NEW q \in Requests, Progress(q), Accept(q)
  PROVE  (Progress(q) /\ Truth(q))'
<1>1. /\ pc[q] = "accept" /\ q \notin accepted /\ q \notin accepted'
      /\ reply[q] = 0 /\ notice[q] = "none" /\ task[q] = "none" /\ task' = task
      /\ pc \in [Requests -> Labels] /\ DOMAIN reply = Requests /\ DOMAIN notice = Requests
      /\ DOMAIN now = Requests /\ cmd' = cmd
  BY DEF ProcessInv, ControlTyped, HandlersKnow, Progress, Accept, At, Reject
<1>2. CASE \E err \in {"context canceled", Validate(cmd[q], clock)} : Reject(q, err)
  <2>1. PICK err \in {"context canceled", Validate(cmd[q], clock)} : Reject(q, err)
    BY <1>2
  <2>2. StatusOf(err) \notin {0, 202, 409}
    <3>1. err # "ErrAlreadyProcessed"
      BY <2>1, Verdicts
    <3> QED
      BY <3>1, OnlyRepeatsConflict
  <2>3. pc'[q] = "done" /\ notice'[q] = "failure" /\ reply'[q] = StatusOf(err)
    BY <1>1, <2>1 DEF Reject, Goto, Answer
  <2>4. reply'[q] \notin {0, 202, 409}
    BY <2>2, <2>3
  <2>5. Progress(q)'
    BY <1>1, <2>3 DEF Progress
  <2>6. Truth(q)'
    BY <1>1, <2>3, <2>4 DEF Truth
  <2> QED
    BY <2>5, <2>6
<1>3. CASE /\ Validate(cmd[q], clock) = "ok" /\ now' = [now EXCEPT ![q] = clock]
           /\ Goto(q, "claim") /\ UNCHANGED <<reply, notice>>
  <2>1. pc'[q] = "claim" /\ now'[q] = clock
    BY <1>1, <1>3 DEF Goto
  <2>2. (Validate(cmd[q], now[q]) = "ok")'
    BY <1>1, <1>3, <2>1
  <2> QED
    BY <1>1, <1>3, <2>1, <2>2 DEF Progress, Truth
<1> QED
  BY <1>2, <1>3 DEF Accept

\* Claim's step of one request (service.go, Accept; store.go, Claim).
LEMMA ClaimKeepsTruth ==
  ASSUME ProcessInv, StoreOK, NEW q \in Requests, Progress(q), Claim(q)
  PROVE  (Progress(q) /\ Truth(q))'
<1>1. /\ pc[q] = "claim" /\ q \notin accepted
      /\ reply[q] = 0 /\ notice[q] = "none" /\ task[q] = "none" /\ task' = task
      /\ Validate(cmd[q], now[q]) = "ok" /\ cmd' = cmd /\ now' = now
      /\ pc \in [Requests -> Labels] /\ DOMAIN reply = Requests /\ DOMAIN notice = Requests
  BY DEF ProcessInv, ControlTyped, HandlersKnow, Progress, Claim, At, Reject
<1>2. CASE Reject(q, "context canceled")
  <2>1. pc'[q] = "done" /\ notice'[q] = "failure" /\ reply'[q] = 400 /\ accepted' = accepted
    BY <1>1, <1>2 DEF Reject, Goto, Answer, StatusOf
  <2> QED
    BY <1>1, <2>1 DEF Progress, Truth
<1>3. CASE /\ Store!Refuse(ClaimOf(q), Unix(now[q]))
           /\ Reject(q, "ErrAlreadyProcessed")
  <2>1. pc'[q] = "done" /\ notice'[q] = "failure" /\ reply'[q] = 409 /\ accepted' = accepted
    BY <1>1, <1>3 DEF Reject, Goto, Answer, StatusOf
  <2>2. PICK g \in grants : Store!Guard!Clash(g, ClaimOf(q))
    <3>1. PICK k \in Store!KeysOf(ClaimOf(q)) : k \in DOMAIN entries
      BY <1>3 DEF Store!Refuse, Store!Live
    <3>2. PICK g \in grants : k \in Store!KeysOf(g)
      BY <3>1 DEF StoreOK, Store!EntriesMatchGrants, Store!EntriesFromGrants
    <3>3. Store!Guard!Clash(g, ClaimOf(q))
      BY <3>1, <3>2 DEF Store!KeysOf, Store!CommandKey, Store!NonceKey, Store!Guard!Clash
    <3> QED
      BY <3>3
  <2>3. g.caller \in accepted /\ g = ClaimOf(g.caller)
    BY <2>2 DEF ProcessInv, GrantsAreAccepted
  <2>4. (\E s \in accepted : Store!Guard!Clash(ClaimOf(s), ClaimOf(q)))'
    BY <1>1, <2>1, <2>2, <2>3 DEF ClaimOf, Store!Guard!Clash
  <2> QED
    BY <1>1, <2>1, <2>4 DEF Progress, Truth
<1>4. CASE accepted' = accepted \cup {q} /\ Goto(q, "notify") /\ UNCHANGED <<notice, reply>>
  <2>1. pc'[q] = "notify" /\ q \in accepted'
    BY <1>1, <1>4 DEF Goto
  <2>2. (Validate(cmd[q], now[q]) = "ok")'
    BY <1>1
  <2> QED
    BY <1>1, <1>4, <2>1, <2>2 DEF Progress, Truth
<1> QED
  BY <1>2, <1>3, <1>4 DEF Claim

\* The remaining steps of one request's handler and of its goroutine.
LEMMA AnswerKeepsTruth ==
  ASSUME ProcessInv, NEW q \in Requests, Progress(q), Truth(q),
         Notify(q) \/ Respond(q) \/ WriteFails(q) \/ Spawn(q) \/ Execute(q)
  PROVE  (Progress(q) /\ Truth(q))'
<1>1. /\ pc \in [Requests -> Labels] /\ DOMAIN reply = Requests
      /\ DOMAIN notice = Requests /\ DOMAIN task = Requests
      /\ pc[q] \in {"notify", "respond", "spawn"} => q \in accepted
  BY DEF ProcessInv, ControlTyped, HandlersKnow
<1>2. UNCHANGED <<cmd, now, accepted>>
  BY DEF Notify, Respond, WriteFails, Spawn, Execute, handlerVars
<1>3. (q \in accepted => Validate(cmd[q], now[q]) = "ok")'
  BY <1>2 DEF Truth
<1>4. CASE Notify(q)
  <2>1. /\ pc[q] = "notify" /\ pc'[q] = "respond" /\ notice'[q] = "executed"
        /\ reply' = reply /\ task' = task
    BY <1>1, <1>4 DEF Notify, At, Goto
  <2> QED
    BY <1>1, <1>2, <1>3, <2>1 DEF Progress, Truth
<1>5. CASE Respond(q)
  <2>1. /\ pc[q] = "respond" /\ pc'[q] = "spawn" /\ reply'[q] = 202
        /\ notice' = notice /\ task' = task
    BY <1>1, <1>5 DEF Respond, At, Goto, Answer
  <2> QED
    BY <1>1, <1>2, <1>3, <2>1 DEF Progress, Truth
<1>6. CASE WriteFails(q)
  <2>1. pc[q] = "respond" /\ pc'[q] = "done" /\ UNCHANGED <<reply, notice, task>>
    BY <1>1, <1>6 DEF WriteFails, At, Goto
  <2> QED
    BY <1>1, <1>2, <1>3, <2>1 DEF Progress, Truth
<1>7. CASE Spawn(q)
  <2>1. /\ pc[q] = "spawn" /\ pc'[q] = "done" /\ task'[q] = "running"
        /\ UNCHANGED <<reply, notice>>
    BY <1>1, <1>7 DEF Spawn, At, Goto
  <2> QED
    BY <1>1, <1>2, <1>3, <2>1 DEF Progress, Truth
<1>8. CASE Execute(q)
  <2>1. /\ task[q] = "running" /\ pc' = pc /\ task'[q] \in {"done", "failed"}
        /\ UNCHANGED <<reply, notice>>
    BY <1>1, <1>8 DEF Execute, handlerVars
  <2>2. pc[q] = "done" /\ reply[q] = 202
    BY <2>1 DEF Progress, Truth
  <2> QED
    BY <1>1, <1>2, <1>3, <2>1, <2>2 DEF Progress, Truth
<1> QED
  BY <1>4, <1>5, <1>6, <1>7, <1>8

\* The end of the process, for one request (runtime.go, Run).
LEMMA StopKeepsTruth ==
  ASSUME ProcessInv, Stop, NEW q \in Requests, Progress(q), Truth(q)
  PROVE  (Progress(q) /\ Truth(q))'
<1>1. /\ pc'[q] = IF q \in Active THEN "dead" ELSE pc[q]
      /\ task'[q] = IF task[q] = "running" THEN "lost" ELSE task[q]
      /\ UNCHANGED <<cmd, now, accepted, notice, reply>>
  BY DEF Stop
<1>2. ClaimOf(q)' = ClaimOf(q) /\ \A s \in accepted : ClaimOf(s)' = ClaimOf(s)
  BY <1>1 DEF ClaimOf
<1>3. (reply[q] = 409 => \E s \in accepted : Store!Guard!Clash(ClaimOf(s), ClaimOf(q)))'
  BY <1>1, <1>2 DEF Truth, Store!Guard!Clash
<1>4. (q \in accepted => Validate(cmd[q], now[q]) = "ok")'
  BY <1>1 DEF Truth
<1>5. Progress(q)'
  BY <1>1 DEF Progress, Active
<1>6. Truth(q)'
  BY <1>1, <1>3, <1>4 DEF Truth
<1> QED
  BY <1>5, <1>6

\* The steps before Accept: arrival, or the refusal of what is no command.
LEMMA ArrivalKeepsTruth ==
  ASSUME ProcessInv, NEW q \in Requests, Progress(q),
         \/ \E c \in Commands : Receive(q, c)
         \/ \E status \in {400, 405, 413} : Turn(q, status)
  PROVE  (Progress(q) /\ Truth(q))'
<1>1. /\ pc[q] = "new" /\ q \notin accepted /\ accepted' = accepted
      /\ task[q] = "none" /\ task' = task /\ pc \in [Requests -> Labels]
      /\ DOMAIN reply = Requests /\ DOMAIN notice = Requests
      /\ reply[q] = 0 /\ notice[q] = "none"
  BY DEF ProcessInv, ControlTyped, HandlersKnow, Progress, Receive, Turn, At
<1>2. ASSUME NEW c \in Commands, Receive(q, c) PROVE (Progress(q) /\ Truth(q))'
  <2>1. pc'[q] = "accept" /\ UNCHANGED <<reply, notice>>
    BY <1>1, <1>2 DEF Receive, Goto
  <2> QED
    BY <1>1, <2>1 DEF Progress, Truth
<1>3. ASSUME NEW status \in {400, 405, 413}, Turn(q, status)
      PROVE  (Progress(q) /\ Truth(q))'
  <2>1. pc'[q] = "done" /\ reply'[q] = status /\ notice'[q] \in {"none", "failure"}
    BY <1>1, <1>3 DEF Turn, Goto, Answer
  <2> QED
    BY <1>1, <2>1 DEF Progress, Truth
<1> QED
  BY <1>2, <1>3

\* A step of one request's handler or goroutine is none of another's.
LEMMA OneMoves ==
  ASSUME ProcessInv, NEW q \in Requests, NEW r \in Requests, r # q,
         \/ \E c \in Commands : Receive(q, c)
         \/ \E status \in {400, 405, 413} : Turn(q, status)
         \/ Handle(q) \/ Execute(q)
  PROVE  SameOf(r)
<1> USE DEF SameOf, ProcessInv, ControlTyped
<1>1. CASE \E c \in Commands : Receive(q, c)
  BY <1>1 DEF Receive, Goto
<1>2. CASE \E status \in {400, 405, 413} : Turn(q, status)
  BY <1>2 DEF Turn, Goto, Answer
<1>3. ASSUME NEW err, Reject(q, err) PROVE SameOf(r)
  BY <1>3 DEF Reject, Goto, Answer
<1>4. CASE Accept(q) \/ Claim(q)
  <2>1. \/ \E err : Reject(q, err)
        \/ /\ now' = now \/ now' = [now EXCEPT ![q] = clock]
           /\ Goto(q, "claim") \/ Goto(q, "notify")
           /\ accepted' = accepted \/ accepted' = accepted \cup {q}
           /\ UNCHANGED <<cmd, notice, reply, task>>
    BY <1>4 DEF Accept, Claim
  <2> QED
    BY <1>3, <2>1 DEF Goto
<1>5. CASE Notify(q) \/ Respond(q) \/ WriteFails(q) \/ Spawn(q)
  BY <1>5 DEF Notify, Respond, WriteFails, Spawn, Goto, Answer
<1>6. CASE Execute(q)
  BY <1>6 DEF Execute, handlerVars
<1> QED
  BY <1>1, <1>2, <1>4, <1>5, <1>6 DEF Handle

\* Every step keeps answers and deeds in agreement.
LEMMA TruthStep ==
  ProcessInv /\ ProcessInv' /\ StoreOK /\ TruthInv /\ [Next]_vars => TruthInv'
<1> SUFFICES ASSUME ProcessInv, ProcessInv', StoreOK, TruthInv, [Next]_vars,
                    NEW r \in Requests
             PROVE  (Progress(r) /\ Truth(r))'
  BY DEF TruthInv
<1>1. Progress(r) /\ Truth(r)
  BY DEF TruthInv
<1>2. ASSUME NEW q \in Requests,
             \/ \E c \in Commands : Receive(q, c)
             \/ \E status \in {400, 405, 413} : Turn(q, status)
             \/ Handle(q) \/ Execute(q)
      PROVE  (Progress(r) /\ Truth(r))'
  <2>1. CASE r # q
    BY <1>1, <1>2, <2>1, OneMoves, OthersKeepTruth
  <2>2. CASE r = q
    BY <1>1, <1>2, <2>2, ArrivalKeepsTruth, AcceptKeepsTruth, ClaimKeepsTruth,
       AnswerKeepsTruth DEF Handle
  <2> QED
    BY <2>1, <2>2
<1>3. CASE Drained \/ DrainTimeout \/ Crash
  BY <1>1, <1>3, StopKeepsTruth DEF Drained, DrainTimeout, Crash
<1>4. CASE Start \/ BeginShutdown \/ Wake \/ Tick \/ Resync \/ UNCHANGED vars
  <2>1. UNCHANGED <<handlerVars, task>>
    BY <1>4 DEF Start, BeginShutdown, Wake, Tick, Resync, vars
  <2>2. SameOf(r)
    BY <2>1 DEF SameOf, handlerVars
  <2> QED
    BY <1>1, <2>2, OthersKeepTruth
<1> QED
  BY <1>2, <1>3, <1>4 DEF Next

\* Answers and deeds agree in every reachable state (handler.go, service.go).
LEMMA TruthInvHolds == Spec => []TruthInv
<1>1. Init => TruthInv
  BY DEF Init, TruthInv, Progress, Truth
<1> QED
  BY <1>1, TruthStep, ProcessInvHolds, StoreOKHolds, PTL DEF Spec

(***************************************************************************)
(* Answers, notices and hibernations agree in every reachable state        *)
(* (handler.go, command; service.go, Accept and Execute).                  *)
(***************************************************************************)
THEOREM SentinelTruthful == Spec => []AnswersTellTheTruth
<1>1. TruthInv => AnswersTellTheTruth
  BY DEF TruthInv, Truth, AnswersTellTheTruth
<1> QED
  BY <1>1, TruthInvHolds, PTL

-----------------------------------------------------------------------------
(***************************************************************************)
(* Clocks.  If the wall clock is never set, no reading a handler still     *)
(* holds and no claim the store has served is ahead of it.                 *)
(***************************************************************************)
ClockInv ==
  /\ \A r \in Requests : now[r] <= clock
  /\ horizon \in Int /\ Instant(horizon) <= clock

\* A reading cut to its second is not ahead of the reading (policy.go).
LEMMA InstantOfUnix ==
  ASSUME NEW t \in Int
  PROVE  Unix(t) \in Int /\ Instant(Unix(t)) <= t
  BY PolicyAssumption DEF Unix, Instant

\* Later seconds are later instants (policy.go).
LEMMA InstantMonotone ==
  ASSUME NEW m \in Int, NEW n \in Int, m <= n
  PROVE  Instant(m) \in Int /\ Instant(n) \in Int /\ Instant(m) <= Instant(n)
  BY PolicyAssumption DEF Instant

\* A claim leaves the horizon at the later of what it was and the handler's
\* reading (store.go, Claim).
LEMMA ClaimKeepsHorizon ==
  ASSUME ProcessInv, ClockInv, NEW r \in Requests, horizon' = Store!Guard!Later(horizon, Unix(now[r]))
  PROVE  horizon' \in Int /\ Instant(horizon') <= clock
<1>1. now[r] \in Int /\ now[r] <= clock /\ clock \in Int
  BY SentinelAssumption DEF ProcessInv, ControlTyped, ClockInv
<1>2. Unix(now[r]) \in Int /\ Instant(Unix(now[r])) <= clock
  <2>1. Instant(Unix(now[r])) <= now[r] /\ Unix(now[r]) \in Int
    BY <1>1, InstantOfUnix
  <2>2. Instant(Unix(now[r])) \in Int
    BY <2>1, InstantMonotone
  <2> QED
    BY <1>1, <2>1, <2>2
<1>3. horizon' = horizon \/ horizon' = Unix(now[r])
  BY DEF Store!Guard!Later
<1> QED
  BY <1>2, <1>3 DEF ClockInv

\* No step serves a claim, or holds a reading, from ahead of the clock
\* (service.go, Accept; store.go, Claim).
LEMMA ClockStep ==
  ASSUME ~ ClockSteps, ProcessInv, ClockInv, [Next]_vars
  PROVE  ClockInv'
<1>1. clock \in Int /\ \A r \in Requests : now[r] \in Int
  BY SentinelAssumption DEF ProcessInv, ControlTyped
<1>2. horizon \in Int /\ Instant(horizon) <= clock /\ Instant(horizon) \in Int
  BY InstantMonotone DEF ClockInv
<1>3. CASE UNCHANGED <<now, clock, horizon>>
  BY <1>3 DEF ClockInv, Instant
<1>4. ASSUME NEW r \in Requests, Accept(r) PROVE ClockInv'
  <2>1. UNCHANGED <<clock, horizon>> /\ (now' = now \/ now' = [now EXCEPT ![r] = clock])
    BY <1>4 DEF Accept, Reject, storeVars
  <2>2. \A s \in Requests : now'[s] <= clock
    BY <1>1, <2>1 DEF ClockInv, ProcessInv, ControlTyped
  <2> QED
    BY <1>2, <2>1, <2>2 DEF ClockInv, Instant
<1>5. ASSUME NEW r \in Requests, Claim(r) PROVE ClockInv'
  <2>1. UNCHANGED <<clock, now>>
    BY <1>5 DEF Claim, Reject
  <2>2. horizon' = horizon \/ horizon' = Store!Guard!Later(horizon, Unix(now[r]))
    BY <1>5 DEF Claim, Store!Grant, Store!Refuse, storeVars
  <2>3. horizon' \in Int /\ Instant(horizon') <= clock
    BY <1>2, <2>2, ClaimKeepsHorizon
  <2> QED
    BY <2>1, <2>3 DEF ClockInv, Instant
<1>6. CASE \E r \in Requests :
             \/ \E c \in Commands : Receive(r, c)
             \/ \E status \in {400, 405, 413} : Turn(r, status)
             \/ Notify(r) \/ Respond(r) \/ WriteFails(r) \/ Spawn(r) \/ Execute(r)
  <2>1. UNCHANGED <<now, clock, horizon>>
    BY <1>6 DEF Receive, Turn, Notify, Respond, WriteFails, Spawn, Execute, storeVars, handlerVars
  <2> QED
    BY <1>3, <2>1
<1>7. CASE Start
  <2>1. UNCHANGED <<clock, now>> /\ horizon' = 0
    BY <1>7 DEF Start, Store!NewStore, handlerVars
  <2>2. Instant(0) = 0 /\ 0 <= clock
    BY PolicyAssumption, SentinelAssumption DEF Instant, ProcessInv, ControlTyped
  <2> QED
    BY <2>1, <2>2 DEF ClockInv, Instant
<1>8. CASE BeginShutdown \/ Drained \/ DrainTimeout \/ Crash \/ Wake
  <2>1. UNCHANGED <<now, clock, horizon>>
    BY <1>8 DEF BeginShutdown, Drained, DrainTimeout, Crash, Stop, Wake, storeVars, handlerVars
  <2> QED
    BY <1>3, <2>1
<1>9. CASE Tick
  <2>1. UNCHANGED <<now, horizon>> /\ clock' = clock + 1
    BY <1>9 DEF Tick, storeVars, handlerVars
  <2>2. \A r \in Requests : now[r] <= clock + 1
    BY <1>1 DEF ClockInv
  <2>3. Instant(horizon) <= clock + 1
    BY <1>1, <1>2
  <2> QED
    BY <1>2, <2>1, <2>2, <2>3 DEF ClockInv, Instant
<1>10. CASE Resync
  BY <1>10 DEF Resync
<1>11. CASE UNCHANGED vars
  BY <1>3, <1>11 DEF vars, storeVars, handlerVars
<1> QED
  BY <1>4, <1>5, <1>6, <1>7, <1>8, <1>9, <1>10, <1>11 DEF Next, Handle

\* A request becomes an accepted one by a claim the store grants.
LEMMA AcceptedByGrant ==
  ASSUME ProcessInv, [Next]_vars, NEW r \in accepted' \ accepted
  PROVE  r \in Requests /\ Claim(r) /\ Store!Grant(ClaimOf(r), Unix(now[r]))
<1>1. ASSUME NEW q \in Requests, Claim(q)
      PROVE  r = q /\ Store!Grant(ClaimOf(r), Unix(now[r]))
  BY <1>1 DEF Claim, Reject
<1>2. ASSUME NEW q \in Requests,
             \/ \E c \in Commands : Receive(q, c)
             \/ \E status \in {400, 405, 413} : Turn(q, status)
             \/ Accept(q) \/ Notify(q) \/ Respond(q) \/ WriteFails(q) \/ Spawn(q) \/ Execute(q)
      PROVE  FALSE
  <2>1. accepted' = accepted
    BY <1>2 DEF Receive, Turn, Accept, Reject, Notify, Respond, WriteFails, Spawn,
       Execute, handlerVars
  <2> QED
    BY <2>1
<1>3. CASE Start \/ BeginShutdown \/ Drained \/ DrainTimeout \/ Crash
           \/ Wake \/ Tick \/ Resync \/ UNCHANGED vars
  <2>1. accepted' = accepted
    BY <1>3 DEF Start, BeginShutdown, Drained, DrainTimeout, Crash, Stop, Wake, Tick,
       Resync, vars, handlerVars
  <2> QED
    BY <2>1
<1> QED
  BY <1>1, <1>2, <1>3 DEF Next, Handle

\* A grant is made past the end, by the horizon, of every clashing one.
LEMMA GrantedPastEnd ==
  ASSUME ProcessInv, StoreOK, NEW r \in Requests, Claim(r),
         Store!Grant(ClaimOf(r), Unix(now[r])),
         NEW g \in grants, Store!Guard!Clash(g, ClaimOf(r))
  PROVE  g.until <= horizon'
<1>1. ClaimOf(r) \in Store!Guard!Claims /\ Unix(now[r]) \in Seconds
  BY HandlerClaims DEF Claim, At
<1>2. Unix(now[r]) \in Int /\ horizon \in Int /\ g.until \in Int
  <2>1. g.until \in {ReplayUntil(c) : c \in Commands}
    BY DEF StoreOK, Store!TypeOK, Store!Guard!Claims
  <2>2. g.until \in Int
    BY <2>1, StoreAssumptionHolds
  <2>3. horizon \in {0} \cup Seconds
    BY DEF StoreOK, Store!TypeOK
  <2>4. horizon \in Int
    BY <2>3, StoreAssumptionHolds
  <2> QED
    BY <1>1, <2>2, <2>4, StoreAssumptionHolds
<1>3. horizon' = Store!Guard!Later(horizon, Unix(now[r]))
  BY DEF Store!Grant
<1>4. CASE g.until <= horizon
  BY <1>2, <1>3, <1>4 DEF Store!Guard!Later
<1>5. CASE g.until > horizon
  <2>1. PICK k \in Store!KeysOf(g) : k \in Store!KeysOf(ClaimOf(r))
    BY DEF Store!Guard!Clash, Store!KeysOf
  <2>2. k \in DOMAIN entries /\ entries[k] = g.until
    BY <1>5, <2>1 DEF StoreOK, Store!EntriesMatchGrants, Store!GrantsRemembered
  <2>3. ~ (entries[k] > Unix(now[r]))
    BY <2>1, <2>2 DEF Store!Grant, Store!Live
  <2> QED
    BY <1>2, <1>3, <2>2, <2>3 DEF Store!Guard!Later
<1> QED
  BY <1>2, <1>4, <1>5

(***************************************************************************)
(* If the clock is never set, no command is accepted while a clashing one, *)
(* accepted since the process started, is open by the clock on the wall    *)
(* (service.go, Accept; store.go, Claim).                                  *)
(***************************************************************************)
THEOREM SentinelRefusesRepeats == ~ ClockSteps => (Spec => RepeatRefusedWhileOpen)
<1> SUFFICES ASSUME ~ ClockSteps PROVE Spec => RepeatRefusedWhileOpen
  OBVIOUS
<1>1. Init => ClockInv
  BY PolicyAssumption DEF Init, Store!Init, ClockInv, Instant
<1>2. ProcessInv /\ ClockInv /\ [Next]_vars => ClockInv'
  BY ClockStep
<1>3. ProcessInv /\ ClockInv /\ StoreOK /\ [Next]_vars
      => [\A r \in accepted' \ accepted, s \in accepted :
            ClaimOf(s) \in grants /\ Store!Guard!Clash(ClaimOf(s), ClaimOf(r))
              => clock >= Instant(cmd[s].expiresAt + ClockSkew)]_vars
  <2> SUFFICES ASSUME ProcessInv, ClockInv, StoreOK, [Next]_vars,
                      NEW r \in accepted' \ accepted, NEW s \in accepted,
                      ClaimOf(s) \in grants,
                      Store!Guard!Clash(ClaimOf(s), ClaimOf(r))
               PROVE  clock >= Instant(cmd[s].expiresAt + ClockSkew)
    OBVIOUS
  <2>1. r \in Requests /\ Claim(r) /\ Store!Grant(ClaimOf(r), Unix(now[r]))
    BY AcceptedByGrant
  <2>2. ClaimOf(s).until <= horizon'
    BY <2>1, GrantedPastEnd
  <2>3. horizon' \in Int /\ Instant(horizon') <= clock
    BY <2>1, ClaimKeepsHorizon DEF Store!Grant
  <2>4. ClaimOf(s).until = cmd[s].expiresAt + ClockSkew /\ ClaimOf(s).until \in Int
    BY PolicyAssumption, SentinelAssumption
       DEF ClaimOf, ReplayUntil, ProcessInv, ControlTyped, HandlersKnow
  <2>5. clock \in Int
    BY SentinelAssumption DEF ProcessInv, ControlTyped
  <2>6. /\ Instant(ClaimOf(s).until) \in Int /\ Instant(horizon') \in Int
        /\ Instant(ClaimOf(s).until) <= Instant(horizon')
    BY <2>2, <2>3, <2>4, InstantMonotone
  <2> QED
    BY <2>3, <2>4, <2>5, <2>6
<1> QED
  BY <1>1, <1>2, <1>3, ProcessInvHolds, StoreOKHolds, PTL DEF Spec, RepeatRefusedWhileOpen
=============================================================================
