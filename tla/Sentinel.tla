------------------------------ MODULE Sentinel ------------------------------
(***************************************************************************)
(* Sentinel's process on the controlled PC: its HTTP handlers              *)
(* (sentinel/src/httpapi/handler.go), which run concurrently and go        *)
(* through Service.Accept (sentinel/src/command/service.go) to the replay  *)
(* store (module ReplayStore), the goroutine each accepted command starts  *)
(* to hibernate the PC, and the process around them, which is started,     *)
(* drained, stopped and killed (sentinel/src/app/runtime.go).              *)
(*                                                                         *)
(* One element of Requests is one HTTP request to /v1/commands; the same   *)
(* command may come in several of them.  A goroutine moves only while the  *)
(* PC is on; hibernation freezes every goroutine where it is.              *)
(***************************************************************************)
EXTENDS CommandPolicy

CONSTANTS
  Requests,     \* the requests that may arrive
  Commands,     \* the command bodies they may carry
  NoCommand,    \* no body decoded
  MaxClock,     \* bound: the last tick of the wall clock
  MaxStarts,    \* bound: how often the process is started
  ClockSteps    \* whether the wall clock may be set (time synchronisation)

\* The model's clock is bounded; windows are whole seconds.
ASSUME SentinelAssumption ==
  /\ MaxClock \in Nat
  /\ MaxStarts \in Nat
  /\ ClockSteps \in BOOLEAN
  /\ \A c \in Commands : c.issuedAt \in Int /\ c.expiresAt \in Int
  /\ NoCommand \notin Commands

VARIABLES
  clock,     \* the PC's wall clock, in ticks
  power,     \* "on" or "hibernated"
  phase,     \* the process: "down", "serving" or "draining" (Shutdown)
  starts,    \* how often it was started
  entries, grants, horizon,   \* the replay store and its history
  pc,        \* where each request's handler is
  cmd,       \* the command it decoded
  now,       \* the clock reading Accept handed to Claim
  accepted,  \* the requests for which an AcceptedCommand was made
  notice,    \* the notification shown for each request
  reply,     \* the status the handler answered, 0 before it does
  task       \* the goroutine started by `go h.execute(accepted)'

storeVars == <<entries, grants, horizon>>
handlerVars == <<pc, cmd, now, accepted, notice, reply>>
vars == <<clock, power, phase, starts, storeVars, handlerVars, task>>

\* The seconds a handler can claim at.
Seconds == {Unix(t) : t \in 0..MaxClock}

Store == INSTANCE ReplayStore
  WITH Callers <- Requests,
       Ids <- {c.commandId : c \in Commands},
       Nonces <- {c.nonce : c \in Commands},
       Untils <- {ReplayUntil(c) : c \in Commands}

\* What Accept asks the store to remember.
ClaimOf(r) ==
  [caller |-> r, id |-> cmd[r].commandId, nonce |-> cmd[r].nonce,
   until |-> ReplayUntil(cmd[r])]

\* Mutant of StatusOf: what is not listed counts as a server error.
StatusOfDefaulting500(err) ==
  CASE err = "ErrAlreadyProcessed"    -> 409
    [] err = "ErrWrongDevice"         -> 403
    [] err = "ErrUnsupportedAction"   -> 422
    [] err = "ErrExpiredCommand"      -> 403
    [] err = "ErrInvalidSignature"    -> 401
    [] OTHER                          -> 500

\* commandErrorResponse; context errors have no status of their own.
StatusOf(err) ==
  CASE err = "ErrAlreadyProcessed"    -> 409
    [] err = "ErrWrongDevice"         -> 403
    [] err = "ErrUnsupportedAction"   -> 422
    [] err = "ErrExpiredCommand"      -> 403
    [] err = "ErrInvalidSignature"    -> 401
    [] OTHER                          -> 400

Active == {r \in Requests : pc[r] \notin {"new", "done", "dead"}}

Running == power = "on" /\ phase # "down"

-----------------------------------------------------------------------------
Init ==
  /\ clock = 0 /\ power = "on" /\ phase = "down" /\ starts = 0
  /\ Store!Init
  /\ pc = [r \in Requests |-> "new"]
  /\ cmd = [r \in Requests |-> NoCommand]
  /\ now = [r \in Requests |-> 0]
  /\ accepted = {}
  /\ notice = [r \in Requests |-> "none"]
  /\ reply = [r \in Requests |-> 0]
  /\ task = [r \in Requests |-> "none"]

(***************************************************************************)
(* The handler of one request.                                             *)
(***************************************************************************)
At(r, label) == Running /\ pc[r] = label

Goto(r, label) == pc' = [pc EXCEPT ![r] = label]

Answer(r, status) == reply' = [reply EXCEPT ![r] = status]

\* The server runs a handler for a POST whose body decodes; Shutdown has
\* closed the listener.
Receive(r, c) ==
  /\ At(r, "new") /\ phase = "serving"
  /\ cmd' = [cmd EXCEPT ![r] = c]
  /\ Goto(r, "accept")
  /\ UNCHANGED <<clock, power, phase, starts, storeVars, now, accepted, notice, reply, task>>

\* A request that is no POST (405), or whose body is not one JSON command
\* (400) or too long (413); the user is told of the last two.
Turn(r, status) ==
  /\ At(r, "new") /\ phase = "serving"
  /\ Answer(r, status)
  /\ notice' = [notice EXCEPT ![r] = IF status = 405 THEN "none" ELSE "failure"]
  /\ Goto(r, "done")
  /\ UNCHANGED <<clock, power, phase, starts, storeVars, cmd, now, accepted, task>>

\* Accept returned an error: notify, then answer.
Reject(r, err) ==
  /\ notice' = [notice EXCEPT ![r] = "failure"]
  /\ Answer(r, StatusOf(err))
  /\ Goto(r, "done")
  /\ UNCHANGED <<clock, power, phase, starts, cmd, now, accepted, task>>

\* Accept reads the clock and validates; the client may be gone by then.
Accept(r) ==
  /\ At(r, "accept")
  /\ \/ Reject(r, "context canceled") /\ UNCHANGED storeVars
     \/ /\ Validate(cmd[r], clock) # "ok"
        /\ Reject(r, Validate(cmd[r], clock)) /\ UNCHANGED storeVars
     \/ /\ Validate(cmd[r], clock) = "ok"
        /\ now' = [now EXCEPT ![r] = clock]
        /\ Goto(r, "claim")
        /\ UNCHANGED <<clock, power, phase, starts, storeVars, cmd, accepted, notice, reply, task>>

\* Accept calls Claim, which looks at the context once more before it takes
\* the lock, and returns with the store's verdict.
Claim(r) ==
  /\ At(r, "claim")
  /\ \/ Reject(r, "context canceled") /\ UNCHANGED storeVars
     \/ /\ Store!Refuse(ClaimOf(r), Unix(now[r]))
        /\ Reject(r, "ErrAlreadyProcessed")
     \/ /\ Store!Grant(ClaimOf(r), Unix(now[r]))
        /\ accepted' = accepted \cup {r}
        /\ Goto(r, "notify")
        /\ UNCHANGED <<clock, power, phase, starts, cmd, now, notice, reply, task>>

\* NotifyActionExecuted, before the answer is written.
Notify(r) ==
  /\ At(r, "notify")
  /\ notice' = [notice EXCEPT ![r] = "executed"]
  /\ Goto(r, "respond")
  /\ UNCHANGED <<clock, power, phase, starts, storeVars, cmd, now, accepted, reply, task>>

\* Mutant of Respond: the handler ends without starting the goroutine.
RespondOnly(r) ==
  /\ At(r, "respond")
  /\ Answer(r, 202)
  /\ Goto(r, "done")
  /\ UNCHANGED <<clock, power, phase, starts, storeVars, cmd, now, accepted, notice, task>>

\* The 202 is encoded and flushed.
Respond(r) ==
  /\ At(r, "respond")
  /\ Answer(r, 202)
  /\ Goto(r, "spawn")
  /\ UNCHANGED <<clock, power, phase, starts, storeVars, cmd, now, accepted, notice, task>>

\* Mutant of WriteFails: the return after the logged error is missing.
WriteFailsButGoesOn(r) ==
  /\ At(r, "respond")
  /\ Goto(r, "spawn")
  /\ UNCHANGED <<clock, power, phase, starts, storeVars, cmd, now, accepted, notice, reply, task>>

\* Encode reports a write error: the handler returns, nothing is executed.
WriteFails(r) ==
  /\ At(r, "respond")
  /\ Goto(r, "done")
  /\ UNCHANGED <<clock, power, phase, starts, storeVars, cmd, now, accepted, notice, reply, task>>

\* go h.execute(accepted)
Spawn(r) ==
  /\ At(r, "spawn")
  /\ task' = [task EXCEPT ![r] = "running"]
  /\ Goto(r, "done")
  /\ UNCHANGED <<clock, power, phase, starts, storeVars, cmd, now, accepted, notice, reply>>

\* The executor runs shutdown.exe /h: it hibernates the PC, or fails (the
\* command fails, or the 30 s context ends first).
Execute(r) ==
  /\ Running /\ task[r] = "running"
  /\ \/ /\ task' = [task EXCEPT ![r] = "done"]
        /\ power' = "hibernated"
     \/ /\ task' = [task EXCEPT ![r] = "failed"]
        /\ UNCHANGED power
  /\ UNCHANGED <<clock, phase, starts, storeVars, handlerVars>>

Handle(r) ==
  Accept(r) \/ Claim(r) \/ Notify(r) \/ Respond(r) \/ WriteFails(r) \/ Spawn(r)

(***************************************************************************)
(* The process.                                                            *)
(***************************************************************************)
\* NewRuntime makes a new, empty store; Run starts serving.
Start ==
  /\ power = "on" /\ phase = "down" /\ starts < MaxStarts
  /\ phase' = "serving"
  /\ starts' = starts + 1
  /\ Store!NewStore
  /\ UNCHANGED <<clock, power, handlerVars, task>>

\* Every goroutine ends with the process.
Stop ==
  /\ phase' = "down"
  /\ pc' = [r \in Requests |-> IF r \in Active THEN "dead" ELSE pc[r]]
  /\ task' = [r \in Requests |-> IF task[r] = "running" THEN "lost" ELSE task[r]]
  /\ UNCHANGED <<clock, power, starts, storeVars, cmd, now, accepted, notice, reply>>

\* SCM's Stop, or an interrupt, cancels Run's context.
BeginShutdown ==
  /\ Running /\ phase = "serving"
  /\ phase' = "draining"
  /\ UNCHANGED <<clock, power, starts, storeVars, handlerVars, task>>

\* Shutdown returns: every handler has returned, or its 5 s are over.
Drained == Running /\ phase = "draining" /\ Active = {} /\ Stop
DrainTimeout == Running /\ phase = "draining" /\ Active # {} /\ Stop

\* ListenAndServe fails, the process is killed, or the PC loses power.
Crash == phase # "down" /\ Stop

(***************************************************************************)
(* The PC.                                                                 *)
(***************************************************************************)
Wake ==
  /\ power = "hibernated"
  /\ power' = "on"
  /\ UNCHANGED <<clock, phase, starts, storeVars, handlerVars, task>>

Tick ==
  /\ clock < MaxClock
  /\ clock' = clock + 1
  /\ UNCHANGED <<power, phase, starts, storeVars, handlerVars, task>>

\* The wall clock is set.
Resync ==
  /\ ClockSteps
  /\ clock' \in 0..MaxClock
  /\ UNCHANGED <<power, phase, starts, storeVars, handlerVars, task>>

Next ==
  \/ \E r \in Requests :
       \/ \E c \in Commands : Receive(r, c)
       \/ \E status \in {400, 405, 413} : Turn(r, status)
       \/ Handle(r)
       \/ Execute(r)
  \/ Start \/ BeginShutdown \/ Drained \/ DrainTimeout \/ Crash
  \/ Wake \/ Tick \/ Resync

Spec == Init /\ [][Next]_vars

\* The Go runtime schedules every goroutine that can run; nothing makes the
\* user wake the PC, a client send, or the process start or stop.
FairSpec ==
  /\ Spec
  /\ \A r \in Requests : WF_vars(Handle(r)) /\ WF_vars(Execute(r))

-----------------------------------------------------------------------------
\* The types of the process's state; cmd and now are set once a handler
\* has got that far.
TypeOK ==
  /\ clock \in 0..MaxClock
  /\ power \in {"on", "hibernated"}
  /\ phase \in {"down", "serving", "draining"}
  /\ starts \in 0..MaxStarts
  /\ pc \in [Requests -> {"new", "accept", "claim", "notify", "respond", "spawn", "done", "dead"}]
  /\ cmd \in [Requests -> Commands \cup {NoCommand}]
  /\ now \in [Requests -> 0..MaxClock]
  /\ accepted \subseteq Requests
  /\ notice \in [Requests -> {"none", "failure", "executed"}]
  /\ reply \in [Requests -> {0, 202, 400, 401, 403, 405, 409, 413, 422}]
  /\ task \in [Requests -> {"none", "running", "done", "failed", "lost"}]
  /\ Store!TypeOK

(***************************************************************************)
(* A command is never accepted while the window, skew included, of one     *)
(* accepted since the process started and sharing its id or nonce is open  *)
(* by the clock on the wall, however old the reading its handler claims    *)
(* with and whoever purged the store in between (service.go, Accept;       *)
(* store.go, Claim).  Holds only if the clock is never set.                *)
(***************************************************************************)
RepeatRefusedWhileOpen ==
  [][\A r \in accepted' \ accepted, s \in accepted :
       ClaimOf(s) \in grants /\ Store!Guard!Clash(ClaimOf(s), ClaimOf(r))
         => clock >= Instant(cmd[s].expiresAt + ClockSkew)]_vars

(***************************************************************************)
(* An answer, and what was done for it, agree: 202 is answered for, and    *)
(* hibernation ordered after, an accepted command only; one refused is     *)
(* never executed; 409 means that another request was accepted with that   *)
(* id or nonce; and only a command the policy approved is accepted         *)
(* (handler.go, command; service.go, AcceptedCommand).                     *)
(***************************************************************************)
AnswersTellTheTruth ==
  \A r \in Requests :
    /\ reply[r] = 202 => r \in accepted /\ notice[r] = "executed"
    /\ reply[r] \notin {0, 202} => r \notin accepted /\ notice[r] # "executed"
    /\ reply[r] = 409 =>
         \E s \in accepted : Store!Guard!Clash(ClaimOf(s), ClaimOf(r))
    /\ task[r] # "none" => reply[r] = 202
    /\ r \in accepted => Validate(cmd[r], now[r]) = "ok"

(***************************************************************************)
(* If the PC eventually stays on, a command answered with 202 is tried:    *)
(* unless the process ends first, Windows is asked to hibernate            *)
(* (handler.go, command and execute).                                      *)
(***************************************************************************)
AcknowledgedRuns ==
  <>[](power = "on") =>
    \A r \in Requests :
      reply[r] = 202 ~> pc[r] = "dead" \/ task[r] \in {"done", "failed", "lost"}
=============================================================================
