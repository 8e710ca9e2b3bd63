---------------------------- MODULE RemoteControl ----------------------------
(***************************************************************************)
(* The whole path: Siri's orders, Relay, the network and Sentinel.  Relay  *)
(* (module Relay) and Sentinel (module Sentinel) run side by side; each    *)
(* order leads to at most one request to Sentinel, which arrives late, or  *)
(* never, and whose response may be lost.  The two clocks differ by a      *)
(* fixed offset.                                                           *)
(***************************************************************************)
EXTENDS Sentinel

CONSTANTS
  Bodies, NoBody, Validity, PrivateKey,   \* see module Relay
  Offsets                                 \* Relay's clock minus Sentinel's, in ticks

\* config.Load: VALIDITY_SECONDS is at most the five minutes Sentinel allows;
\* the clocks are as close as Sentinel's skew allows.
ASSUME PathAssumption ==
  /\ Validity \in 1..MaxValidity
  /\ Offsets \subseteq -Instant(ClockSkew)..Instant(ClockSkew)

VARIABLES rpc, order, sent, wire, back, answer,
  offset,   \* the difference of the two clocks
  built     \* Sentinel's clock when each command was built (history)

Relay == INSTANCE Relay WITH Orders <- Requests, relayClock <- clock + offset

\* The commands Sentinel may get include those Relay can build, and RandomID
\* and RandomNonce draw no empty text.
ASSUME CommandsAssumption ==
  /\ \A o \in Requests, body \in Bodies, t \in 0..MaxClock, d \in Offsets :
       Relay!Allowed(body) => Relay!Build(o, body, t + d) \in Commands
  /\ Absent \notin Requests

relayVars == <<rpc, order, sent, wire, back, answer>>
allVars == <<vars, relayVars, offset, built>>

RelayInit ==
  /\ Relay!Init
  /\ offset \in Offsets
  /\ built = [o \in Requests |-> 0]

PathInit == Init /\ RelayInit

\* Relay's own steps, and its callers'.
RelayStep(o) ==
  /\ UNCHANGED <<vars, offset>>
  /\ \/ \E body \in Bodies : Relay!Receive(o, body)
     \/ \E status \in {405, 401, 400, 413} : Relay!Turn(o, status)
     \/ Relay!Handle(o)
  /\ built' = IF sent'[o] # sent[o] THEN [built EXCEPT ![o] = clock] ELSE built

RelayStop == UNCHANGED <<vars, offset, built>> /\ Relay!Stop

\* The posted command reaches Sentinel's handler.
Arrive(o) == Receive(o, sent[o]) /\ UNCHANGED <<offset, built>> /\ Relay!Arrive(o)

\* What Sentinel's handler has answered reaches Relay.
Return(o) ==
  /\ reply[o] # 0
  /\ UNCHANGED <<vars, offset, built>>
  /\ Relay!Return(o, reply[o])

Lose(o) == UNCHANGED <<vars, offset, built>> /\ Relay!Lose(o)

\* Sentinel, its PC and its clock.
SentinelStep ==
  /\ \/ \E r \in Requests : Handle(r) \/ Execute(r)
     \/ Start \/ BeginShutdown \/ Drained \/ DrainTimeout \/ Crash
     \/ Wake \/ Tick
  /\ UNCHANGED <<relayVars, offset, built>>

PathNext ==
  \/ \E o \in Requests : RelayStep(o) \/ Arrive(o) \/ Return(o) \/ Lose(o)
  \/ RelayStop
  \/ SentinelStep

PathSpec == PathInit /\ [][PathNext]_allVars

\* Relay's handlers run, and its HTTP client's time-out ends every wait.
FairPathSpec ==
  PathSpec /\ \A o \in Requests : WF_allVars(RelayStep(o) /\ Relay!Handle(o))

-----------------------------------------------------------------------------
\* The types of the variables this module adds.
PathTypeOK ==
  /\ rpc \in [Requests -> {"new", "create", "waiting", "done", "dead"}]
  /\ order \in [Requests -> Bodies \cup {NoBody}]
  /\ sent \in [Requests -> Commands \cup {NoCommand}]
  /\ wire \in [Requests -> {"idle", "sent", "arrived", "returned", "lost"}]
  /\ back \in [Requests -> {0, 202, 400, 401, 403, 409, 422}]
  /\ answer \in [Requests -> {0, 202, 400, 401, 405, 413, 500, 502}]
  /\ offset \in Offsets

(***************************************************************************)
(* Siri is told 202 only of an order Sentinel accepted and acknowledged,   *)
(* and of its own command; an order Relay refused never reaches Sentinel   *)
(* (relay handler.go, create; transport/sentinel.go, Deliver).             *)
(***************************************************************************)
AcceptedAnswerIsTrue ==
  \A o \in Requests :
    /\ answer[o] = 202 => o \in accepted /\ reply[o] = 202 /\ cmd[o].commandId = o
    /\ answer[o] \in {400, 401, 405, 413, 500} => pc[o] = "new"

(***************************************************************************)
(* With clocks no further apart than the skew, the first answer Sentinel   *)
(* gives to a command of Relay's refuses it only for the time it took or   *)
(* for a caller that has gone: never as wrongly built, signed or addressed,*)
(* as a repetition or as not yet valid, and as expired only when all of    *)
(* the validity but its last, truncated second has passed since it was     *)
(* built (relay command.go, Build; policy.go, Validate).                   *)
(***************************************************************************)
RejectedOnlyIfLate ==
  [][\A o \in Requests :
       reply'[o] \notin {reply[o], 202}
         => /\ Validate(cmd[o], clock) \in {"ok", "ErrExpiredCommand"}
            /\ reply'[o] \in {400, 403}
            /\ Validate(cmd[o], clock) = "ErrExpiredCommand"
                 => clock - built[o] > Instant(Validity - 1)]_allVars

(***************************************************************************)
(* Every order Relay took up is answered, whatever becomes of Sentinel and *)
(* of the network, unless Relay itself ends (transport/sentinel.go,        *)
(* NewClient: the time-out).                                               *)
(***************************************************************************)
EveryOrderAnswered ==
  \A o \in Requests :
    rpc[o] = "create" ~> answer[o] # 0 \/ rpc[o] = "dead"

(***************************************************************************)
(* The path keeps the promise of module RemoteOrder, whatever is lost,     *)
(* late or restarted on the way: in particular an order Siri was told is   *)
(* refused is never taken afterwards, one that timed out (502) is tried at *)
(* most once, and no restart tries one again (relay handler.go, create;    *)
(* sentinel handler.go, command and execute).                              *)
(***************************************************************************)
Promise == INSTANCE RemoteOrder WITH
  Orders <- Requests,
  acked <- {o \in Requests : reply[o] = 202},
  tried <- {o \in Requests : task[o] \in {"done", "failed"}},
  told <- answer

OrderSpec == Promise!Spec
=============================================================================
