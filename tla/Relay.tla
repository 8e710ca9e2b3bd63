-------------------------------- MODULE Relay --------------------------------
(***************************************************************************)
(* Relay: the API a Siri shortcut calls.  Its handler                      *)
(* (relay/src/httpapi/handler.go) checks the order, builds and signs one   *)
(* command (relay/src/command/command.go), posts it to Sentinel            *)
(* (relay/src/transport/sentinel.go) and answers with the outcome.  The    *)
(* process keeps nothing between orders.                                   *)
(*                                                                         *)
(* One element of Orders is one HTTP request to Relay; it also stands for  *)
(* the id and the nonce RandomID and RandomNonce draw for it, which never  *)
(* repeat.  wire and back are the connection to Sentinel: wire says how    *)
(* far the posted command has come, back the status that came back.        *)
(***************************************************************************)
EXTENDS CommandPolicy

CONSTANTS
  Orders,       \* the requests Relay may get
  Bodies,       \* the decoded request bodies: [deviceId, action]
  NoBody,       \* nothing decoded
  NoCommand,    \* nothing built
  Validity,     \* VALIDITY_SECONDS
  PrivateKey    \* the key Relay signs with

VARIABLES
  relayClock,   \* Relay's wall clock, in ticks
  rpc,          \* where each order's handler is
  order,        \* the body it decoded
  sent,         \* the command it built
  wire,         \* "idle", "sent", "arrived", "returned" or "lost"
  back,         \* the status Sentinel returned, 0 before it does
  answer        \* the status Relay answered, 0 before it does

vars == <<relayClock, rpc, order, sent, wire, back, answer>>

Active == {o \in Orders : rpc[o] \in {"create", "waiting"}}

\* Policy.Validate.
Allowed(body) == body.deviceId = DeviceID /\ body.action = ActionHibernate

\* Mutant of IssuedAt: the second is rounded up.
IssuedAtRoundedUp(instant) == Unix(instant + TicksPerSecond - 1)

\* now.UTC().Truncate(time.Second)
IssuedAt(instant) == Unix(instant)

\* Build, at a reading of the clock.
Build(o, body, instant) ==
  LET unsigned == [version |-> ProtocolVersion, commandId |-> o,
                   deviceId |-> body.deviceId, action |-> body.action,
                   issuedAt |-> IssuedAt(instant),
                   expiresAt |-> IssuedAt(instant) + Validity,
                   nonce |-> o, signature |-> Absent]
  IN [unsigned EXCEPT !.signature = Sign(PrivateKey, Canonical(unsigned))]

-----------------------------------------------------------------------------
Init ==
  /\ rpc = [o \in Orders |-> "new"]
  /\ order = [o \in Orders |-> NoBody]
  /\ sent = [o \in Orders |-> NoCommand]
  /\ wire = [o \in Orders |-> "idle"]
  /\ back = [o \in Orders |-> 0]
  /\ answer = [o \in Orders |-> 0]

Answer(o, status) ==
  /\ answer' = [answer EXCEPT ![o] = status]
  /\ rpc' = [rpc EXCEPT ![o] = "done"]

\* An authorised POST with one JSON body.
Receive(o, body) ==
  /\ rpc[o] = "new"
  /\ order' = [order EXCEPT ![o] = body]
  /\ rpc' = [rpc EXCEPT ![o] = "create"]
  /\ UNCHANGED <<relayClock, sent, wire, back, answer>>

\* Another method, a wrong secret, a body that is not one request, or too long.
Turn(o, status) ==
  /\ rpc[o] = "new"
  /\ status \in {405, 401, 400, 413}
  /\ Answer(o, status)
  /\ UNCHANGED <<relayClock, order, sent, wire, back>>

\* Mutant of Refuse: the handler answers as Sentinel does to another action.
RefuseAsUnsupported(o) ==
  /\ rpc[o] = "create" /\ ~ Allowed(order[o])
  /\ Answer(o, 422)
  /\ UNCHANGED <<relayClock, order, sent, wire, back>>

\* Build refuses the order.
Refuse(o) ==
  /\ rpc[o] = "create" /\ ~ Allowed(order[o])
  /\ Answer(o, 400)
  /\ UNCHANGED <<relayClock, order, sent, wire, back>>

\* The client is gone before Create, or random numbers or the signer fail.
CreateFails(o) ==
  /\ rpc[o] = "create"
  /\ Answer(o, 500)
  /\ UNCHANGED <<relayClock, order, sent, wire, back>>

\* Build succeeds; SentinelClient posts the command.
Create(o) ==
  /\ rpc[o] = "create" /\ Allowed(order[o])
  /\ sent' = [sent EXCEPT ![o] = Build(o, order[o], relayClock)]
  /\ wire' = [wire EXCEPT ![o] = "sent"]
  /\ rpc' = [rpc EXCEPT ![o] = "waiting"]
  /\ UNCHANGED <<relayClock, order, back, answer>>

\* Mutant of Returned: the status is not looked at.
ReturnedAlwaysWell(o) ==
  /\ rpc[o] = "waiting" /\ wire[o] = "returned"
  /\ Answer(o, 202)
  /\ UNCHANGED <<relayClock, order, sent, wire, back>>

\* Sentinel's response: anything but a 2xx is a failed delivery.
Returned(o) ==
  /\ rpc[o] = "waiting" /\ wire[o] = "returned"
  /\ Answer(o, IF back[o] \in 200..299 THEN 202 ELSE 502)
  /\ UNCHANGED <<relayClock, order, sent, wire, back>>

\* Mutant of GiveUp: the client has no time-out.
GiveUpIfBroken(o) ==
  /\ rpc[o] = "waiting" /\ wire[o] = "lost"
  /\ Answer(o, 502)
  /\ UNCHANGED <<relayClock, order, sent, wire, back>>

\* Mutant of GiveUp: a time-out is an internal error.
GiveUpAsInternal(o) ==
  /\ rpc[o] = "waiting"
  /\ Answer(o, 500)
  /\ UNCHANGED <<relayClock, order, sent, wire, back>>

\* No connection, a broken one, the 15 s of the client, or a caller that has
\* gone: what was posted may still arrive.
GiveUp(o) ==
  /\ rpc[o] = "waiting"
  /\ Answer(o, 502)
  /\ UNCHANGED <<relayClock, order, sent, wire, back>>

Handle(o) == Refuse(o) \/ CreateFails(o) \/ Create(o) \/ Returned(o) \/ GiveUp(o)

\* The process ends, and with it every handler.
Stop ==
  /\ Active # {}
  /\ rpc' = [o \in Orders |-> IF o \in Active THEN "dead" ELSE rpc[o]]
  /\ UNCHANGED <<relayClock, order, sent, wire, back, answer>>

(***************************************************************************)
(* The connection.                                                         *)
(***************************************************************************)
Move(o, from, to) ==
  /\ wire[o] \in from
  /\ wire' = [wire EXCEPT ![o] = to]
  /\ UNCHANGED <<relayClock, rpc, order, sent, answer>>

Arrive(o) == Move(o, {"sent"}, "arrived") /\ UNCHANGED back

Return(o, status) ==
  Move(o, {"arrived"}, "returned") /\ back' = [back EXCEPT ![o] = status]

Lose(o) == Move(o, {"sent", "arrived"}, "lost") /\ UNCHANGED back
=============================================================================
