------------------------- MODULE RemoteControlProofs -------------------------
(***************************************************************************)
(* What the whole path guarantees for any orders, bodies, clocks and       *)
(* restarts: its types, that Siri is told the truth, that it keeps the     *)
(* promise of RemoteOrder, and that Sentinel refuses what Relay built only *)
(* for coming late.  On the way: Sentinel, met only by Relay's posts, is   *)
(* the Sentinel of module Sentinel, so that all proved of that one holds.  *)
(***************************************************************************)
EXTENDS RemoteControl, SentinelProofs

Posted(o) == wire[o] # "idle"

\* What Relay's handler has done at each of its points (relay handler.go, create).
RelayKnows(o) ==
  /\ Posted(o) <=> sent[o] # NoCommand
  /\ rpc[o] \in {"new", "create"} => ~ Posted(o)
  /\ rpc[o] = "waiting" => Posted(o)
  /\ rpc[o] # "done" => answer[o] = 0
  /\ rpc[o] = "create" => order[o] \in Bodies
  /\ answer[o] \in {400, 401, 405, 413, 500} => ~ Posted(o)
  /\ answer[o] = 202 => back[o] = 202
  /\ back[o] # 0 => wire[o] = "returned"

\* What was posted is what Build makes of the order, at the time noted.
CommandKnows(o) ==
  Posted(o) =>
    /\ order[o] \in Bodies /\ Relay!Allowed(order[o])
    /\ sent[o] = Relay!Build(o, order[o], built[o] + offset)
    /\ built[o] <= clock

\* Sentinel's handler has Relay's command, once that has arrived, or none.
HandlerKnows(o) ==
  /\ wire[o] \in {"idle", "sent"} => pc[o] = "new"
  /\ pc[o] # "new" => cmd[o] = sent[o]
  /\ reply[o] \notin {405, 413}

JourneyInv ==
  /\ PathTypeOK
  /\ built \in [Requests -> 0..MaxClock]
  /\ \A o \in Requests : RelayKnows(o) /\ CommandKnows(o) /\ HandlerKnows(o)

\* The status that came back is the one Sentinel's handler answered.
BackIsReply == \A o \in Requests : back[o] # 0 => back[o] = reply[o]

-----------------------------------------------------------------------------
\* Nothing was ordered yet.
LEMMA JourneyInvInit == PathInit => JourneyInv
  BY SentinelAssumption
     DEF PathInit, RelayInit, Relay!Init, Init, JourneyInv, PathTypeOK, RelayKnows,
         CommandKnows, HandlerKnows, Posted

\* A step that leaves an order where it is, on both sides.
SameJourney(o) ==
  /\ UNCHANGED <<rpc[o], order[o], sent[o], wire[o], back[o], answer[o], built[o]>>
  /\ UNCHANGED <<pc[o], cmd[o], reply[o], offset>>

\* An order no step is about keeps what is known of it.
LEMMA OthersKeepJourney ==
  ASSUME NEW o \in Requests, RelayKnows(o), CommandKnows(o), HandlerKnows(o),
         SameJourney(o), clock \in Int, clock' \in Int, clock <= clock',
         built[o] \in Int
  PROVE  RelayKnows(o)' /\ CommandKnows(o)' /\ HandlerKnows(o)'
<1>1. RelayKnows(o)'
  BY DEF SameJourney, RelayKnows, Posted
<1>2. CommandKnows(o)'
  BY DEF SameJourney, CommandKnows, Posted
<1>3. HandlerKnows(o)'
  BY DEF SameJourney, HandlerKnows
<1> QED
  BY <1>1, <1>2, <1>3

\* A step that only answers an order keeps it, if the answer is one its
\* handler may give (relay handler.go, writeStatus).
LEMMA AnswerKeepsJourney ==
  ASSUME JourneyInv, NEW q \in Requests,
         NEW status \in {202, 400, 401, 405, 413, 500, 502},
         status \in {400, 401, 405, 413, 500} => ~ Posted(q),
         status = 202 => back[q] = 202,
         Relay!Answer(q, status),
         UNCHANGED <<vars, order, sent, wire, back, offset, built>>
  PROVE  JourneyInv'
<1> USE DEF JourneyInv
<1>1. PathTypeOK' /\ built' \in [Requests -> 0..MaxClock]
  BY DEF PathTypeOK, Relay!Answer, vars, handlerVars
<1>2. ASSUME NEW o \in Requests, o # q
      PROVE  RelayKnows(o)' /\ CommandKnows(o)' /\ HandlerKnows(o)'
  BY <1>2 DEF PathTypeOK, Relay!Answer, vars, handlerVars, RelayKnows, CommandKnows,
     HandlerKnows, Posted
<1>3. RelayKnows(q)' /\ CommandKnows(q)' /\ HandlerKnows(q)'
  BY DEF PathTypeOK, Relay!Answer, vars, handlerVars, RelayKnows, CommandKnows,
     HandlerKnows, Posted
<1> QED
  BY <1>1, <1>2, <1>3

\* A command is built and posted (relay command.go, Build; transport/sentinel.go).
LEMMA CreateKeepsJourney ==
  ASSUME JourneyInv, ProcessInv, NEW q \in Requests, RelayStep(q), Relay!Create(q)
  PROVE  JourneyInv'
<1> USE DEF JourneyInv
<1> DEFINE c == Relay!Build(q, order[q], clock + offset)
<1>1. clock \in 0..MaxClock /\ offset \in Offsets /\ clock \in Int
  BY SentinelAssumption DEF ProcessInv, ControlTyped, PathTypeOK
<1>2. c \in Commands /\ Relay!Allowed(order[q]) /\ order[q] \in Bodies
  BY <1>1, CommandsAssumption DEF Relay!Create, RelayKnows
<1>3. sent[q] = NoCommand /\ c # NoCommand /\ pc[q] = "new" /\ answer[q] = 0 /\ back[q] = 0
  BY <1>2, SentinelAssumption DEF Relay!Create, RelayKnows, HandlerKnows, Posted
<1>4. /\ sent' = [sent EXCEPT ![q] = c]
      /\ wire' = [wire EXCEPT ![q] = "sent"]
      /\ rpc' = [rpc EXCEPT ![q] = "waiting"]
      /\ UNCHANGED <<order, back, answer, clock, offset, pc, cmd, reply>>
  BY DEF Relay!Create, RelayStep, vars, handlerVars
<1>5. sent'[q] = c /\ wire'[q] = "sent" /\ rpc'[q] = "waiting"
  BY <1>4 DEF PathTypeOK
<1>6. built' = [built EXCEPT ![q] = clock]
  BY <1>3, <1>5 DEF RelayStep
<1>7. PathTypeOK' /\ built' \in [Requests -> 0..MaxClock]
  BY <1>1, <1>2, <1>4, <1>6 DEF PathTypeOK
<1>8. ASSUME NEW o \in Requests, o # q
      PROVE  RelayKnows(o)' /\ CommandKnows(o)' /\ HandlerKnows(o)'
  <2>1. SameJourney(o) /\ built[o] \in Int
    BY <1>4, <1>6, <1>8, SentinelAssumption DEF SameJourney, PathTypeOK
  <2> QED
    BY <1>1, <1>4, <2>1, OthersKeepJourney
<1>9. RelayKnows(q)'
  BY <1>3, <1>4, <1>5 DEF RelayKnows, Posted
<1>10. CommandKnows(q)'
  <2>1. built'[q] = clock
    BY <1>6
  <2> QED
    BY <1>1, <1>2, <1>4, <1>5, <2>1 DEF CommandKnows
<1>11. HandlerKnows(q)'
  BY <1>3, <1>4 DEF HandlerKnows
<1> QED
  BY <1>7, <1>8, <1>9, <1>10, <1>11

\* Every step of Relay's handler of one order (relay handler.go, create).
LEMMA RelayKeepsJourney ==
  ASSUME JourneyInv, ProcessInv, NEW q \in Requests, RelayStep(q)
  PROVE  JourneyInv'
<1> USE DEF JourneyInv
<1>1. Relay!Create(q) \/ built' = built
  BY DEF RelayStep, Relay!Receive, Relay!Turn, Relay!Handle, Relay!Refuse,
     Relay!CreateFails, Relay!Returned, Relay!GiveUp
<1>2. ASSUME NEW body \in Bodies, Relay!Receive(q, body) PROVE JourneyInv'
  <2>1. /\ rpc[q] = "new" /\ order' = [order EXCEPT ![q] = body]
        /\ rpc' = [rpc EXCEPT ![q] = "create"]
        /\ UNCHANGED <<sent, wire, back, answer, clock, offset, pc, cmd, reply, built>>
    BY <1>2 DEF RelayStep, Relay!Receive, vars, handlerVars
  <2>2. PathTypeOK' /\ built' \in [Requests -> 0..MaxClock]
    BY <2>1 DEF PathTypeOK
  <2>3. ASSUME NEW o \in Requests
        PROVE  RelayKnows(o)' /\ CommandKnows(o)' /\ HandlerKnows(o)'
    BY <2>1 DEF PathTypeOK, RelayKnows, CommandKnows, HandlerKnows, Posted
  <2> QED
    BY <2>2, <2>3
<1>3. ASSUME NEW status \in {405, 401, 400, 413}, Relay!Turn(q, status) PROVE JourneyInv'
  <2>1. Relay!Answer(q, status) /\ UNCHANGED <<vars, order, sent, wire, back, offset, built>>
    BY <1>3 DEF RelayStep, Relay!Turn
  <2>2. ~ Posted(q)
    BY <1>3 DEF Relay!Turn, RelayKnows
  <2> QED
    BY <2>1, <2>2, AnswerKeepsJourney
<1>4. CASE Relay!Refuse(q) \/ Relay!CreateFails(q)
  <2>1. PICK status \in {400, 500} : Relay!Answer(q, status)
    BY <1>4 DEF Relay!Refuse, Relay!CreateFails
  <2>2. UNCHANGED <<vars, order, sent, wire, back, offset, built>>
    BY <1>4 DEF RelayStep, Relay!Refuse, Relay!CreateFails
  <2>3. ~ Posted(q)
    BY <1>4 DEF Relay!Refuse, Relay!CreateFails, RelayKnows
  <2> QED
    BY <2>1, <2>2, <2>3, AnswerKeepsJourney
<1>5. CASE Relay!Returned(q) \/ Relay!GiveUp(q)
  <2>1. back[q] \in 200..299 => back[q] = 202
    BY DEF PathTypeOK
  <2>2. PICK status \in {202, 502} : Relay!Answer(q, status) /\ (status = 202 => back[q] = 202)
    BY <1>5, <2>1 DEF Relay!Returned, Relay!GiveUp
  <2>3. UNCHANGED <<vars, order, sent, wire, back, offset, built>>
    BY <1>5 DEF RelayStep, Relay!Returned, Relay!GiveUp
  <2> QED
    BY <2>2, <2>3, AnswerKeepsJourney
<1> HIDE DEF JourneyInv
<1>6. CASE Relay!Create(q)
  BY <1>6, CreateKeepsJourney
<1>7. \/ \E body \in Bodies : Relay!Receive(q, body)
      \/ \E status \in {405, 401, 400, 413} : Relay!Turn(q, status)
      \/ Relay!Refuse(q) \/ Relay!CreateFails(q) \/ Relay!Create(q)
      \/ Relay!Returned(q) \/ Relay!GiveUp(q)
  BY DEF RelayStep, Relay!Handle
<1> QED
  BY <1>2, <1>3, <1>4, <1>5, <1>6, <1>7

\* The end of Relay's process, and the connection (transport/sentinel.go).
LEMMA WireKeepsJourney ==
  ASSUME JourneyInv, ProcessInv,
         RelayStop \/ \E q \in Requests : Arrive(q) \/ Return(q) \/ Lose(q)
  PROVE  JourneyInv'
<1> USE DEF JourneyInv
<1>1. CASE RelayStop
  <2>1. /\ rpc' = [o \in Requests |-> IF o \in Relay!Active THEN "dead" ELSE rpc[o]]
        /\ UNCHANGED <<order, sent, wire, back, answer, clock, offset, pc, cmd, reply, built>>
    BY <1>1 DEF RelayStop, Relay!Stop, vars, handlerVars
  <2>2. PathTypeOK' /\ built' \in [Requests -> 0..MaxClock]
    BY <2>1 DEF PathTypeOK
  <2>3. ASSUME NEW o \in Requests
        PROVE  RelayKnows(o)' /\ CommandKnows(o)' /\ HandlerKnows(o)'
    BY <2>1 DEF Relay!Active, RelayKnows, CommandKnows, HandlerKnows, Posted
  <2> QED
    BY <2>2, <2>3
<1>2. ASSUME NEW q \in Requests, Arrive(q) PROVE JourneyInv'
  <2>1. /\ wire[q] = "sent" /\ wire' = [wire EXCEPT ![q] = "arrived"]
        /\ pc[q] = "new" /\ pc' = [pc EXCEPT ![q] = "accept"]
        /\ cmd' = [cmd EXCEPT ![q] = sent[q]]
        /\ UNCHANGED <<rpc, order, sent, back, answer, clock, offset, reply, built>>
    BY <1>2 DEF Arrive, Relay!Arrive, Relay!Move, Receive, At, Goto
  <2>2. PathTypeOK' /\ built' \in [Requests -> 0..MaxClock]
    BY <2>1 DEF PathTypeOK
  <2>3. pc \in [Requests -> Labels] /\ cmd \in [Requests -> Commands \cup {NoCommand}]
    BY DEF ProcessInv, ControlTyped
  <2>4. ASSUME NEW o \in Requests
        PROVE  RelayKnows(o)' /\ CommandKnows(o)' /\ HandlerKnows(o)'
    BY <2>1, <2>3 DEF PathTypeOK, RelayKnows, CommandKnows, HandlerKnows, Posted
  <2> QED
    BY <2>2, <2>4
<1>3. ASSUME NEW q \in Requests, Return(q) PROVE JourneyInv'
  <2>1. /\ wire[q] = "arrived" /\ wire' = [wire EXCEPT ![q] = "returned"]
        /\ back' = [back EXCEPT ![q] = reply[q]]
        /\ UNCHANGED <<rpc, order, sent, answer, clock, offset, pc, cmd, reply, built>>
    BY <1>3 DEF Return, Relay!Return, Relay!Move, vars, handlerVars
  <2>2. reply[q] \in {0, 202, 400, 401, 403, 409, 422}
    BY DEF ProcessInv, ControlTyped, HandlerKnows
  <2>3. PathTypeOK' /\ built' \in [Requests -> 0..MaxClock]
    BY <2>1, <2>2 DEF PathTypeOK
  <2>4. ASSUME NEW o \in Requests
        PROVE  RelayKnows(o)' /\ CommandKnows(o)' /\ HandlerKnows(o)'
    <3>1. RelayKnows(o)'
      BY <2>1 DEF PathTypeOK, RelayKnows, Posted
    <3>2. CommandKnows(o)' /\ HandlerKnows(o)'
      BY <2>1 DEF PathTypeOK, CommandKnows, HandlerKnows, Posted
    <3> QED
      BY <3>1, <3>2
  <2> QED
    BY <2>3, <2>4
<1>4. ASSUME NEW q \in Requests, Lose(q) PROVE JourneyInv'
  <2>1. /\ wire[q] \in {"sent", "arrived"} /\ wire' = [wire EXCEPT ![q] = "lost"]
        /\ UNCHANGED <<rpc, order, sent, back, answer, clock, offset, pc, cmd, reply, built>>
    BY <1>4 DEF Lose, Relay!Lose, Relay!Move, vars, handlerVars
  <2>2. PathTypeOK' /\ built' \in [Requests -> 0..MaxClock]
    BY <2>1 DEF PathTypeOK
  <2>3. ASSUME NEW o \in Requests
        PROVE  RelayKnows(o)' /\ CommandKnows(o)' /\ HandlerKnows(o)'
    BY <2>1 DEF PathTypeOK, RelayKnows, CommandKnows, HandlerKnows, Posted
  <2> QED
    BY <2>2, <2>3
<1> QED
  BY <1>1, <1>2, <1>3, <1>4

\* Sentinel's own steps leave the commands of its handlers alone, begin none,
\* and give only the answers of command (sentinel handler.go).
LEMMA SentinelStepMoves ==
  ASSUME ProcessInv, SentinelStep
  PROVE  /\ cmd' = cmd /\ clock <= clock'
         /\ \A o \in Requests :
              /\ pc'[o] = "new" <=> pc[o] = "new"
              /\ reply'[o] \in {reply[o], 202, 400, 401, 403, 409, 422}
<1>1. clock \in Int /\ pc \in [Requests -> Labels] /\ DOMAIN reply = Requests
  BY SentinelAssumption DEF ProcessInv, ControlTyped
<1>2. ASSUME NEW r \in Requests, NEW err, Reject(r, err), pc[r] # "new"
      PROVE  /\ cmd' = cmd /\ clock' = clock
             /\ \A o \in Requests :
                  /\ pc'[o] = "new" <=> pc[o] = "new"
                  /\ reply'[o] \in {reply[o], 400, 401, 403, 409, 422}
  <2>1. StatusOf(err) \in {400, 401, 403, 409, 422}
    BY DEF StatusOf
  <2> QED
    BY <1>1, <1>2, <2>1 DEF Reject, Answer, Goto
<1>3. ASSUME NEW r \in Requests, Accept(r) \/ Claim(r)
      PROVE  /\ cmd' = cmd /\ clock' = clock
             /\ \A o \in Requests :
                  /\ pc'[o] = "new" <=> pc[o] = "new"
                  /\ reply'[o] \in {reply[o], 400, 401, 403, 409, 422}
  <2>1. pc[r] # "new"
    BY <1>3 DEF Accept, Claim, At
  <2>2. \/ \E err : Reject(r, err)
        \/ /\ Goto(r, "claim") \/ Goto(r, "notify")
           /\ UNCHANGED <<cmd, clock, reply>>
    BY <1>3 DEF Accept, Claim
  <2> QED
    BY <1>1, <1>2, <2>1, <2>2 DEF Goto
<1>4. ASSUME NEW r \in Requests, Notify(r) \/ Respond(r) \/ WriteFails(r) \/ Spawn(r) \/ Execute(r)
      PROVE  /\ cmd' = cmd /\ clock' = clock
             /\ \A o \in Requests :
                  /\ pc'[o] = "new" <=> pc[o] = "new"
                  /\ reply'[o] \in {reply[o], 202}
  BY <1>1, <1>4 DEF Notify, Respond, WriteFails, Spawn, Execute, At, Goto, Answer, handlerVars
<1>5. CASE Start \/ BeginShutdown \/ Wake \/ Tick
  BY <1>1, <1>5 DEF Start, BeginShutdown, Wake, Tick, handlerVars
<1>6. CASE Drained \/ DrainTimeout \/ Crash
  BY <1>1, <1>6 DEF Drained, DrainTimeout, Crash, Stop, Active
<1> QED
  BY <1>1, <1>3, <1>4, <1>5, <1>6 DEF SentinelStep, Handle

\* A step of Sentinel leaves every order where its journey has got to.
LEMMA SentinelKeepsJourney ==
  ASSUME JourneyInv, ProcessInv, ProcessInv', SentinelStep
  PROVE  JourneyInv'
<1>1. /\ cmd' = cmd /\ clock <= clock'
      /\ \A o \in Requests :
           /\ pc'[o] = "new" <=> pc[o] = "new"
           /\ reply'[o] \in {reply[o], 202, 400, 401, 403, 409, 422}
  BY SentinelStepMoves
<1>2. UNCHANGED <<rpc, order, sent, wire, back, answer, offset, built>>
  BY DEF SentinelStep, relayVars
<1>3. clock \in Int /\ clock' \in Int /\ \A o \in Requests : built[o] \in Int
  BY SentinelAssumption DEF JourneyInv, ProcessInv, ControlTyped
<1>4. PathTypeOK' /\ built' \in [Requests -> 0..MaxClock]
  BY <1>2 DEF JourneyInv, PathTypeOK
<1>5. ASSUME NEW o \in Requests
      PROVE  RelayKnows(o)' /\ CommandKnows(o)' /\ HandlerKnows(o)'
  <2>1. RelayKnows(o)'
    BY <1>2 DEF JourneyInv, RelayKnows, Posted
  <2>2. CommandKnows(o)'
    BY <1>1, <1>2, <1>3 DEF JourneyInv, CommandKnows, Posted
  <2>3. HandlerKnows(o)'
    BY <1>1, <1>2 DEF JourneyInv, HandlerKnows
  <2> QED
    BY <2>1, <2>2, <2>3
<1> QED
  BY <1>4, <1>5 DEF JourneyInv

(***************************************************************************)
(* Every step of the path is a step of module Sentinel, or none: what      *)
(* arrives is a command, because it was built (transport/sentinel.go).     *)
(***************************************************************************)
LEMMA PathStepIsSentinels == JourneyInv /\ [PathNext]_allVars => [Next]_vars
<1> SUFFICES ASSUME JourneyInv, [PathNext]_allVars PROVE [Next]_vars
  OBVIOUS
<1>1. ASSUME NEW o \in Requests, Arrive(o) PROVE Next
  <2>1. sent[o] \in Commands
    BY <1>1 DEF Arrive, Relay!Arrive, Relay!Move, JourneyInv, PathTypeOK, RelayKnows, Posted
  <2> QED
    BY <1>1, <2>1 DEF Arrive, Next
<1>2. CASE SentinelStep
  BY <1>2 DEF SentinelStep, Next
<1>3. CASE \E o \in Requests : RelayStep(o) \/ Return(o) \/ Lose(o)
  BY <1>3 DEF RelayStep, Return, Lose
<1>4. CASE RelayStop \/ UNCHANGED allVars
  BY <1>4 DEF RelayStop, allVars
<1> QED
  BY <1>1, <1>2, <1>3, <1>4 DEF PathNext

\* No step of the path breaks the invariant.
LEMMA JourneyInvStep ==
  JourneyInv /\ ProcessInv /\ ProcessInv' /\ [PathNext]_allVars => JourneyInv'
<1> SUFFICES ASSUME JourneyInv, ProcessInv, ProcessInv', [PathNext]_allVars PROVE JourneyInv'
  OBVIOUS
<1>1. CASE UNCHANGED allVars
  <2>1. UNCHANGED <<rpc, order, sent, wire, back, answer, offset, built, pc, cmd, reply, clock>>
    BY <1>1 DEF allVars, relayVars, vars, handlerVars
  <2> QED
    BY <2>1 DEF JourneyInv, PathTypeOK, RelayKnows, CommandKnows, HandlerKnows, Posted
<1> QED
  BY <1>1, RelayKeepsJourney, WireKeepsJourney, SentinelKeepsJourney DEF PathNext

\* It holds in every reachable state, beside that of the process.
LEMMA JourneyInvHolds == PathSpec => [](JourneyInv /\ ProcessInv)
<1>1. PathInit => JourneyInv /\ ProcessInv
  BY JourneyInvInit, ProcessInvInit DEF PathInit
<1>2. JourneyInv /\ ProcessInv /\ [PathNext]_allVars => (JourneyInv /\ ProcessInv)'
  BY PathStepIsSentinels, ProcessInvStep, JourneyInvStep
<1> QED
  BY <1>1, <1>2, PTL DEF PathSpec

(***************************************************************************)
(* Sentinel behind Relay and the network is the Sentinel of module         *)
(* Sentinel, to which any command may come in any number of requests       *)
(* (transport/sentinel.go; sentinel handler.go).                           *)
(***************************************************************************)
THEOREM PathRunsSentinel == PathSpec => Spec
<1>1. PathInit => Init
  BY DEF PathInit
<1> QED
  BY <1>1, JourneyInvHolds, PathStepIsSentinels, PTL DEF PathSpec, Spec

\* Every variable of the path keeps its type (relay handler.go, transport/sentinel.go).
THEOREM PathTyped == PathSpec => []PathTypeOK
<1>1. JourneyInv => PathTypeOK
  BY DEF JourneyInv
<1> QED
  BY <1>1, JourneyInvHolds, PTL

-----------------------------------------------------------------------------
\* What holds of Sentinel holds of the Sentinel of the path.
SentinelInv == ProcessInv /\ StoreOK /\ TruthInv

\* They hold of the Sentinel of the path, which behaves as that module does.
LEMMA SentinelInvHolds == PathSpec => []SentinelInv
<1>1. ProcessInv /\ StoreOK /\ TruthInv => SentinelInv
  BY DEF SentinelInv
<1> QED
  BY <1>1, PathRunsSentinel, ProcessInvHolds, StoreOKHolds, TruthInvHolds, PTL

(***************************************************************************)
(* A handler answers once: the only steps that answer are a rejection, by  *)
(* Accept or Claim, and Respond, at points where nothing was answered yet  *)
(* (sentinel handler.go, command).                                         *)
(***************************************************************************)
LEMMA AnswersOnce ==
  ASSUME ProcessInv, TruthInv, SentinelStep, NEW o \in Requests, reply'[o] # reply[o]
  PROVE  /\ reply[o] = 0
         /\ \/ (Accept(o) \/ Claim(o)) /\ \E err : Reject(o, err)
            \/ Respond(o)
<1>1. DOMAIN reply = Requests
  BY DEF ProcessInv, ControlTyped
<1>2. PICK r \in Requests : Handle(r)
  <2>1. CASE \E r \in Requests : Execute(r)
    BY <2>1 DEF Execute, handlerVars
  <2>2. CASE Start \/ BeginShutdown \/ Drained \/ DrainTimeout \/ Crash \/ Wake \/ Tick
    BY <2>2 DEF Start, BeginShutdown, Drained, DrainTimeout, Crash, Stop, Wake, Tick, handlerVars
  <2> QED
    BY <2>1, <2>2 DEF SentinelStep
<1>3. CASE Accept(r) \/ Claim(r)
  <2>1. PICK err : Reject(r, err)
    BY <1>3 DEF Accept, Claim
  <2>2. r = o
    BY <1>1, <2>1 DEF Reject, Answer
  <2>3. reply[o] = 0
    BY <1>3, <2>2 DEF TruthInv, Progress, Accept, Claim, At
  <2> QED
    BY <1>3, <2>1, <2>2, <2>3
<1>4. CASE Respond(r)
  <2>1. r = o
    BY <1>1, <1>4 DEF Respond, Answer
  <2> QED
    BY <1>4, <2>1 DEF TruthInv, Progress, Respond, At
<1>5. CASE Notify(r) \/ WriteFails(r) \/ Spawn(r)
  BY <1>5 DEF Notify, WriteFails, Spawn
<1> QED
  BY <1>2, <1>3, <1>4, <1>5 DEF Handle

\* Sentinel answers once, so the response under way stays what it wrote.
LEMMA BackIsReplyStep ==
  JourneyInv /\ SentinelInv /\ BackIsReply /\ [PathNext]_allVars => BackIsReply'
<1> SUFFICES ASSUME JourneyInv, SentinelInv, BackIsReply, [PathNext]_allVars,
                    NEW o \in Requests, back'[o] # 0
             PROVE  back'[o] = reply'[o]
  BY DEF BackIsReply
<1>1. CASE SentinelStep
  <2>1. back'[o] = back[o] /\ reply[o] # 0
    BY <1>1 DEF BackIsReply, SentinelStep, relayVars
  <2>2. reply'[o] = reply[o]
    BY <1>1, <2>1, AnswersOnce DEF SentinelInv
  <2> QED
    BY <2>1, <2>2 DEF BackIsReply
<1>2. ASSUME NEW q \in Requests, Return(q) PROVE back'[o] = reply'[o]
  <2>1. back' = [back EXCEPT ![q] = reply[q]] /\ reply' = reply
    BY <1>2 DEF Return, Relay!Return, vars, handlerVars
  <2> QED
    BY <2>1 DEF BackIsReply, JourneyInv, PathTypeOK
<1>3. CASE \/ \E q \in Requests : RelayStep(q) \/ Arrive(q) \/ Lose(q)
           \/ RelayStop \/ UNCHANGED allVars
  <2>1. back' = back /\ reply' = reply
    BY <1>3 DEF RelayStep, Relay!Receive, Relay!Turn, Relay!Handle, Relay!Refuse,
       Relay!CreateFails, Relay!Create, Relay!Returned, Relay!GiveUp, Arrive, Relay!Arrive,
       Receive, Lose, Relay!Lose, RelayStop, Relay!Stop, allVars, relayVars, vars, handlerVars
  <2> QED
    BY <2>1 DEF BackIsReply
<1> QED
  BY <1>1, <1>2, <1>3 DEF PathNext

\* The response on its way back is always the one Sentinel wrote.
LEMMA BackIsReplyHolds == PathSpec => []BackIsReply
<1>1. PathInit => BackIsReply
  BY DEF PathInit, RelayInit, Relay!Init, BackIsReply
<1> QED
  BY <1>1, BackIsReplyStep, JourneyInvHolds, SentinelInvHolds, PTL DEF PathSpec

\* Whatever reached Sentinel bears the order's own id and nonce (command.go, Build).
LEMMA OwnCommand ==
  ASSUME JourneyInv, NEW o \in Requests, pc[o] # "new"
  PROVE  cmd[o] = sent[o] /\ cmd[o].commandId = o /\ cmd[o].nonce = o
<1>1. cmd[o] = sent[o] /\ Posted(o)
  BY DEF JourneyInv, HandlerKnows, Posted
<1>2. sent[o] = Relay!Build(o, order[o], built[o] + offset)
  BY <1>1 DEF JourneyInv, CommandKnows
<1> QED
  BY <1>1, <1>2 DEF Relay!Build

(***************************************************************************)
(* Siri is told 202 only of an order that Sentinel accepted and            *)
(* acknowledged, under its own id, and one that Relay refused never        *)
(* reached Sentinel (relay handler.go, create; transport/sentinel.go).     *)
(***************************************************************************)
THEOREM PathAnswersTruly == PathSpec => []AcceptedAnswerIsTrue
<1>1. JourneyInv /\ SentinelInv /\ BackIsReply => AcceptedAnswerIsTrue
  <2> SUFFICES ASSUME JourneyInv, SentinelInv, BackIsReply, NEW o \in Requests
               PROVE  /\ answer[o] = 202 => o \in accepted /\ reply[o] = 202 /\ cmd[o].commandId = o
                      /\ answer[o] \in {400, 401, 405, 413, 500} => pc[o] = "new"
    BY DEF AcceptedAnswerIsTrue
  <2>1. ASSUME answer[o] = 202
        PROVE  o \in accepted /\ reply[o] = 202 /\ cmd[o].commandId = o
    <3>1. reply[o] = 202
      BY <2>1 DEF JourneyInv, RelayKnows, BackIsReply
    <3>2. o \in accepted /\ pc[o] # "new"
      BY <3>1 DEF SentinelInv, TruthInv, Truth, Progress
    <3> QED
      BY <3>1, <3>2, OwnCommand
  <2>2. ASSUME answer[o] \in {400, 401, 405, 413, 500} PROVE pc[o] = "new"
    BY <2>2 DEF JourneyInv, RelayKnows, HandlerKnows, Posted
  <2> QED
    BY <2>1, <2>2
<1> QED
  BY <1>1, JourneyInvHolds, SentinelInvHolds, BackIsReplyHolds, PTL

-----------------------------------------------------------------------------
(***************************************************************************)
(* The promise, step by step.  A step of which the promise says nothing    *)
(* leaves accepted, replies, tasks, answers and the PC alone.              *)
(***************************************************************************)
Tried == {o \in Requests : task[o] \in {"done", "failed"}}
Acked == {o \in Requests : reply[o] = 202}

\* A step that changes nothing of what the promise is about.
LEMMA NothingPromised ==
  ASSUME UNCHANGED <<accepted, Acked, Tried, answer, power>>
  PROVE  UNCHANGED Promise!orderVars
  BY DEF Acked, Tried, Promise!orderVars

\* An answer of Relay's is something Siri may be told.
LEMMA AnswerIsTold ==
  ASSUME JourneyInv, SentinelInv, BackIsReply, NEW q \in Requests,
         NEW status \in {202, 400, 401, 405, 413, 500, 502},
         answer[q] = 0, UNCHANGED vars, Relay!Answer(q, status),
         status \in {400, 401, 405, 413, 500} => ~ Posted(q),
         status = 202 => back[q] = 202
  PROVE  Promise!Next
<1>1. status = 202 => q \in Acked
  BY DEF BackIsReply, Acked
<1>2. status \in Promise!Refusals => q \notin accepted
  <2> SUFFICES ASSUME status \in {400, 401, 405, 413, 500} PROVE q \notin accepted
    BY DEF Promise!Refusals
  <2>1. pc[q] = "new"
    BY DEF JourneyInv, HandlerKnows, Posted
  <2> QED
    BY <2>1 DEF SentinelInv, ProcessInv, HandlersKnow
<1>3. UNCHANGED <<accepted, power, reply, task>>
  BY DEF vars, handlerVars
<1>4. Promise!Tell(q, status)
  BY <1>1, <1>2, <1>3 DEF Relay!Answer, Promise!Tell, Acked
<1>5. status \in Promise!Refusals \cup {202, 502}
  BY DEF Promise!Refusals
<1> QED
  BY <1>4, <1>5 DEF Promise!Next

\* A step of Relay turns an order away, tells Siri, or promises nothing
\* (relay handler.go, create).
LEMMA RelayKeepsPromise ==
  ASSUME JourneyInv, SentinelInv, BackIsReply, NEW q \in Requests, RelayStep(q)
  PROVE  [Promise!Next]_(Promise!orderVars)
<1>1. UNCHANGED vars
  BY DEF RelayStep
<1>2. ASSUME NEW status \in {405, 401, 400, 413}, Relay!Turn(q, status) PROVE Promise!Next
  <2>1. answer[q] = 0 /\ ~ Posted(q)
    BY <1>2 DEF Relay!Turn, JourneyInv, RelayKnows
  <2> QED
    BY <1>1, <1>2, <2>1, AnswerIsTold DEF Relay!Turn
<1>3. CASE Relay!Refuse(q) \/ Relay!CreateFails(q)
  <2>1. answer[q] = 0 /\ ~ Posted(q)
    BY <1>3 DEF Relay!Refuse, Relay!CreateFails, JourneyInv, RelayKnows
  <2> QED
    BY <1>1, <1>3, <2>1, AnswerIsTold DEF Relay!Refuse, Relay!CreateFails
<1>4. CASE Relay!Returned(q) \/ Relay!GiveUp(q)
  <2>1. answer[q] = 0 /\ (back[q] \in 200..299 => back[q] = 202)
    BY <1>4 DEF Relay!Returned, Relay!GiveUp, JourneyInv, RelayKnows, PathTypeOK
  <2> QED
    BY <1>1, <1>4, <2>1, AnswerIsTold DEF Relay!Returned, Relay!GiveUp
<1>5. CASE Relay!Create(q) \/ \E body \in Bodies : Relay!Receive(q, body)
  <2>1. UNCHANGED <<accepted, reply, task, answer, power>>
    BY <1>1, <1>5 DEF Relay!Create, Relay!Receive, vars, handlerVars
  <2> QED
    BY <2>1, NothingPromised DEF Acked, Tried
<1> QED
  BY <1>2, <1>3, <1>4, <1>5 DEF RelayStep, Relay!Handle

\* A rejection is no acknowledgement.
LEMMA RejectionPromisesNothing ==
  ASSUME SentinelInv, NEW r \in Requests, NEW err, Reject(r, err),
         pc[r] \in {"accept", "claim"}, UNCHANGED answer
  PROVE  UNCHANGED Promise!orderVars
<1>1. DOMAIN reply = Requests /\ reply[r] = 0
  BY DEF SentinelInv, ProcessInv, ControlTyped, TruthInv, Progress
<1>2. StatusOf(err) # 202
  BY DEF StatusOf
<1>3. Acked' = Acked /\ Tried' = Tried /\ UNCHANGED <<accepted, power>>
  BY <1>1, <1>2 DEF Reject, Answer, Acked, Tried
<1> QED
  BY <1>3, NothingPromised

\* A step of Sentinel takes an order, acknowledges it, tries it, or promises
\* nothing (sentinel handler.go, service.go).
LEMMA SentinelKeepsPromise ==
  ASSUME JourneyInv, SentinelInv, SentinelStep
  PROVE  [Promise!Next]_(Promise!orderVars)
<1>1. answer' = answer
  BY DEF SentinelStep, relayVars
<1>2. ASSUME NEW r \in Requests, Accept(r) PROVE [Promise!Next]_(Promise!orderVars)
  <2>1. CASE \E err : Reject(r, err)
    BY <1>1, <1>2, <2>1, RejectionPromisesNothing DEF Accept, At
  <2>2. CASE UNCHANGED <<accepted, reply, task, power>>
    BY <1>1, <2>2, NothingPromised DEF Acked, Tried
  <2> QED
    BY <1>2, <2>1, <2>2 DEF Accept
<1>3. ASSUME NEW r \in Requests, Claim(r) PROVE [Promise!Next]_(Promise!orderVars)
  <2>1. CASE \E err : Reject(r, err)
    BY <1>1, <1>3, <2>1, RejectionPromisesNothing DEF Claim, At
  <2>2. CASE accepted' = accepted \cup {r} /\ UNCHANGED <<reply, task, power>>
    <3>1. pc[r] = "claim" /\ r \notin accepted
      BY <1>3 DEF Claim, At, SentinelInv, ProcessInv, HandlersKnow
    <3>2. answer[r] \notin Promise!Refusals
      BY <3>1 DEF Promise!Refusals, JourneyInv, RelayKnows, HandlerKnows, Posted
    <3>3. Promise!Accept(r)
      BY <1>1, <2>2, <3>1, <3>2 DEF Promise!Accept
    <3> QED
      BY <3>3 DEF Promise!Next
  <2> QED
    BY <1>3, <2>1, <2>2 DEF Claim
<1>4. ASSUME NEW r \in Requests, Respond(r) PROVE Promise!Next
  <2>1. pc[r] = "respond" /\ r \in accepted /\ reply[r] = 0 /\ DOMAIN reply = Requests
    BY <1>4 DEF Respond, At, SentinelInv, ProcessInv, ControlTyped, HandlersKnow, TruthInv, Progress
  <2>2. Acked' = Acked \cup {r} /\ Tried' = Tried /\ UNCHANGED <<accepted, power>>
    BY <1>4, <2>1 DEF Respond, Answer, Acked, Tried
  <2>3. Promise!Acknowledge(r)
    BY <1>1, <2>1, <2>2 DEF Promise!Acknowledge, Acked, Tried
  <2> QED
    BY <2>3 DEF Promise!Next
<1>5. ASSUME NEW r \in Requests, Notify(r) \/ WriteFails(r)
      PROVE  [Promise!Next]_(Promise!orderVars)
  <2>1. UNCHANGED <<accepted, reply, task, power>>
    BY <1>5 DEF Notify, WriteFails
  <2> QED
    BY <1>1, <2>1, NothingPromised DEF Acked, Tried
<1>6. ASSUME NEW r \in Requests, Spawn(r) PROVE [Promise!Next]_(Promise!orderVars)
  <2>1. pc[r] = "spawn" /\ task[r] = "none" /\ DOMAIN task = Requests
    BY <1>6 DEF Spawn, At, SentinelInv, ProcessInv, ControlTyped, TruthInv, Progress
  <2>2. Acked' = Acked /\ Tried' = Tried /\ UNCHANGED <<accepted, power>>
    BY <1>6, <2>1 DEF Spawn, Acked, Tried
  <2> QED
    BY <1>1, <2>2, NothingPromised
<1>7. ASSUME NEW r \in Requests, Execute(r) PROVE Promise!Next
  <2>1. task[r] = "running" /\ reply[r] = 202 /\ power = "on" /\ DOMAIN task = Requests
    BY <1>7 DEF Execute, Running, SentinelInv, ProcessInv, ControlTyped, TruthInv, Truth
  <2>2. /\ Acked' = Acked /\ Tried' = Tried \cup {r} /\ accepted' = accepted
        /\ power' \in {"on", "hibernated"}
    BY <1>7, <2>1 DEF Execute, handlerVars, Acked, Tried
  <2>3. Promise!Try(r)
    BY <1>1, <2>1, <2>2 DEF Promise!Try, Acked, Tried
  <2> QED
    BY <2>3 DEF Promise!Next
<1>8. CASE Drained \/ DrainTimeout \/ Crash
  <2>1. Acked' = Acked /\ Tried' = Tried /\ UNCHANGED <<accepted, power>>
    BY <1>8 DEF Drained, DrainTimeout, Crash, Stop, Acked, Tried
  <2> QED
    BY <1>1, <2>1, NothingPromised
<1>9. CASE Start \/ BeginShutdown \/ Tick
  <2>1. UNCHANGED <<accepted, reply, task, power>>
    BY <1>9 DEF Start, BeginShutdown, Tick, handlerVars
  <2> QED
    BY <1>1, <2>1, NothingPromised DEF Acked, Tried
<1>10. CASE Wake
  BY <1>1, <1>10 DEF Wake, handlerVars, Promise!Next, Promise!Wake
<1> QED
  BY <1>2, <1>3, <1>4, <1>5, <1>6, <1>7, <1>8, <1>9, <1>10 DEF SentinelStep, Handle

(***************************************************************************)
(* The path keeps the promise of RemoteOrder: an order Siri was told is    *)
(* refused is never taken afterwards, one taken is tried at most once and  *)
(* only after its acknowledgement, nothing else hibernates the PC, and     *)
(* Siri is told 202 of acknowledged orders only (relay handler.go, create; *)
(* sentinel handler.go, command and execute).                              *)
(***************************************************************************)
THEOREM PathKeepsPromise == PathSpec => OrderSpec
<1>1. PathInit => Promise!Init
  BY DEF PathInit, Init, RelayInit, Relay!Init, Promise!Init
<1>2. JourneyInv /\ SentinelInv /\ BackIsReply /\ [PathNext]_allVars
      => [Promise!Next]_(Promise!orderVars)
  <2> SUFFICES ASSUME JourneyInv, SentinelInv, BackIsReply, [PathNext]_allVars
               PROVE  [Promise!Next]_(Promise!orderVars)
    OBVIOUS
  <2>1. CASE \/ \E o \in Requests : Arrive(o) \/ Return(o) \/ Lose(o)
             \/ RelayStop \/ UNCHANGED allVars
    <3>1. UNCHANGED <<accepted, reply, task, answer, power>>
      BY <2>1 DEF Arrive, Receive, Relay!Arrive, Return, Relay!Return, Lose, Relay!Lose,
         Relay!Move, RelayStop, Relay!Stop, allVars, relayVars, vars, handlerVars
    <3> QED
      BY <3>1, NothingPromised DEF Acked, Tried
  <2> QED
    BY <2>1, RelayKeepsPromise, SentinelKeepsPromise DEF PathNext
<1> QED
  BY <1>1, <1>2, JourneyInvHolds, SentinelInvHolds, BackIsReplyHolds, PTL
     DEF PathSpec, OrderSpec, Promise!Spec

-----------------------------------------------------------------------------
(***************************************************************************)
(* Time.  Whole seconds and ticks add up; cutting a reading to its second  *)
(* loses less than one second (policy.go, command.go).                     *)
(***************************************************************************)
LEMMA InstantAdds ==
  ASSUME NEW m \in Int, NEW n \in Int
  PROVE  /\ Instant(m) \in Int /\ Instant(n) \in Int
         /\ Instant(m + n) = Instant(m) + Instant(n)
         /\ Instant(m - n) = Instant(m) - Instant(n)
  BY PolicyAssumption, Z3 DEF Instant

\* A reading is ahead of its second by less than one (policy.go, command.go).
LEMMA SecondLosesLessThanOne ==
  ASSUME NEW t \in Int
  PROVE  t < Instant(Unix(t)) + TicksPerSecond
  BY PolicyAssumption DEF Unix, Instant

(***************************************************************************)
(* What Relay builds for an order it allows, signed with the key of which  *)
(* Sentinel has the public half, passes every check of Sentinel's but that *)
(* of the time; and, built no later than the clock says, it fails that one *)
(* only when all of its validity but the truncated second is over          *)
(* (relay command.go, Build; sentinel policy.go, Validate).                *)
(***************************************************************************)
LEMMA BuiltFailsOnlyLate ==
  ASSUME PrivateKey = PublicKey,
         NEW o \in Requests, NEW body, Relay!Allowed(body),
         NEW b \in Int, NEW d \in Offsets, NEW t \in Int, b <= t
  PROVE  LET c == Relay!Build(o, body, b + d)
         IN  /\ Validate(c, t) \in {"ok", "ErrExpiredCommand"}
             /\ Validate(c, t) = "ErrExpiredCommand" => t - b > Instant(Validity - 1)
<1> DEFINE i == Unix(b + d)
           c == Relay!Build(o, body, b + d)
<1>1. /\ c.version = ProtocolVersion /\ c.commandId = o /\ c.nonce = o
      /\ c.deviceId = DeviceID /\ c.action = ActionHibernate
      /\ c.issuedAt = i /\ c.expiresAt = i + Validity
  BY DEF Relay!Build, Relay!Allowed, Relay!IssuedAt, Relay!Unix, Unix,
     Relay!ProtocolVersion, ProtocolVersion, Relay!ActionHibernate, ActionHibernate
<1>2. VerifyPSS(PublicKey, Canonical(c), c.signature)
  BY DEF Relay!Build, Relay!Canonical, Relay!Sign, Canonical, Sign, VerifyPSS
<1>3. /\ d \in Int /\ i \in Int /\ ClockSkew \in Int /\ Validity \in Int
      /\ -Instant(ClockSkew) <= d /\ d <= Instant(ClockSkew)
  <2>1. ClockSkew \in Int /\ Validity \in Int /\ Instant(ClockSkew) \in Int
    BY PolicyAssumption, PathAssumption, InstantAdds
  <2>2. d \in -Instant(ClockSkew)..Instant(ClockSkew)
    BY PathAssumption
  <2>3. d \in Int /\ -Instant(ClockSkew) <= d /\ d <= Instant(ClockSkew)
    BY <2>1, <2>2
  <2>4. b + d \in Int
    BY <2>3
  <2> QED
    BY <2>1, <2>3, <2>4, UnixInt
<1>4. WellFormed(c) /\ WindowValid(c)
  <2>1. WellFormed(c)
    BY <1>1, CommandsAssumption DEF WellFormed
  <2>2. 0 < Validity /\ Validity <= MaxValidity
    BY PathAssumption, PolicyAssumption
  <2> QED
    BY <1>1, <1>3, <2>1, <2>2, PolicyAssumption DEF WindowValid
<1>5. Validate(c, t) = IF Timely(c, t) THEN "ok" ELSE "ErrExpiredCommand"
  BY <1>1, <1>2, <1>4 DEF Validate
<1>6. ASSUME ~ Timely(c, t) PROVE t - b > Instant(Validity - 1)
  <2>1. /\ Instant(i) <= b + d /\ b + d < Instant(i) + TicksPerSecond
        /\ Instant(i) \in Int
    BY <1>3, InstantOfUnix, SecondLosesLessThanOne, InstantMonotone
  <2>2. /\ Instant(i - ClockSkew) = Instant(i) - Instant(ClockSkew)
        /\ Instant(i + Validity + ClockSkew)
             = Instant(i) + Instant(Validity) + Instant(ClockSkew)
        /\ Instant(Validity - 1) = Instant(Validity) - TicksPerSecond
        /\ Instant(Validity) \in Int /\ Instant(ClockSkew) \in Int
    <3>1. Instant(i - ClockSkew) = Instant(i) - Instant(ClockSkew) /\ Instant(ClockSkew) \in Int
      BY <1>3, InstantAdds
    <3>2. Instant(i + Validity + ClockSkew) = Instant(i + Validity) + Instant(ClockSkew)
      <4>1. i + Validity \in Int
        BY <1>3
      <4> QED
        BY <1>3, <4>1, InstantAdds
    <3>3. Instant(i + Validity) = Instant(i) + Instant(Validity) /\ Instant(Validity) \in Int
      BY <1>3, InstantAdds
    <3>4. Instant(Validity - 1) = Instant(Validity) - Instant(1)
      BY <1>3, InstantAdds
    <3>5. Instant(1) = TicksPerSecond
      BY PolicyAssumption DEF Instant
    <3> QED
      BY <3>1, <3>2, <3>3, <3>4, <3>5
  <2>3. t >= Instant(i - ClockSkew)
    BY <1>3, <2>1, <2>2
  <2>4. t > Instant(i + Validity + ClockSkew)
    <3>1. i + Validity + ClockSkew \in Int
      BY <1>3
    <3>2. Instant(i + Validity + ClockSkew) \in Int
      BY <3>1, InstantAdds
    <3> QED
      BY <1>1, <1>6, <2>3, <3>2 DEF Timely
  <2> QED
    BY <1>3, <2>1, <2>2, <2>4, PolicyAssumption
<1> QED
  BY <1>5, <1>6

\* No two orders clash, so Sentinel's store never refuses one (command.go,
\* RandomID and RandomNonce; sentinel store.go, Claim).
LEMMA OrdersNeverClash ==
  ASSUME JourneyInv, SentinelInv, NEW o \in Requests, pc[o] = "claim"
  PROVE  ~ Store!Refuse(ClaimOf(o), Unix(now[o]))
<1> SUFFICES ASSUME Store!Refuse(ClaimOf(o), Unix(now[o])) PROVE FALSE
  OBVIOUS
<1>1. PICK k \in Store!KeysOf(ClaimOf(o)) : k \in DOMAIN entries
  BY DEF Store!Refuse, Store!Live
<1>2. PICK g \in grants : k \in Store!KeysOf(g)
  BY <1>1 DEF SentinelInv, StoreOK, Store!EntriesMatchGrants, Store!EntriesFromGrants
<1>3. g.caller \in accepted /\ g = ClaimOf(g.caller) /\ g.caller \in Requests
  BY DEF SentinelInv, ProcessInv, ControlTyped, GrantsAreAccepted
<1>4. pc[g.caller] # "new" /\ o # g.caller
  BY <1>3 DEF SentinelInv, ProcessInv, HandlersKnow
<1>5. g.id = g.caller /\ g.nonce = g.caller
  <2>1. cmd[g.caller].commandId = g.caller /\ cmd[g.caller].nonce = g.caller
    BY <1>3, <1>4, OwnCommand
  <2> QED
    BY <1>3, <2>1 DEF ClaimOf
<1>6. ClaimOf(o).id = o /\ ClaimOf(o).nonce = o
  BY OwnCommand DEF ClaimOf
<1> QED
  BY <1>1, <1>2, <1>4, <1>5, <1>6 DEF Store!KeysOf, Store!CommandKey, Store!NonceKey

(***************************************************************************)
(* If Sentinel has the public half of Relay's key, it refuses what Relay   *)
(* built only for the time it took or for a caller that has gone, as       *)
(* expired only when its validity but the truncated second is over, and    *)
(* never as a repetition (relay command.go, Build; sentinel service.go,    *)
(* Accept).                                                                *)
(***************************************************************************)
THEOREM PathRefusesOnlyLate == PrivateKey = PublicKey => (PathSpec => RejectedOnlyIfLate)
<1> SUFFICES ASSUME PrivateKey = PublicKey PROVE PathSpec => RejectedOnlyIfLate
  OBVIOUS
<1>1. JourneyInv /\ SentinelInv /\ [PathNext]_allVars
      => [\A o \in Requests :
            reply'[o] \notin {reply[o], 202}
              => /\ Validate(cmd[o], clock) \in {"ok", "ErrExpiredCommand"}
                 /\ reply'[o] \in {400, 403}
                 /\ Validate(cmd[o], clock) = "ErrExpiredCommand"
                      => clock - built[o] > Instant(Validity - 1)]_allVars
  <2> SUFFICES ASSUME JourneyInv, SentinelInv, [PathNext]_allVars,
                      NEW o \in Requests, reply'[o] \notin {reply[o], 202}
               PROVE  /\ Validate(cmd[o], clock) \in {"ok", "ErrExpiredCommand"}
                      /\ reply'[o] \in {400, 403}
                      /\ Validate(cmd[o], clock) = "ErrExpiredCommand"
                           => clock - built[o] > Instant(Validity - 1)
    OBVIOUS
  <2>1. SentinelStep
    <3>1. CASE \/ \E q \in Requests : RelayStep(q) \/ Arrive(q) \/ Return(q) \/ Lose(q)
               \/ RelayStop \/ UNCHANGED allVars
      <4>1. reply' = reply
        BY <3>1 DEF RelayStep, Arrive, Receive, Return, Lose, RelayStop, allVars, vars, handlerVars
      <4> QED
        BY <4>1
    <3> QED
      BY <3>1 DEF PathNext
  <2>2. (Accept(o) \/ Claim(o)) /\ \E err : Reject(o, err)
    <3>1. ~ Respond(o)
      BY DEF Respond, Answer, SentinelInv, ProcessInv, ControlTyped
    <3> QED
      BY <2>1, <3>1, AnswersOnce DEF SentinelInv
  <2>3. pc[o] \in {"accept", "claim"}
    BY <2>2 DEF Accept, Claim, At
  <2>4. /\ cmd[o] = Relay!Build(o, order[o], built[o] + offset) /\ Relay!Allowed(order[o])
        /\ built[o] <= clock /\ offset \in Offsets
    <3>1. cmd[o] = sent[o] /\ Posted(o)
      BY <2>3 DEF JourneyInv, HandlerKnows, Posted
    <3> QED
      BY <3>1 DEF JourneyInv, CommandKnows, PathTypeOK
  <2>5. built[o] \in Int /\ clock \in Int
    BY SentinelAssumption DEF JourneyInv, SentinelInv, ProcessInv, ControlTyped
  <2>6. /\ Validate(cmd[o], clock) \in {"ok", "ErrExpiredCommand"}
        /\ Validate(cmd[o], clock) = "ErrExpiredCommand"
             => clock - built[o] > Instant(Validity - 1)
    BY <2>4, <2>5, BuiltFailsOnlyLate
  <2>7. PICK err \in {"context canceled", "ErrExpiredCommand"} : Reject(o, err)
    <3>1. CASE Accept(o)
      BY <2>2, <2>6, <3>1 DEF Accept
    <3>2. CASE Claim(o)
      <4>1. ~ Store!Refuse(ClaimOf(o), Unix(now[o]))
        BY <3>2, OrdersNeverClash DEF Claim, At
      <4> QED
        BY <2>2, <3>2, <4>1 DEF Claim
    <3> QED
      BY <2>2, <3>1, <3>2
  <2>8. StatusOf(err) = 400 \/ StatusOf(err) = 403
    <3>1. CASE err = "context canceled"
      BY <3>1 DEF StatusOf
    <3>2. CASE err = "ErrExpiredCommand"
      BY <3>2 DEF StatusOf
    <3> QED
      BY <3>1, <3>2
  <2>9. reply'[o] \in {400, 403}
    <3>1. DOMAIN reply = Requests
      BY DEF SentinelInv, ProcessInv, ControlTyped
    <3>2. reply' = [reply EXCEPT ![o] = StatusOf(err)]
      BY <2>7 DEF Reject, Answer
    <3>3. reply'[o] = StatusOf(err)
      BY <3>1, <3>2
    <3> QED
      BY <2>8, <3>3
  <2> QED
    BY <2>6, <2>9
<1> QED
  BY <1>1, JourneyInvHolds, SentinelInvHolds, PTL DEF PathSpec, RejectedOnlyIfLate
=============================================================================
