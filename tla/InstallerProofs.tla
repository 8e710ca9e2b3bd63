--------------------------- MODULE InstallerProofs ---------------------------
(***************************************************************************)
(* What the administrator's tools guarantee for any ports, .env files and  *)
(* fields: with any number of tools at work the types, and what the        *)
(* service guarantees by itself; with one of them, that the install        *)
(* button, ending well, leaves running the service it registered, with the *)
(* .env it saved.                                                          *)
(***************************************************************************)
EXTENDS Installer, ServiceHostProofs, SequenceTheorems

Names == {"stop", "awaitStopped", "start", "awaitRunning", "open", "delete", "create",
          "setRecovery", "readEnv", "checkForm", "checkChosen", "save",
          "openForm", "openChosen", "closeFirewall"}

Calls == [call : Names, ifNot : {"fail", "skip", "wait"}]

Has(calls, names) == \E i \in 1..Len(calls) : calls[i].call \in names

\* The calls after the service is registered.
Late == {"setRecovery", "openChosen", "openForm", "start", "awaitRunning"}

\* The order every operation keeps to: a request is followed by its wait,
\* that for the start comes last, and what follows the registration or the
\* opening of its port is late.
Ordered(calls) ==
  /\ \A i \in 1..Len(calls) :
       calls[i].call = "stop" => i < Len(calls) /\ calls[i + 1].call = "awaitStopped"
  /\ \A i \in 1..Len(calls) :
       calls[i].call = "start" => i + 1 = Len(calls) /\ calls[i + 1].call = "awaitRunning"
  /\ \A i, j \in 1..Len(calls) :
       calls[i].call \in {"create", "openChosen"} /\ i < j => calls[j].call \in Late

\* What goes with the calls an operation has still to make: the fields f
\* they save, probe or open, the port they open (gui_windows.go, installer.go).
Sound(calls, name, f, port) ==
  /\ calls \in Seq(Calls) /\ Ordered(calls)
  /\ Has(calls, {"checkForm", "save", "openForm"}) => f \in Forms
  /\ Has(calls, {"openForm"}) => f.port \in Ports
  /\ Has(calls, {"openChosen"}) => Has(calls, {"readEnv"}) \/ port \in Ports
  /\ name = "install" =>
       /\ Len(calls) > 0 /\ calls[Len(calls)].call = "awaitRunning"
       /\ Has(calls, {"create"}) \/ \A i \in 1..Len(calls) : calls[i].call \in Late

ToolKnows(t) == Sound(todo[t], op[t], form[t], chosen[t])

\* A service without a record has no process, and gets none.
RecordKnows ==
  /\ registered \in {"no", "yes", "deleting"}
  /\ rules \subseteq Ports
  /\ registered = "no" => state = "Stopped" /\ execute = "off"

ToolsTyped ==
  /\ todo \in [Tools -> Seq(Calls)]
  /\ DOMAIN op = Tools
  /\ chosen \in [Tools -> Ports \cup {NoPort}]
  /\ form \in [Tools -> Forms \cup {NoForm}]
  /\ shown \in [Tools -> {"no", "Stopped", "StartPending", "Running", "StopPending"}]
  /\ outcome \in [Tools -> {"none", "ok", "failed"}]

InstallerInv ==
  HostInv /\ ToolsTyped /\ RecordKnows /\ \A t \in Tools : ToolKnows(t)

\* With the service registered and the file saved, what runs was given it.
InstallKnows ==
  \A t \in Tools :
    op[t] = "install" /\ ~ Has(todo[t], {"create"})
      => registered = "yes" /\ loaded \in {Broken, env}

-----------------------------------------------------------------------------
(***************************************************************************)
(* The sequences.  Each operation keeps to the order.                      *)
(***************************************************************************)
LEMMA CallTyped ==
  ASSUME NEW name \in Names, NEW ifNot \in {"fail", "skip", "wait"}
  PROVE  Call(name, ifNot) \in Calls /\ Sure(name) \in Calls
  BY DEF Call, Sure, Calls

\* Sequences of one and of two members of a set.
LEMMA PairTyped ==
  ASSUME NEW S, NEW a \in S, NEW b \in S
  PROVE  <<a>> \in Seq(S) /\ <<a, b>> \in Seq(S)
  OBVIOUS

\* stop, its request and its wait, is a sequence of calls (installer.go, stop).
LEMMA StopTyped ==
  ASSUME NEW ifNot \in {"fail", "skip", "wait"}
  PROVE  Stop(ifNot) \in Seq(Calls)
<1>1. "stop" \in Names /\ "awaitStopped" \in Names
  BY DEF Names
<1>2. Call("stop", ifNot) \in Calls
  BY <1>1, CallTyped
<1>3. Call("awaitStopped", IF ifNot = "fail" THEN "fail" ELSE "skip") \in Calls
  BY <1>1, CallTyped
<1> QED
  BY <1>2, <1>3, PairTyped DEF Stop

\* So is start (installer.go, start).
LEMMA StartTyped == Start \in Seq(Calls)
<1>1. Sure("start") \in Calls /\ Sure("awaitRunning") \in Calls
  BY CallTyped DEF Names
<1> QED
  BY <1>1, PairTyped DEF Start

\* So is install (installer.go, install).
LEMMA InstallTyped == Install \in Seq(Calls)
<1>1. /\ Sure("readEnv") \in Calls /\ Call("delete", "skip") \in Calls
      /\ Sure("checkChosen") \in Calls /\ Sure("create") \in Calls
      /\ Sure("setRecovery") \in Calls /\ Sure("openChosen") \in Calls
  BY CallTyped DEF Names
<1>2. <<Sure("readEnv")>> \in Seq(Calls) /\ Stop("wait") \in Seq(Calls)
  BY <1>1, PairTyped, StopTyped
<1>3. <<Call("delete", "skip"), Sure("checkChosen"), Sure("create"),
        Sure("setRecovery"), Sure("openChosen")>> \in Seq(Calls)
  BY <1>1
<1> QED
  BY <1>2, <1>3 DEF Install

\* So is uninstall (installer.go, uninstall).
LEMMA UninstallTyped == Uninstall \in Seq(Calls)
<1>1. Sure("open") \in Calls /\ Sure("delete") \in Calls /\ Sure("closeFirewall") \in Calls
  BY CallTyped DEF Names
<1>2. <<Sure("open")>> \in Seq(Calls) /\ <<Sure("delete"), Sure("closeFirewall")>> \in Seq(Calls)
  BY <1>1, PairTyped
<1> QED
  BY <1>2, StopTyped DEF Uninstall

\* So is what the two buttons do (gui_windows.go, handleButtonClick).
LEMMA ButtonsTyped ==
  ASSUME NEW f \in Forms
  PROVE  InstallButton(f) \in Seq(Calls) /\ StartButton(f) \in Seq(Calls)
<1>1. Sure("checkForm") \in Calls /\ Sure("save") \in Calls /\ Sure("openForm") \in Calls
  BY CallTyped DEF Names
<1>2. <<Sure("checkForm"), Sure("save")>> \in Seq(Calls) /\ <<Sure("save")>> \in Seq(Calls)
  BY <1>1, PairTyped
<1>3. Ticked(f) \in Seq(Calls)
  BY <1>1, PairTyped, EmptySeq DEF Ticked
<1> QED
  BY <1>2, <1>3, StopTyped, StartTyped, InstallTyped DEF InstallButton, StartButton

\* The calls of stop, in their order (installer.go, stop).
LEMMA StopOrdered ==
  ASSUME NEW ifNot \in {"fail", "skip", "wait"}
  PROVE  Len(Stop(ifNot)) = 2 /\ Stop(ifNot)[1].call = "stop" /\ Stop(ifNot)[2].call = "awaitStopped"
  BY DEF Stop, Call

\* The calls of start, in their order (installer.go, start).
LEMMA StartOrdered ==
  Len(Start) = 2 /\ Start[1].call = "start" /\ Start[2].call = "awaitRunning"
  BY DEF Start, Sure, Call

\* The calls of install, in their order (installer.go, install).
LEMMA InstallOrdered ==
  /\ Len(Install) = 8
  /\ Install[1].call = "readEnv" /\ Install[2].call = "stop"
  /\ Install[3].call = "awaitStopped" /\ Install[4].call = "delete"
  /\ Install[5].call = "checkChosen" /\ Install[6].call = "create"
  /\ Install[7].call = "setRecovery" /\ Install[8].call = "openChosen"
  BY DEF Install, Stop, Sure, Call

\* The calls of uninstall, in their order (installer.go, uninstall).
LEMMA UninstallOrdered ==
  /\ Len(Uninstall) = 5
  /\ Uninstall[1].call = "open" /\ Uninstall[2].call = "stop"
  /\ Uninstall[3].call = "awaitStopped" /\ Uninstall[4].call = "delete"
  /\ Uninstall[5].call = "closeFirewall"
  BY DEF Uninstall, Stop, Sure, Call

\* The install button reads the file and creates the service in the order
\* the invariant needs, and waits for it at the end (gui_windows.go, handleButtonClick).
LEMMA InstallButtonOrdered ==
  ASSUME NEW f
  PROVE  LET s == InstallButton(f)
         IN  /\ Ordered(s) /\ Has(s, {"readEnv"}) /\ Has(s, {"create"})
             /\ Len(s) > 0 /\ s[Len(s)].call = "awaitRunning"
<1> DEFINE s == InstallButton(f)
<1>1. /\ s[1].call = "stop" /\ s[2].call = "awaitStopped" /\ s[3].call = "checkForm"
      /\ s[4].call = "save" /\ s[5].call = "readEnv" /\ s[6].call = "stop"
      /\ s[7].call = "awaitStopped" /\ s[8].call = "delete" /\ s[9].call = "checkChosen"
      /\ s[10].call = "create" /\ s[11].call = "setRecovery" /\ s[12].call = "openChosen"
  BY DEF InstallButton, Install, Stop, Ticked, Start, Sure, Call
<1>2. CASE f.ticked
  <2>1. /\ Len(s) = 15 /\ s[13].call = "openForm"
        /\ s[14].call = "start" /\ s[15].call = "awaitRunning"
    BY <1>2 DEF InstallButton, Install, Stop, Ticked, Start, Sure, Call
  <2>2. Ordered(s)
    BY <1>1, <2>1 DEF Ordered, Late
  <2>3. Has(s, {"readEnv"}) /\ Has(s, {"create"})
    BY <1>1, <2>1 DEF Has
  <2> QED
    BY <2>1, <2>2, <2>3
<1>3. CASE ~ f.ticked
  <2>1. /\ Len(s) = 14
        /\ s[13].call = "start" /\ s[14].call = "awaitRunning"
    BY <1>3 DEF InstallButton, Install, Stop, Ticked, Start, Sure, Call
  <2>2. Ordered(s)
    BY <1>1, <2>1 DEF Ordered, Late
  <2>3. Has(s, {"readEnv"}) /\ Has(s, {"create"})
    BY <1>1, <2>1 DEF Has
  <2> QED
    BY <2>1, <2>2, <2>3
<1> QED
  BY <1>2, <1>3

\* So does the start button, which creates nothing (gui_windows.go, handleButtonClick).
LEMMA StartButtonOrdered ==
  ASSUME NEW f
  PROVE  LET s == StartButton(f)
         IN  /\ Ordered(s) /\ ~ Has(s, {"openChosen"})
             /\ Has(s, {"openForm"}) => f.port # NoPort
<1> DEFINE s == StartButton(f)
<1>1. CASE f.port = NoPort
  <2>1. /\ Len(s) = 3 /\ s[1].call = "save" /\ s[2].call = "start"
        /\ s[3].call = "awaitRunning"
    BY <1>1 DEF StartButton, Start, Sure, Call
  <2> QED
    BY <2>1 DEF Ordered, Has, Late
<1>2. CASE f.port # NoPort /\ f.ticked
  <2>1. /\ Len(s) = 5 /\ s[1].call = "checkForm" /\ s[2].call = "save"
        /\ s[3].call = "openForm" /\ s[4].call = "start" /\ s[5].call = "awaitRunning"
    BY <1>2 DEF StartButton, Ticked, Start, Sure, Call
  <2> QED
    BY <1>2, <2>1 DEF Ordered, Has, Late
<1>3. CASE f.port # NoPort /\ ~ f.ticked
  <2>1. /\ Len(s) = 4 /\ s[1].call = "checkForm" /\ s[2].call = "save"
        /\ s[3].call = "start" /\ s[4].call = "awaitRunning"
    BY <1>3 DEF StartButton, Ticked, Start, Sure, Call
  <2> QED
    BY <1>3, <2>1 DEF Ordered, Has, Late
<1> QED
  BY <1>1, <1>2, <1>3

\* So do the four subcommands (main.go; installer.go).
LEMMA CommandsOrdered ==
  ASSUME NEW s \in {Install, Uninstall, Start, Stop("fail")}
  PROVE  /\ Ordered(s) /\ ~ Has(s, {"checkForm", "save", "openForm"})
         /\ Has(s, {"openChosen"}) => Has(s, {"readEnv"})
<1>1. CASE s = Install
  BY <1>1, InstallOrdered DEF Ordered, Has, Late
<1>2. CASE s = Uninstall
  BY <1>2, UninstallOrdered DEF Ordered, Has, Late
<1>3. CASE s = Start
  BY <1>3, StartOrdered DEF Ordered, Has, Late
<1>4. CASE s = Stop("fail")
  BY <1>4, StopOrdered DEF Ordered, Has, Late
<1> QED
  BY <1>1, <1>2, <1>3, <1>4

\* What is left of an operation after some of its calls keeps to the order.
LEMMA RestOrdered ==
  ASSUME NEW s \in Seq(Calls), Ordered(s), NEW n \in 1..Len(s)
  PROVE  LET rest == SubSeq(s, n + 1, Len(s))
         IN  /\ rest \in Seq(Calls) /\ Ordered(rest)
             /\ Len(rest) = Len(s) - n
             /\ \A i \in 1..Len(rest) : rest[i] = s[i + n]
<1> DEFINE rest == SubSeq(s, n + 1, Len(s))
<1>1. /\ rest \in Seq(Calls) /\ Len(rest) = Len(s) - n
      /\ \A i \in 1..Len(rest) : rest[i] = s[i + n]
  OBVIOUS
<1> HIDE DEF rest
<1>2. \A i \in 1..Len(rest) :
        rest[i].call = "stop" => i < Len(rest) /\ rest[i + 1].call = "awaitStopped"
  <2> SUFFICES ASSUME NEW i \in 1..Len(rest), rest[i].call = "stop"
               PROVE  i < Len(rest) /\ rest[i + 1].call = "awaitStopped"
    OBVIOUS
  <2>1. i + n \in 1..Len(s) /\ s[i + n].call = "stop"
    BY <1>1
  <2>2. i + n < Len(s) /\ s[i + n + 1].call = "awaitStopped"
    BY <2>1 DEF Ordered
  <2>3. i + 1 \in 1..Len(rest) /\ (i + 1) + n = i + n + 1
    BY <1>1, <2>1, <2>2
  <2>4. rest[i + 1] = s[(i + 1) + n]
    BY <1>1, <2>3
  <2> QED
    BY <2>2, <2>3, <2>4
<1>3. \A i \in 1..Len(rest) :
        rest[i].call = "start" => i + 1 = Len(rest) /\ rest[i + 1].call = "awaitRunning"
  <2> SUFFICES ASSUME NEW i \in 1..Len(rest), rest[i].call = "start"
               PROVE  i + 1 = Len(rest) /\ rest[i + 1].call = "awaitRunning"
    OBVIOUS
  <2>1. i + n \in 1..Len(s) /\ s[i + n].call = "start"
    BY <1>1
  <2>2. i + n + 1 = Len(s) /\ s[i + n + 1].call = "awaitRunning"
    BY <2>1 DEF Ordered
  <2> HIDE DEF Calls
  <2>3. i \in Nat /\ n \in Nat /\ i >= 1 /\ Len(s) \in Nat /\ Len(rest) = Len(s) - n
    BY <1>1
  <2>4. i + n + 1 = Len(s)
    BY <2>2
  <2>5. i + 1 \in 1..Len(rest) /\ i + 1 = Len(rest) /\ (i + 1) + n = i + n + 1
    BY <2>3, <2>4
  <2>6. rest[i + 1] = s[(i + 1) + n]
    BY <1>1, <2>5
  <2> QED
    BY <2>2, <2>5, <2>6
<1>4. \A i, j \in 1..Len(rest) :
        rest[i].call \in {"create", "openChosen"} /\ i < j => rest[j].call \in Late
  <2> SUFFICES ASSUME NEW i \in 1..Len(rest), NEW j \in 1..Len(rest),
                      rest[i].call \in {"create", "openChosen"}, i < j
               PROVE  rest[j].call \in Late
    OBVIOUS
  <2>1. /\ i + n \in 1..Len(s) /\ s[i + n].call \in {"create", "openChosen"}
        /\ j + n \in 1..Len(s) /\ i + n < j + n
    BY <1>1
  <2>2. s[j + n].call \in Late
    BY <2>1 DEF Ordered
  <2> QED
    BY <1>1, <2>2
<1>5. Ordered(rest)
  BY <1>2, <1>3, <1>4 DEF Ordered
<1> QED
  BY <1>1, <1>5 DEF rest

\* An operation that is over has nothing to know.
LEMMA NothingSound ==
  ASSUME NEW f, NEW port
  PROVE  Sound(<<>>, "none", f, port)
  BY DEF Sound, Ordered, Has

\* One call done, or a request and its wait: what is left is still sound.
LEMMA RestSound ==
  ASSUME NEW s, NEW name, NEW f, NEW port, Sound(s, name, f, port),
         NEW n \in 1..Len(s), s[1].call # "readEnv",
         n \in {1, 2}, n = 2 => s[1].call \in {"stop", "start"},
         SubSeq(s, n + 1, Len(s)) # <<>>
  PROVE  Sound(SubSeq(s, n + 1, Len(s)), name, f, port)
<1> DEFINE rest == SubSeq(s, n + 1, Len(s))
<1>1. s \in Seq(Calls) /\ Ordered(s) /\ Len(s) \in Nat
  BY DEF Sound
<1>2. /\ rest \in Seq(Calls) /\ Ordered(rest)
      /\ Len(rest) = Len(s) - n
      /\ \A i \in 1..Len(rest) : rest[i] = s[i + n]
  BY <1>1, RestOrdered
<1>3. rest # <<>>
  OBVIOUS
<1> HIDE DEF rest
<1>4. ASSUME NEW names, Has(rest, names) PROVE Has(s, names)
  <2>1. PICK i \in 1..Len(rest) : rest[i].call \in names
    BY <1>4 DEF Has
  <2>2. i + n \in 1..Len(s) /\ s[i + n].call \in names
    BY <1>1, <1>2, <2>1
  <2> QED
    BY <2>2 DEF Has
<1>5. n = 2 => s[2].call \in {"awaitStopped", "awaitRunning"}
  BY <1>1 DEF Ordered
<1>6. ASSUME NEW names, Has(s, names), s[1].call \notin names,
             "awaitStopped" \notin names, "awaitRunning" \notin names
      PROVE  Has(rest, names)
  <2>1. PICK i \in 1..Len(s) : s[i].call \in names
    BY <1>6 DEF Has
  <2>2. i > n
    BY <1>1, <1>5, <1>6, <2>1
  <2>3. i - n \in 1..Len(rest) /\ (i - n) + n = i
    BY <1>1, <1>2, <2>2
  <2>4. rest[i - n].call \in names
    BY <1>2, <2>1, <2>3
  <2> QED
    BY <2>3, <2>4 DEF Has
<1>7. Has(rest, {"checkForm", "save", "openForm"}) => f \in Forms
  BY <1>4 DEF Sound
<1>8. Has(rest, {"openForm"}) => f.port \in Ports
  BY <1>4 DEF Sound
<1>9. Has(rest, {"openChosen"}) => Has(rest, {"readEnv"}) \/ port \in Ports
  <2>1. Has(s, {"readEnv"}) => Has(rest, {"readEnv"})
    BY <1>6
  <2> QED
    BY <1>4, <2>1 DEF Sound
<1>10. ASSUME name = "install"
       PROVE  /\ Len(rest) > 0 /\ rest[Len(rest)].call = "awaitRunning"
              /\ Has(rest, {"create"}) \/ \A i \in 1..Len(rest) : rest[i].call \in Late
  <2>1. Len(rest) \in Nat /\ Len(rest) > 0
    BY <1>2, <1>3, EmptySeq
  <2>2. rest[Len(rest)] = s[Len(s)]
    <3>1. Len(rest) \in 1..Len(rest) /\ Len(rest) + n = Len(s)
      BY <1>1, <1>2, <2>1
    <3> QED
      BY <1>2, <3>1
  <2>3. s[Len(s)].call = "awaitRunning"
    BY <1>10 DEF Sound
  <2>4. ASSUME \A i \in 1..Len(s) : s[i].call \in Late
        PROVE  \A i \in 1..Len(rest) : rest[i].call \in Late
    <3> SUFFICES ASSUME NEW i \in 1..Len(rest) PROVE rest[i].call \in Late
      OBVIOUS
    <3>1. i + n \in 1..Len(s) /\ rest[i] = s[i + n]
      BY <1>1, <1>2
    <3> QED
      BY <2>4, <3>1
  <2>5. ASSUME Has(s, {"create"}), s[1].call = "create"
        PROVE  \A i \in 1..Len(rest) : rest[i].call \in Late
    <3> SUFFICES ASSUME NEW i \in 1..Len(rest) PROVE rest[i].call \in Late
      OBVIOUS
    <3>1. i + n \in 1..Len(s) /\ rest[i] = s[i + n] /\ 1 \in 1..Len(s) /\ 1 < i + n
      BY <1>1, <1>2
    <3> QED
      BY <1>1, <2>5, <3>1 DEF Ordered
  <2>6. Has(s, {"create"}) /\ s[1].call # "create" => Has(rest, {"create"})
    BY <1>6
  <2>7. Has(s, {"create"}) \/ \A i \in 1..Len(s) : s[i].call \in Late
    BY <1>10 DEF Sound
  <2> QED
    BY <2>1, <2>2, <2>3, <2>4, <2>5, <2>6, <2>7
<1> QED
  BY <1>2, <1>7, <1>8, <1>9, <1>10 DEF Sound, rest

\* The port is read, the calls after it are still sound.
LEMMA TailSound ==
  ASSUME NEW s, NEW name, NEW f, NEW old, NEW port \in Ports,
         Sound(s, name, f, old), Len(s) > 0, s[1].call = "readEnv"
  PROVE  Sound(Tail(s), name, f, port)
<1> DEFINE rest == SubSeq(s, 1 + 1, Len(s))
<1>1. s \in Seq(Calls) /\ Ordered(s) /\ Len(s) \in Nat /\ 1 \in 1..Len(s)
  BY DEF Sound
<1>2. /\ rest \in Seq(Calls) /\ Ordered(rest)
      /\ Len(rest) = Len(s) - 1
      /\ \A i \in 1..Len(rest) : rest[i] = s[i + 1]
  BY <1>1, RestOrdered
<1>3. Tail(s) = rest
  BY <1>1
<1> HIDE DEF rest
<1>4. ASSUME NEW names, Has(rest, names) PROVE Has(s, names)
  <2>1. PICK i \in 1..Len(rest) : rest[i].call \in names
    BY <1>4 DEF Has
  <2>2. i + 1 \in 1..Len(s) /\ s[i + 1].call \in names
    BY <1>1, <1>2, <2>1
  <2> QED
    BY <2>2 DEF Has
<1>5. Has(rest, {"checkForm", "save", "openForm"}) => f \in Forms
  BY <1>4 DEF Sound
<1>6. Has(rest, {"openForm"}) => f.port \in Ports
  BY <1>4 DEF Sound
<1>7. ASSUME name = "install"
      PROVE  /\ Len(rest) > 0 /\ rest[Len(rest)].call = "awaitRunning"
             /\ Has(rest, {"create"})
  <2>1. s[Len(s)].call = "awaitRunning" /\ Has(s, {"create"})
    BY <1>1, <1>7 DEF Sound, Late
  <2>2. Len(rest) \in 1..Len(rest) /\ Len(rest) + 1 = Len(s)
    BY <1>1, <1>2, <2>1
  <2>3. PICK i \in 1..Len(s) : s[i].call = "create"
    BY <2>1 DEF Has
  <2>4. i - 1 \in 1..Len(rest) /\ (i - 1) + 1 = i
    BY <1>1, <1>2, <2>3
  <2>5. rest[i - 1].call = "create"
    BY <1>2, <2>3, <2>4
  <2>6. Has(rest, {"create"})
    BY <2>4, <2>5 DEF Has
  <2> QED
    BY <1>2, <2>1, <2>2, <2>6
<1> QED
  BY <1>2, <1>3, <1>5, <1>6, <1>7 DEF Sound

-----------------------------------------------------------------------------
(***************************************************************************)
(* The steps.  A tool at work has one call less to make, or none.          *)
(***************************************************************************)
\* A tool's knowledge depends on what is its own.
LEMMA OthersKnow ==
  ASSUME NEW t, ToolKnows(t),
         todo'[t] = todo[t], op'[t] = op[t], form'[t] = form[t], chosen'[t] = chosen[t]
  PROVE  ToolKnows(t)'
  BY DEF ToolKnows

\* What a tool does: it reads the port, makes a call, or fails.
LEMMA DoMoves ==
  ASSUME NEW t \in Tools, Do(t)
  PROVE  /\ ~ Idle(t)
         /\ \/ ReadEnv(t)
            \/ Fail(t)
            \/ Advance(t, 1) /\ Head(todo[t]).call # "readEnv"
            \/ Advance(t, 2) /\ Head(todo[t]).call \in {"stop", "start"}
<1>1. CASE AskToStop(t)
  BY <1>1 DEF AskToStop, At, Otherwise
<1>2. CASE AwaitStopped(t)
  BY <1>2 DEF AwaitStopped, At, Otherwise
<1>3. CASE AskToStart(t)
  BY <1>3 DEF AskToStart, At
<1>4. CASE AwaitRunning(t)
  BY <1>4 DEF AwaitRunning, At
<1>5. CASE Open(t)
  BY <1>5 DEF Open, At
<1>6. CASE Delete(t)
  BY <1>6 DEF Delete, At, Otherwise
<1>7. CASE Create(t)
  BY <1>7 DEF Create, At
<1>8. CASE SetRecovery(t)
  BY <1>8 DEF SetRecovery, At
<1>9. CASE ReadEnv(t)
  BY <1>9 DEF ReadEnv, At
<1>10. CASE CheckPort(t)
  BY <1>10 DEF CheckPort, At
<1>11. CASE SaveEnv(t)
  BY <1>11 DEF SaveEnv, At
<1>12. CASE Firewall(t)
  BY <1>12 DEF Firewall, At
<1> QED
  BY <1>1, <1>2, <1>3, <1>4, <1>5, <1>6, <1>7, <1>8, <1>9, <1>10, <1>11, <1>12 DEF Do

\* An operation that fails ends, and its tool knows nothing more.
LEMMA FailKeepsTools ==
  ASSUME ToolsTyped, HostTypeOK, NEW t \in Tools, ToolKnows(t), Fail(t)
  PROVE  ToolsTyped' /\ ToolKnows(t)'
<1>1. Status \in {"no", "Stopped", "StartPending", "Running", "StopPending"}
  BY DEF Status, HostTypeOK
<1>2. <<>> \in Seq(Calls)
  BY EmptySeq
<1>3. ToolsTyped'
  BY <1>1, <1>2 DEF ToolsTyped, Fail, Return
<1>4. todo'[t] = <<>> /\ op'[t] = "none"
  BY DEF ToolsTyped, Fail, Return
<1> QED
  BY <1>3, <1>4, NothingSound DEF ToolKnows

\* A call that went well leaves the rest of its operation to do.
LEMMA AdvanceKeepsTools ==
  ASSUME ToolsTyped, HostTypeOK, NEW t \in Tools, ToolKnows(t), ~ Idle(t),
         NEW n \in {1, 2}, Advance(t, n), Head(todo[t]).call # "readEnv",
         n = 2 => Head(todo[t]).call \in {"stop", "start"}
  PROVE  ToolsTyped' /\ ToolKnows(t)'
<1> DEFINE s == todo[t]  rest == SubSeq(s, n + 1, Len(s))
<1>1. s \in Seq(Calls) /\ s # <<>> /\ Ordered(s)
  BY DEF ToolKnows, Sound, Idle
<1>2. s[1] = Head(s) /\ Len(s) \in Nat /\ 1 \in 1..Len(s)
  BY <1>1
<1>3. n \in 1..Len(s)
  BY <1>2, <1>1 DEF Ordered
<1>4. Status \in {"no", "Stopped", "StartPending", "Running", "StopPending"}
  BY DEF Status, HostTypeOK
<1>5. rest \in Seq(Calls)
  BY <1>1, <1>3, RestOrdered
<1>6. todo' = [todo EXCEPT ![t] = rest]
  BY DEF Advance
<1>7. CASE rest = <<>>
  <2>1. Return(t, "ok") /\ shown' = [shown EXCEPT ![t] = Status]
    BY <1>7 DEF Advance
  <2>2. ToolsTyped'
    BY <1>4, <1>5, <1>6, <2>1 DEF ToolsTyped, Return
  <2>3. todo'[t] = <<>> /\ op'[t] = "none"
    BY <1>6, <1>7, <2>1 DEF ToolsTyped, Return
  <2> QED
    BY <2>2, <2>3, NothingSound DEF ToolKnows
<1>8. CASE rest # <<>>
  <2>1. UNCHANGED <<op, form, chosen, outcome, shown>>
    BY <1>8 DEF Advance
  <2>2. ToolsTyped'
    BY <1>5, <1>6, <2>1 DEF ToolsTyped
  <2>3. todo'[t] = rest
    BY <1>6 DEF ToolsTyped
  <2>4. Sound(s, op[t], form[t], chosen[t])
    BY DEF ToolKnows
  <2>5. s[1].call # "readEnv" /\ (n = 2 => s[1].call \in {"stop", "start"})
    BY <1>2
  <2>6. Sound(rest, op[t], form[t], chosen[t])
    BY <1>3, <1>8, <2>4, <2>5, RestSound
  <2> QED
    BY <2>1, <2>2, <2>3, <2>6 DEF ToolKnows
<1> QED
  BY <1>7, <1>8

\* install and the start button read the port they go on with (config.go).
LEMMA ReadEnvKeepsTools ==
  ASSUME ToolsTyped, HostTypeOK, NEW t \in Tools, ToolKnows(t), ReadEnv(t)
  PROVE  ToolsTyped' /\ ToolKnows(t)'
<1> DEFINE s == todo[t]
           port == IF env = Broken \/ env.port = NoPort THEN DefaultPort ELSE env.port
<1>1. s \in Seq(Calls) /\ s # <<>> /\ Head(s).call = "readEnv"
  BY DEF ToolKnows, Sound, ReadEnv, At, Idle
<1>2. s[1] = Head(s) /\ Len(s) > 0 /\ Tail(s) \in Seq(Calls)
  BY <1>1
<1>3. port \in Ports
  BY FormsAssumption, SavedAssumption DEF HostTypeOK
<1> HIDE DEF port
<1>4. /\ todo' = [todo EXCEPT ![t] = Tail(s)] /\ chosen' = [chosen EXCEPT ![t] = port]
      /\ UNCHANGED <<op, form, shown, outcome>>
  BY DEF ReadEnv, port
<1>5. ToolsTyped'
  BY <1>2, <1>3, <1>4 DEF ToolsTyped
<1>6. Sound(Tail(s), op[t], form[t], port)
  BY <1>1, <1>2, <1>3, TailSound DEF ToolKnows
<1>7. ToolKnows(t)'
  BY <1>4, <1>6 DEF ToolKnows, ToolsTyped
<1> QED
  BY <1>5, <1>7

\* A tool at work stays sound, and leaves the others alone.
LEMMA DoKeepsTools ==
  ASSUME ToolsTyped, HostTypeOK, \A t \in Tools : ToolKnows(t), NEW t \in Tools, Do(t)
  PROVE  ToolsTyped' /\ \A u \in Tools : ToolKnows(u)'
<1>1. ToolsTyped' /\ ToolKnows(t)'
  BY DoMoves, FailKeepsTools, AdvanceKeepsTools, ReadEnvKeepsTools
<1>2. ASSUME NEW u \in Tools, u # t
      PROVE  /\ todo'[u] = todo[u] /\ op'[u] = op[u]
             /\ form'[u] = form[u] /\ chosen'[u] = chosen[u]
  <2>1. CASE ReadEnv(t)
    BY <1>2, <2>1 DEF ReadEnv, ToolsTyped
  <2>2. CASE Fail(t)
    BY <1>2, <2>2 DEF Fail, Return, ToolsTyped
  <2>3. ASSUME NEW n \in {1, 2}, Advance(t, n)
        PROVE  /\ todo'[u] = todo[u] /\ op'[u] = op[u]
               /\ form'[u] = form[u] /\ chosen'[u] = chosen[u]
    BY <1>2, <2>3 DEF Advance, Return, ToolsTyped
  <2> QED
    BY <2>1, <2>2, <2>3, DoMoves
<1>3. ASSUME NEW u \in Tools, u # t PROVE ToolKnows(u)'
  BY <1>2, <1>3, OthersKnow
<1> QED
  BY <1>1, <1>3

\* A button or a command is taken up, or the window looks again.
LEMMA BeginKeepsTools ==
  ASSUME ToolsTyped, NEW t \in Tools, NEW name, NEW calls, Begin(t, name, calls),
         NEW f, form' = [form EXCEPT ![t] = f], f \in Forms \cup {NoForm},
         Sound(calls, name, f, chosen[t]), \A u \in Tools : ToolKnows(u)
  PROVE  ToolsTyped' /\ \A u \in Tools : ToolKnows(u)'
<1>1. calls \in Seq(Calls)
  BY DEF Sound
<1>2. ToolsTyped'
  BY <1>1 DEF ToolsTyped, Begin
<1>3. ToolKnows(t)'
  BY DEF ToolsTyped, Begin, ToolKnows
<1>4. ASSUME NEW u \in Tools, u # t PROVE ToolKnows(u)'
  <2>1. /\ todo'[u] = todo[u] /\ op'[u] = op[u]
        /\ form'[u] = form[u] /\ chosen'[u] = chosen[u]
    BY <1>4 DEF ToolsTyped, Begin
  <2> QED
    BY <2>1, OthersKnow
<1> QED
  BY <1>2, <1>3, <1>4

\* The administrator presses, types, or the timer shows the status again.
LEMMA WindowKeepsTools ==
  ASSUME ToolsTyped, HostTypeOK, \A u \in Tools : ToolKnows(u),
         NEW t \in Tools, Press(t) \/ Type(t) \/ Refresh(t)
  PROVE  ToolsTyped' /\ \A u \in Tools : ToolKnows(u)'
<1>1. ASSUME NEW f \in Forms, form' = [form EXCEPT ![t] = f], f.port # NoPort,
             Begin(t, "install", InstallButton(f))
      PROVE  ToolsTyped' /\ \A u \in Tools : ToolKnows(u)'
  <2>1. f.port \in Ports
    BY <1>1, FormsAssumption
  <2>2. Sound(InstallButton(f), "install", f, chosen[t])
    BY <2>1, ButtonsTyped, InstallButtonOrdered DEF Sound
  <2> QED
    BY <1>1, <2>2, BeginKeepsTools
<1>2. ASSUME NEW f \in Forms, form' = [form EXCEPT ![t] = f],
             Begin(t, "start", StartButton(f))
      PROVE  ToolsTyped' /\ \A u \in Tools : ToolKnows(u)'
  <2>1. f.port # NoPort => f.port \in Ports
    BY FormsAssumption
  <2>2. Sound(StartButton(f), "start", f, chosen[t])
    BY <2>1, ButtonsTyped, StartButtonOrdered DEF Sound
  <2> QED
    BY <1>2, <2>2, BeginKeepsTools
<1>3. ASSUME NEW s \in {Install, Uninstall, Start, Stop("fail")}, UNCHANGED form,
             Begin(t, "command", s)
      PROVE  ToolsTyped' /\ \A u \in Tools : ToolKnows(u)'
  <2>1. s \in Seq(Calls)
    BY InstallTyped, UninstallTyped, StartTyped, StopTyped
  <2>2. Sound(s, "command", form[t], chosen[t])
    BY <2>1, CommandsOrdered DEF Sound, Has
  <2>3. form' = [form EXCEPT ![t] = form[t]] /\ form[t] \in Forms \cup {NoForm}
    BY <1>3 DEF ToolsTyped
  <2> QED
    BY <1>3, <2>2, <2>3, BeginKeepsTools
<1>4. CASE Refresh(t)
  <2>1. Status \in {"no", "Stopped", "StartPending", "Running", "StopPending"}
    BY DEF Status, HostTypeOK
  <2>2. ToolsTyped'
    BY <1>4, <2>1 DEF Refresh, ToolsTyped
  <2>3. ASSUME NEW u \in Tools PROVE ToolKnows(u)'
    BY <1>4, OthersKnow DEF Refresh
  <2> QED
    BY <2>2, <2>3
<1> QED
  BY <1>1, <1>2, <1>3, <1>4 DEF Press, Type

\* What the tools do to the service is what HostNext allows, but for the
\* recovery actions and the file that it does not write itself.
LEMMA DoKeepsHost ==
  ASSUME HostInv, ToolsTyped, NEW t \in Tools, ToolKnows(t), Do(t)
  PROVE  HostInv'
<1>1. CASE AskToStop(t) \/ AskToStart(t)
  <2>1. AskStop \/ Launch \/ UNCHANGED hostVars
    BY <1>1 DEF AskToStop, AskToStart
  <2> QED
    BY <2>1, HostInvStep DEF HostNext
<1>2. CASE SetRecovery(t)
  <2>1. recovery' \in BOOLEAN
    BY <1>2, Zenon DEF SetRecovery, HostInv, HostTypeOK
  <2>2. UNCHANGED <<env, owner, state, exit, control, goVars>>
    BY <1>2 DEF SetRecovery
  <2> QED
    BY <2>1, <2>2 DEF goVars, HostInv, HostTypeOK, ExecuteKnows, RunKnows, EndKnows, PortsKnow
<1>3. CASE SaveEnv(t)
  <2>1. form[t] \in Forms
    <3>1. todo[t] \in Seq(Calls) /\ todo[t] # <<>> /\ Head(todo[t]).call = "save"
      BY <1>3 DEF SaveEnv, At, Idle, ToolKnows, Sound
    <3>2. Has(todo[t], {"checkForm", "save", "openForm"})
      BY <3>1 DEF Has
    <3> QED
      BY <3>2 DEF ToolKnows, Sound
  <2>2. env' \in EnvFiles \cup {Broken}
    BY <1>3, <2>1, SavedAssumption DEF SaveEnv, HostInv, HostTypeOK
  <2>3. UNCHANGED <<owner, scmVars, goVars>>
    BY <1>3 DEF SaveEnv
  <2> QED
    BY <2>2, <2>3 DEF scmVars, goVars, HostInv, HostTypeOK, ExecuteKnows, RunKnows,
       EndKnows, PortsKnow
<1>4. CASE UNCHANGED hostVars
  BY <1>4, HostInvStep
<1> QED
  BY <1>1, <1>2, <1>3, <1>4
     DEF Do, AwaitStopped, AwaitRunning, Open, Delete, Create, ReadEnv, CheckPort, Firewall

\* A call leaves record, rules and process in agreement: the service is
\* created before the firewall is opened (installer.go, install).
LEMMA DoKeepsRecord ==
  ASSUME RecordKnows, ToolsTyped, NEW t \in Tools, ToolKnows(t), Do(t)
  PROVE  RecordKnows'
<1>1. CASE AskToStop(t) \/ AskToStart(t)
  <2>1. \/ AskStop /\ registered # "no"
        \/ Launch /\ registered = "yes"
        \/ UNCHANGED hostVars
    BY <1>1 DEF AskToStop, AskToStart, Status
  <2>2. UNCHANGED <<registered, rules>>
    BY <1>1 DEF AskToStop, AskToStart
  <2> QED
    BY <2>1, <2>2 DEF RecordKnows, AskStop, Launch, hostVars, scmVars, goVars
<1>2. CASE Delete(t) \/ Create(t)
  BY <1>2 DEF Delete, Create, RecordKnows, hostVars, scmVars, goVars
<1>3. CASE Firewall(t)
  <2>1. todo[t] \in Seq(Calls) /\ todo[t] # <<>>
    BY <1>3 DEF Firewall, At, Idle, ToolKnows, Sound
  <2>2. ASSUME At(t, {"openForm"}) PROVE form[t].port \in Ports
    <3>1. Has(todo[t], {"openForm"})
      BY <2>1, <2>2 DEF At, Has
    <3> QED
      BY <3>1 DEF ToolKnows, Sound
  <2>3. ASSUME At(t, {"openChosen"}) PROVE chosen[t] \in Ports
    <3>1. 1 \in 1..Len(todo[t]) /\ todo[t][1].call = "openChosen"
      BY <2>1, <2>3 DEF At
    <3>2. Has(todo[t], {"openChosen"})
      BY <3>1 DEF Has
    <3>3. ASSUME NEW i \in 1..Len(todo[t]) PROVE todo[t][i].call # "readEnv"
      <4>1. CASE i = 1
        BY <3>1, <4>1
      <4>2. CASE 1 < i
        BY <3>1, <4>2 DEF ToolKnows, Sound, Ordered, Late
      <4> QED
        BY <4>1, <4>2
    <3>4. ~ Has(todo[t], {"readEnv"})
      BY <3>3 DEF Has
    <3> QED
      BY <3>2, <3>4 DEF ToolKnows, Sound
  <2>4. rules' \subseteq Ports
    BY <1>3, <2>2, <2>3 DEF Firewall, RecordKnows
  <2>5. UNCHANGED <<registered, state, execute>>
    BY <1>3 DEF Firewall, hostVars, scmVars, goVars
  <2> QED
    BY <2>4, <2>5 DEF RecordKnows
<1>4. CASE UNCHANGED <<registered, rules, state, execute>>
  BY <1>4 DEF RecordKnows
<1> QED
  BY <1>1, <1>2, <1>3, <1>4
     DEF Do, AwaitStopped, AwaitRunning, Open, SetRecovery, ReadEnv, CheckPort, SaveEnv,
         hostVars, scmVars, goVars

\* The SCM drops the record of a service whose process is gone.
LEMMA PurgeKeepsInv ==
  ASSUME HostInv, RecordKnows, Purge
  PROVE  HostInv' /\ RecordKnows'
<1>1. HostInv'
  BY DEF Purge, goVars, HostInv, HostTypeOK, ExecuteKnows, RunKnows, EndKnows, PortsKnow
<1>2. RecordKnows'
  BY DEF Purge, goVars, RecordKnows
<1> QED
  BY <1>1, <1>2

\* A service without a record stays without a process.
LEMMA HostKeepsRecord ==
  ASSUME HostInv, RecordKnows, Host
  PROVE  HostInv' /\ RecordKnows'
<1>1. HostInv'
  BY HostInvStep DEF Host, HostNext, World
<1>2. UNCHANGED <<registered, rules>>
  BY DEF Host
<1>3. ASSUME registered = "no" PROVE state' = "Stopped" /\ execute' = "off"
  <2>1. state = "Stopped" /\ execute = "off" /\ server = "none"
    BY <1>3 DEF RecordKnows, HostInv, ExecuteKnows
  <2>2. CASE ProcessStep
    BY <2>1, <2>2 DEF ProcessStep, LoadFails, Load, Spawn, ReportRunning, TakeStop, AwaitDone,
       TakeDone, Exit, Shut, ShutdownReturns, ServerReturned, Listen, Serve, ServeClosed,
       ServerEnds, scmVars
  <2>3. CASE Die \/ AcceptFails
    BY <2>1, <2>3 DEF Die, AcceptFails
  <2>4. CASE \E p \in Ports : OtherTakes(p) \/ OtherLeaves(p)
    BY <2>1, <2>4 DEF OtherTakes, OtherLeaves, scmVars, goVars
  <2> QED
    BY <1>3, <2>2, <2>3, <2>4 DEF Host
<1> QED
  BY <1>1, <1>2, <1>3 DEF RecordKnows

\* No service is installed and no tool is at work.
LEMMA InstallerInvInit == InstallerInit => InstallerInv
<1> SUFFICES ASSUME InstallerInit PROVE InstallerInv
  OBVIOUS
<1>1. HostInv
  BY HostInvInit DEF InstallerInit
<1>2. RecordKnows
  BY DEF InstallerInit, HostInit, RecordKnows
<1>3. ToolsTyped
  BY EmptySeq DEF InstallerInit, ToolsTyped
<1>4. ASSUME NEW t \in Tools PROVE ToolKnows(t)
  BY NothingSound DEF InstallerInit, ToolKnows
<1> QED
  BY <1>1, <1>2, <1>3, <1>4 DEF InstallerInv

\* No step of a tool, of the SCM or of the service breaks the invariant.
LEMMA InstallerInvStep == InstallerInv /\ [InstallerNext]_installerVars => InstallerInv'
<1> SUFFICES ASSUME InstallerInv, [InstallerNext]_installerVars PROVE InstallerInv'
  OBVIOUS
<1>1. HostInv /\ HostTypeOK /\ ToolsTyped /\ RecordKnows /\ \A t \in Tools : ToolKnows(t)
  BY DEF InstallerInv, HostInv
<1>2. ASSUME NEW t \in Tools, Do(t) PROVE InstallerInv'
  BY <1>1, <1>2, DoKeepsTools, DoKeepsHost, DoKeepsRecord DEF InstallerInv
<1>3. ASSUME NEW t \in Tools, Press(t) \/ Type(t) \/ Refresh(t) PROVE InstallerInv'
  <2>1. UNCHANGED <<hostVars, registered, rules>>
    BY <1>3 DEF Press, Type, Refresh, Begin
  <2>2. HostInv' /\ RecordKnows'
    BY <1>1, <2>1, HostInvStep DEF RecordKnows, hostVars, scmVars, goVars
  <2> QED
    BY <1>1, <1>3, <2>2, WindowKeepsTools DEF InstallerInv
<1>4. ASSUME UNCHANGED toolVars PROVE ToolsTyped' /\ \A t \in Tools : ToolKnows(t)'
  BY <1>1, <1>4, OthersKnow DEF toolVars, ToolsTyped
<1>5. CASE Purge \/ Host
  BY <1>1, <1>4, <1>5, PurgeKeepsInv, HostKeepsRecord DEF InstallerInv, Purge, Host
<1>6. CASE UNCHANGED installerVars
  <2>1. HostInv' /\ RecordKnows'
    BY <1>1, <1>6, HostInvStep DEF RecordKnows, installerVars, hostVars, scmVars, goVars
  <2> QED
    BY <1>1, <1>4, <1>6, <2>1 DEF InstallerInv, installerVars
<1> QED
  BY <1>2, <1>3, <1>5, <1>6 DEF InstallerNext

\* The invariant holds of any number of tools at work on one service
\* (installer.go, gui_windows.go, service_windows.go).
THEOREM InstallerInvHolds == InstallerSpec => []InstallerInv
  BY InstallerInvInit, InstallerInvStep, PTL DEF InstallerSpec

-----------------------------------------------------------------------------
(***************************************************************************)
(* Whatever the tools, the SCM and the service do and in whatever order,   *)
(* every variable keeps its type: the firewall's rules open ports that     *)
(* were asked for, never the absence of one (installer.go,                 *)
(* gui_windows.go).                                                        *)
(***************************************************************************)
THEOREM InstallerTyped == InstallerSpec => []InstallerTypeOK
<1>1. InstallerInv => InstallerTypeOK
  BY DEF InstallerInv, HostInv, RecordKnows, ToolsTyped, InstallerTypeOK
<1> QED
  BY <1>1, InstallerInvHolds, PTL

(***************************************************************************)
(* The tools may save another file, start and stop the service and remove  *)
(* it at any moment: a service the SCM has been told is Stopped still      *)
(* serves nobody, and only the process that lives holds a port             *)
(* (service_windows.go, Execute; runtime.go, Run).                         *)
(***************************************************************************)
THEOREM InstallerServesNobodyStopped == InstallerSpec => []StoppedServesNobody
<1>1. InstallerInv => StoppedServesNobody
  BY InvServesNobody DEF InstallerInv
<1> QED
  BY <1>1, InstallerInvHolds, PTL

\* What a tool does to the service is a step of the service, or none it can see.
LEMMA DoKeepsContract ==
  ASSUME HostInv, NEW t \in Tools, Do(t)
  PROVE  [Contract!Next]_(Contract!contractVars)
<1>1. CASE AskToStop(t) \/ AskToStart(t)
  <2>1. AskStop \/ Launch \/ UNCHANGED hostVars
    BY <1>1 DEF AskToStop, AskToStart
  <2> QED
    BY <2>1, ContractStep DEF HostNext
<1>2. CASE UNCHANGED <<state, control, server, exit>>
  BY <1>2, ContractUntouched
<1> QED
  BY <1>1, <1>2
     DEF Do, AwaitStopped, AwaitRunning, Open, Delete, Create, SetRecovery, ReadEnv, CheckPort,
         SaveEnv, Firewall, hostVars, scmVars, goVars

\* With tools at work, every step is still one of the contract or unseen.
LEMMA InstallerContractStep ==
  ASSUME InstallerInv, [InstallerNext]_installerVars
  PROVE  [Contract!Next]_(Contract!contractVars)
<1>1. HostInv
  BY DEF InstallerInv
<1>2. ASSUME NEW t \in Tools, Press(t) \/ Type(t) \/ Refresh(t)
      PROVE  UNCHANGED hostVars
  BY <1>2 DEF Press, Type, Refresh, Begin
<1>3. CASE UNCHANGED hostVars
  BY <1>1, <1>3, ContractStep
<1>4. CASE Purge
  BY <1>4 DEF Purge, goVars, Contract!Forget, Contract!Next
<1>5. CASE Host
  BY <1>1, <1>5, ContractStep DEF Host, HostNext, World
<1> QED
  BY <1>1, <1>2, <1>3, <1>4, <1>5, DoKeepsContract DEF InstallerNext, installerVars

(***************************************************************************)
(* Under the tools, and across the service's removal and registration, the *)
(* service keeps the same contract (service_windows.go, Execute;           *)
(* installer.go).                                                          *)
(***************************************************************************)
THEOREM InstallerKeepsContract == InstallerSpec => ContractSpec
<1>1. InstallerInit => Contract!Init
  BY ContractInit DEF InstallerInit
<1> QED
  BY <1>1, InstallerInvHolds, InstallerContractStep, PTL
     DEF InstallerSpec, ContractSpec, Contract!Spec

-----------------------------------------------------------------------------
(***************************************************************************)
(* The install button, of one tool.                                        *)
(***************************************************************************)
LEMMA InstallKnowsInit == InstallerInit => InstallKnows
  BY DEF InstallerInit, InstallKnows

\* A call made, the tool knows what it did of the service it is installing.
LEMMA DoKeepsInstall ==
  ASSUME InstallerInv, InstallKnows, NEW t \in Tools, Do(t)
  PROVE  op'[t] = "install" /\ ~ Has(todo'[t], {"create"})
           => registered' = "yes" /\ loaded' \in {Broken, env'}
<1> SUFFICES ASSUME op'[t] = "install", ~ Has(todo'[t], {"create"})
             PROVE  registered' = "yes" /\ loaded' \in {Broken, env'}
  OBVIOUS
<1>1. /\ ToolsTyped /\ ToolKnows(t) /\ HostInv /\ RecordKnows
      /\ todo[t] \in Seq(Calls) /\ todo[t] # <<>> /\ Len(todo[t]) \in Nat
      /\ Head(todo[t]) = todo[t][1] /\ 1 \in 1..Len(todo[t])
  <2>1. todo[t] \in Seq(Calls) /\ todo[t] # <<>>
    BY DoMoves DEF InstallerInv, ToolKnows, Sound, Idle
  <2> QED
    BY <2>1 DEF InstallerInv
<1>2. ~ Fail(t)
  BY <1>1 DEF ToolsTyped, Fail, Return
<1>3. op[t] = "install"
  BY <1>1, <1>2, DoMoves DEF Advance, Return, ReadEnv, ToolsTyped
<1>4. CASE Head(todo[t]).call = "create"
  <2>1. Create(t)
    BY <1>4 DEF Do, At, AskToStop, AwaitStopped, AskToStart, AwaitRunning, Open, Delete,
       SetRecovery, ReadEnv, CheckPort, SaveEnv, Firewall
  <2>2. registered = "no" /\ registered' = "yes" /\ UNCHANGED <<loaded, env>>
    BY <1>2, <2>1 DEF Create, hostVars, goVars
  <2>3. loaded = Broken
    BY <1>1, <2>2 DEF RecordKnows, HostInv, ExecuteKnows
  <2> QED
    BY <2>2, <2>3
<1>5. CASE Head(todo[t]).call # "create"
  <2>1. ~ Has(todo[t], {"create"})
    <3> SUFFICES ASSUME Has(todo[t], {"create"}) PROVE FALSE
      OBVIOUS
    <3>1. PICK i \in 1..Len(todo[t]) : todo[t][i].call = "create"
      BY DEF Has
    <3>2. ASSUME NEW n \in {1, 2}, todo' = [todo EXCEPT ![t] = SubSeq(todo[t], n + 1, Len(todo[t]))],
                 n < i
          PROVE  FALSE
      <4> DEFINE rest == SubSeq(todo[t], n + 1, Len(todo[t]))
      <4>1. n \in 1..Len(todo[t]) /\ i - n \in 1..Len(rest) /\ rest[i - n] = todo[t][i]
        BY <1>1, <3>2
      <4>2. todo'[t] = rest
        BY <1>1, <3>2 DEF ToolsTyped
      <4> QED
        BY <3>1, <4>1, <4>2 DEF Has
    <3>3. i > 1
      BY <1>1, <1>5, <3>1
    <3>4. ASSUME Head(todo[t]).call \in {"stop", "start"} PROVE i > 2
      <4>1. todo[t][2].call \in {"awaitStopped", "awaitRunning"}
        BY <1>1, <3>4 DEF ToolKnows, Sound, Ordered
      <4> QED
        BY <1>1, <3>1, <3>3, <4>1
    <3>5. ASSUME ReadEnv(t)
          PROVE  todo' = [todo EXCEPT ![t] = SubSeq(todo[t], 1 + 1, Len(todo[t]))]
      <4>1. Tail(todo[t]) = SubSeq(todo[t], 1 + 1, Len(todo[t]))
        BY <1>1
      <4>2. todo' = [todo EXCEPT ![t] = Tail(todo[t])]
        BY <3>5 DEF ReadEnv
      <4> QED
        BY <4>1, <4>2
    <3>6. \A n \in {1, 2} : Advance(t, n)
            => todo' = [todo EXCEPT ![t] = SubSeq(todo[t], n + 1, Len(todo[t]))]
      BY DEF Advance
    <3> QED
      BY <1>2, <3>2, <3>3, <3>4, <3>5, <3>6, DoMoves
  <2>2. registered = "yes" /\ loaded \in {Broken, env}
    BY <1>3, <2>1 DEF InstallKnows
  <2>3. Head(todo[t]).call \in Late
    BY <1>1, <1>3, <2>1 DEF ToolKnows, Sound
  <2>4. UNCHANGED <<registered, loaded, env>>
    BY <2>3 DEF Late, Do, At, AskToStop, AwaitStopped, AskToStart, AwaitRunning, Open, Delete,
       Create, SetRecovery, ReadEnv, CheckPort, SaveEnv, Firewall, Launch, hostVars, scmVars, goVars
  <2> QED
    BY <2>2, <2>4
<1> QED
  BY <1>4, <1>5

\* Nothing but the tool touches the record and the file it has written.
LEMMA InstallKnowsStep ==
  ASSUME \A t, u \in Tools : t = u, InstallerInv, InstallKnows,
         [InstallerNext]_installerVars
  PROVE  InstallKnows'
<1> SUFFICES ASSUME NEW t \in Tools, op'[t] = "install", ~ Has(todo'[t], {"create"})
             PROVE  registered' = "yes" /\ loaded' \in {Broken, env'}
  BY DEF InstallKnows
<1>1. ToolsTyped
  BY DEF InstallerInv
<1>2. CASE \E u \in Tools : Do(u)
  BY <1>2, DoKeepsInstall
<1>3. ASSUME NEW u \in Tools, Press(u) \/ Type(u)
      PROVE  FALSE
  <2>1. u = t
    OBVIOUS
  <2>2. ASSUME NEW name, NEW calls, Begin(u, name, calls)
        PROVE  op'[t] = name /\ todo'[t] = calls
    BY <1>1, <2>1, <2>2 DEF Begin, ToolsTyped
  <2>3. \E f \in Forms : todo'[t] = InstallButton(f)
    BY <1>3, <2>2 DEF Press, Type
  <2> QED
    BY <2>3, InstallButtonOrdered
<1>4. ASSUME UNCHANGED <<todo, op>>
      PROVE  registered = "yes" /\ loaded \in {Broken, env}
  BY <1>4 DEF InstallKnows
<1>5. CASE \E u \in Tools : Refresh(u)
  BY <1>4, <1>5 DEF Refresh, hostVars, goVars
<1>6. CASE Purge
  BY <1>4, <1>6 DEF Purge, toolVars
<1>7. CASE Host
  <2>1. UNCHANGED <<todo, op, registered>>
    BY <1>7 DEF Host, toolVars
  <2>2. env' = env /\ loaded' \in {Broken, env, loaded}
    BY <1>7 DEF Host, ProcessStep, LoadFails, Load, Spawn, ReportRunning, TakeStop, AwaitDone,
       TakeDone, Exit, Die, NoProcess, Shut, ShutdownReturns, ServerReturned, Listen, Serve,
       ServeClosed, AcceptFails, ServerEnds, Launch, Restart, OtherTakes, OtherLeaves,
       scmVars, goVars
  <2> QED
    BY <1>4, <2>1, <2>2
<1>8. CASE UNCHANGED installerVars
  BY <1>4, <1>8 DEF installerVars, toolVars, hostVars, goVars
<1> QED
  BY <1>2, <1>3, <1>5, <1>6, <1>7, <1>8 DEF InstallerNext

\* The button ends well only by finding the service running.
LEMMA InstallEndsRunning ==
  ASSUME InstallerInv, InstallKnows, NEW t \in Tools, Do(t),
         op[t] = "install", outcome[t] = "none", outcome'[t] = "ok"
  PROVE  loaded = env /\ registered = "yes"
<1>1. /\ ToolsTyped /\ ToolKnows(t) /\ HostInv
      /\ todo[t] \in Seq(Calls) /\ todo[t] # <<>> /\ Len(todo[t]) \in Nat
      /\ Head(todo[t]) = todo[t][1] /\ 1 \in 1..Len(todo[t])
      /\ todo[t][Len(todo[t])].call = "awaitRunning"
  <2>1. todo[t] \in Seq(Calls) /\ todo[t] # <<>>
    BY DoMoves DEF InstallerInv, ToolKnows, Sound, Idle
  <2> QED
    BY <2>1 DEF InstallerInv, ToolKnows, Sound
<1>2. ~ Fail(t) /\ ~ ReadEnv(t)
  BY <1>1 DEF ToolsTyped, Fail, Return, ReadEnv
<1>3. ASSUME NEW n \in {1, 2}, Advance(t, n), n \in 1..Len(todo[t])
      PROVE  Len(todo[t]) = n
  <2>1. SubSeq(todo[t], n + 1, Len(todo[t])) = <<>>
    BY <1>1, <1>3 DEF Advance, ToolsTyped
  <2>2. Len(SubSeq(todo[t], n + 1, Len(todo[t]))) = Len(todo[t]) - n
    BY <1>1, <1>3
  <2>3. Len(todo[t]) - n = Len(<<>>)
    BY <2>1, <2>2
  <2> QED
    BY <1>1, <2>3
<1>4. ASSUME Head(todo[t]).call \in {"stop", "start"}
      PROVE  /\ 2 \in 1..Len(todo[t])
             /\ Head(todo[t]).call = "stop" => todo[t][2].call = "awaitStopped"
  BY <1>1, <1>4 DEF ToolKnows, Sound, Ordered
<1>5. \/ Advance(t, 1) /\ Head(todo[t]).call = "awaitRunning" /\ Len(todo[t]) = 1
      \/ Advance(t, 2) /\ Head(todo[t]).call = "start" /\ Len(todo[t]) = 2
  <2>1. CASE Advance(t, 1)
    BY <1>1, <1>3, <2>1
  <2>2. CASE Advance(t, 2) /\ Head(todo[t]).call \in {"stop", "start"}
    BY <1>1, <1>3, <1>4, <2>2
  <2> QED
    BY <1>2, <2>1, <2>2, DoMoves
<1>6. state = "Running"
  <2>1. CASE Head(todo[t]).call = "awaitRunning"
    <3>1. AwaitRunning(t)
      BY <2>1 DEF Do, At, AskToStop, AwaitStopped, AskToStart, Open, Delete, Create,
         SetRecovery, ReadEnv, CheckPort, SaveEnv, Firewall
    <3> QED
      BY <1>2, <3>1 DEF AwaitRunning
  <2>2. CASE Head(todo[t]).call = "start" /\ Advance(t, 2) /\ Len(todo[t]) = 2
    <3>1. AskToStart(t)
      BY <2>2 DEF Do, At, AskToStop, AwaitStopped, AwaitRunning, Open, Delete, Create,
         SetRecovery, ReadEnv, CheckPort, SaveEnv, Firewall
    <3>2. ~ Advance(t, 1)
      BY <1>1, <1>3, <2>2
    <3> QED
      BY <1>2, <3>1, <3>2 DEF AskToStart, Status
  <2> QED
    BY <1>5, <2>1, <2>2
<1>7. ~ Has(todo[t], {"create"})
  <2>1. ASSUME NEW i \in 1..Len(todo[t]) PROVE todo[t][i].call # "create"
    <3>1. i = 1 \/ i = Len(todo[t])
      <4>1. CASE Len(todo[t]) = 1
        BY <4>1
      <4>2. CASE Len(todo[t]) = 2
        BY <4>2
      <4> QED
        BY <1>5, <4>1, <4>2
    <3> QED
      BY <1>1, <1>5, <3>1
  <2> QED
    BY <2>1 DEF Has
<1>8. registered = "yes" /\ loaded \in {Broken, env}
  BY <1>7 DEF InstallKnows
<1>9. loaded # Broken
  BY <1>1, <1>6 DEF HostInv, ExecuteKnows, Loads
<1> QED
  BY <1>8, <1>9

(***************************************************************************)
(* With one tool at work: when the install button ends well, what runs is  *)
(* the service just registered, given the .env now on disk, whatever the   *)
(* old process, its crashes and the SCM's restarts did meanwhile           *)
(* (gui_windows.go, handleButtonClick; installer.go, install and start).   *)
(***************************************************************************)
THEOREM InstallerStartsSavedFile ==
  ASSUME \A t, u \in Tools : t = u
  PROVE  InstallerSpec => InstallStartsSavedFile
<1>1. InstallerInv /\ InstallKnows /\ [InstallerNext]_installerVars => InstallKnows'
  BY InstallKnowsStep
<1>2. InstallerInv /\ InstallKnows /\ [InstallerNext]_installerVars =>
        [\A t \in Tools :
           op[t] = "install" /\ outcome[t] = "none" /\ outcome'[t] = "ok"
             => loaded = env /\ registered = "yes"]_installerVars
  <2> SUFFICES ASSUME InstallerInv, InstallKnows, InstallerNext, NEW t \in Tools,
                      op[t] = "install", outcome[t] = "none", outcome'[t] = "ok"
               PROVE  loaded = env /\ registered = "yes"
    OBVIOUS
  <2>1. CASE \E u \in Tools : Do(u)
    BY <2>1, InstallEndsRunning
  <2>2. ASSUME NEW u \in Tools, Press(u) \/ Type(u) \/ Refresh(u) PROVE FALSE
    BY <2>2 DEF Press, Type, Refresh, Begin, InstallerInv, ToolsTyped
  <2>3. CASE Purge \/ Host
    BY <2>3 DEF Purge, Host, toolVars
  <2> QED
    BY <2>1, <2>2, <2>3 DEF InstallerNext
<1> QED
  BY <1>1, <1>2, InstallerInvHolds, InstallKnowsInit, PTL
     DEF InstallerSpec, InstallStartsSavedFile

=============================================================================
