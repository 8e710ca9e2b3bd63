# Remote PC Controller: TLA+ models, checks and proofs

A Siri shortcut asks **Relay** (`relay/`) to hibernate a PC. Relay builds and signs
one command and posts it to **Sentinel** (`sentinel/`) on that PC, which validates
it, claims it in its replay store, answers, and has Windows hibernate. Sentinel is
a Windows service; a window and a few subcommands of `sentinel.exe` install,
configure, start and stop it. This directory models all of that path in TLA+,
checks it with TLC on small instances, and proves all of its safety with TLAPS for
every instance.

Run `tlc -config X.cfg M` for the pairs of section 4, and `tlapm` on the eight modules
`*Proofs.tla`.

## 1. Inventory

| Component | State | Operations | Talks to |
|---|---|---|---|
| Replay store, `sentinel/src/replay/store.go` | a mutex; a map from a prefixed id or nonce to the Unix second at which it may be forgotten | `NewStore`, `Claim` | called by `Service.Accept`, from many handlers at once |
| Command policy, `sentinel/src/command/policy.go` | none | `Validate`, `ReplayUntil`, `Canonical` | called by `Service.Accept` |
| Command service and handler, `sentinel/src/command/service.go`, `httpapi/handler.go` | one goroutine per request, one more per accepted command | `command`, `Accept`, `Execute`, `execute` | policy, store, notifier, executor |
| Executor, `sentinel/src/windows/executor.go` | none; freezes the whole process when it succeeds | `Execute` (`shutdown.exe /h`) | Windows |
| Notifier, `sentinel/src/notify` | none | `NotifyActionExecuted`, `NotifyValidationFailure`, each in a goroutine | the user's session |
| Sentinel's process, `sentinel/src/app` | context, two channels, the server, the SCM's request channel | `runtimeFromExecutable`, `Runtime.Run`, `Execute` | Service Control Manager (SCM), `net/http` |
| Configuration, `config/config.go` of both programs | the `.env` file; Relay's environment | `Load`, `LoadWithDefaults`, `Save`, `parseDotEnv`, `InspectPublicKey` | process, window, installer |
| The window's fields, `sentinel/src/installer/gui_windows.go` | five fields | `LaunchGUI`, `createControls`, the two key buttons, `saveCurrentEnv` | `.env`, `keys.txt`, the clipboard |
| Installer, `sentinel/src/installer` | the SCM's record, the firewall rule, what the window shows | `install`, `uninstall`, `start`, `stop`, the buttons, a 1.5 s timer | SCM, firewall, `.env`, the port |
| Relay, `relay/src` | none between orders | `create`, `Deliver`, `Build`, the HTTP client | Siri, Sentinel |

What is hard here, and what makes each part correct:

* **Store.** Claims come in any order, each with a clock reading its caller took
  before it waited for the mutex. Correct: two claims that share an id or a nonce
  are not both granted before the end of either; a claim is refused only for a
  grant still in force; a refused claim leaves nothing behind.
* **Handlers.** Contexts end, writes fail, the process drains or dies and the PC
  hibernates between any two steps. Correct: the answer, the notice and what was
  done agree; an acknowledged order is tried.
* **Relay and the path.** Posts and responses are lost or late; clocks differ.
  Correct: Siri is told 202 only of an accepted order; Sentinel refuses what Relay
  built only for being late; every order is answered.
* **Service.** A stop, the failure of the listener and the start of the listener
  race over three goroutines. Correct: Stopped means that nothing listens; a stop
  completes; a service that no longer listens ends.
* **Installer.** Its operations are sequences of calls, some of whose errors are
  ignored and whose waits have deadlines, while the SCM and the service go on.
  Correct: an install that ends well has started the new service with the saved
  file.
* **Configuration.** One text goes through several hands: typed, pasted or written by
  hand, read by the window, written by `Save`, read by `Load`; and each program has
  its own copy of the parser. Correct: what the window saves the service reads and the
  window shows again; a save cut short is refused or harmless; the same DEVICE_ID
  names the same device on both sides.

`PROJECT.json` lists every hazard at its line, with the properties that cover it or
the reason why none does.

## 2. Modules

```
ReplayGuard <== ReplayStore  --- INSTANCE --- Sentinel --- EXTENDS --- CommandPolicy
 (abstract)                                      |                          |
                                           RemoteControl --- INSTANCE --- Relay
RemoteOrder <== RemoteControl
 (abstract)
ServiceContract <== ServiceHost --- EXTENDS --- Installer
 (abstract)
EnvFile --- EXTENDS --- SentinelConfig --- EXTENDS --- Setup
   \--- EXTENDS --- RelayConfig ------- INSTANCE ------'

proofs:  ReplayStoreProofs <-- SentinelProofs <-- RemoteControlProofs
         ServiceHostProofs <-- InstallerProofs
         EnvFileProofs <-- SentinelConfigProofs <-- SetupProofs
```

| Module | What it models |
|---|---|
| `ReplayGuard` | What a replay protector promises, with no map: a set of grants and the latest second anyone claimed at. |
| `ReplayStore` | `store.go`. `entries` is the map; `Claim` holds the mutex from its purge to its insertions, so it is one step, `Grant` or `Refuse`. `grants`, `horizon` are history. |
| `CommandPolicy` | `policy.go`: the checks in order, the canonical fields, the end of the replay entry. An instant is a number of ticks, a command's times whole seconds, so that truncation counts. |
| `Sentinel` | Handlers, goroutines, process and PC. `pc[r]` is where request `r`'s handler is; reading the clock, claiming, notifying, writing and spawning are separate steps. |
| `Relay` | One order: checks, `Build` with the truncated second, the post, the answer; `wire` and `back` are the connection. |
| `RemoteControl` | Relay, connection and Sentinel side by side, the clocks a fixed offset apart. |
| `RemoteOrder` | What the path promises for each order: taken or turned away, acknowledged only once taken, tried at most once and only after that, and never told more than happened. `OrderSpec` of `RemoteControl` is the refinement: acknowledged are the requests with reply 202, tried those whose task has ended, and Siri was told Relay's answer. |
| `ServiceContract` | What the service promises the SCM: states in the order Windows wants, a stop pending only if asked for and only then a clean end, one stretch of serving in each run, and no end reported while it lasts. |
| `ServiceHost` | `Execute` (`execute`), `Runtime.Run` (`runner`), the goroutine of `ListenAndServe` (`server`), their channels (`control`, `errCh`, `done`), and the SCM (`state`, `exit`, `recovery`). `ContractSpec` is the refinement: told is `state`, asked a stop in the channel while Running, serving what `server` does. |
| `Installer` | The subcommands and buttons as sequences of calls, each saying what follows its failure, over `ServiceHost`. |
| `EnvFile` | `parseDotEnv` over a text of tokens, as a recursive function of how much of the text is read (`Read`: `Consume` takes a token, `EndLine` is one turn of the loop), and PEM blocks in such a text. |
| `SentinelConfig`, `RelayConfig` | The two `config.go`: `Load`, `LoadWithDefaults`, `Save`, `InspectPublicKey`; `get`, `loadPrivateKey`. |
| `Setup` | The file between the administrator's hand, the window (`box` are its fields, `window` whether it is open or has panicked) and the service that will read it, and what Relay is deployed with. `saved`, `torn` are history. |
| `SentinelClaims`, `ServiceClaims`, `InstallerClaims`, `SetupClaims` | What the repository says and the code does not do (section 6). |
| `MC*` | Small instances for TLC. |
| `ReplayStoreProofs`, `SentinelProofs`, `RemoteControlProofs`, `ServiceHostProofs`, `InstallerProofs` | Theorems, each on top of those of the module it composes. |
| `EnvFileProofs`, `SentinelConfigProofs`, `SetupProofs` | What the parser does with every text; what is read of a key, of a file `Save` wrote and of its beginnings; the theorems about `Setup`. |

Decisions worth knowing when reading them next to the code:

* Signatures are records of a key and a text, so a signature verifies exactly under
  the key and for the text it was made with. Ids and nonces Relay draws never repeat.
  The canonical text is the tuple of its fields: no field of a command that gets as
  far as the signature check is taken to contain the separator.
* A cancelled context is one more outcome of each check that looks at it. `Encode`
  may report a write error: that is what the contract of `http.ResponseWriter` allows.
* `NotifyActionExecuted` starts a goroutine; `notice` says that it was called.
* Hibernation freezes every goroutine where it is, at once; `Wake` lets them go on.
  `Handle` and `Execute` are enabled only while the PC is on. The clock goes on.
* `ClockSteps` says whether the wall clock may be set. Relay's and Sentinel's clock
  drift by nothing within one behaviour.
* Restarts empty the store (`NewRuntime` makes a new one); with it the history starts
  anew, so the guard's promise is about one process life.
* An order Relay posted may be lost, or reach Sentinel after Relay gave up: neither
  `GiveUp` nor a dead Relay takes the post back. It is never sent twice: a POST is
  not retried by the client.
* `Turn` of `Sentinel` (405, 413, or 400 for a body that is not one command) is not on
  the path: Relay posts one whole command, taken to fit the limit, of which the default is
  65536 bytes; a body cut on the way has no connection left to be answered on. One
  `DeviceID` is both sides'; that the same text means the same device is `SidesAgree`.
* The firewall has a set of ports open under Sentinel's name: the removal of the old rule
  may fail unnoticed (`firewall_windows.go:42`), and so may what is added.
* The window looks for a key in three places for a `keys.txt`, in order, and takes the first
  that has one (`Places`, `FoundKey`).
* SCM: it restarts a process only if that ended without reporting Stopped; a deleted
  service keeps a marked record until its process has ended and the last handle is
  closed (`Purge`, any time later), and a name with a record cannot be created.
* `config.Save` may fail and leave the old file or a cut one; its error is ignored.
* A tool's fields, its operation and the port it read are reset when it ends; they
  are local variables of Go calls.
* A text of `EnvFile` is a sequence of tokens: blank, carriage return, line feed, `#`,
  `=`, the two quotes, the two escapes, the lines of PEM blocks, and words (`Tokens`). The
  parser tells just these apart; a number is a word of a set of valid ones. `Pem` leaves
  out headers and types of key: a body is one word, a key if it is in the constant; what
  begins like a block and is none is passed over, as `pem.Decode` does, and the first
  block has to be the key.
* What was parsed is a function from the names either program asks for (`Names`) to
  texts, a name that was not given having the empty text: so is a Go map read with `[]`,
  and no code asks whether a key is in it. Other names of a file are read and dropped.
* A panic of the window's thread is its end (`window = "crashed"`); the window may be
  opened again. `InspectPublicKey` and `Extract` return `Panics` where the Go code
  slices out of range.
* `TornSave` is the PC or the process going down inside `os.WriteFile`: any proper
  beginning of the text, at the boundary of a token. An empty text is among them.
* The buttons' own checks are `Installable`; `SaveFields` does not ask for it, since
  the start button saves without asking.
* Errors the tool ignores (`_ = stop()`, `_ = s.Delete()`) are the "skip" and "wait"
  of the call sequences.

## 3. Bounds

| Constant | Bound | Why it is enough |
|---|---|---|
| `MaxClock` | 1 to 8 ticks, two to the second, one in `sentinel_restarts`; 8 on the path | the windows used end at seconds 1 and 2, plus a skew of 1: readings before, at and after every end occur, on and between whole seconds |
| `ClockSkew`, `MaxValidity` | 1; 1 or 2 | the comparisons are linear in them; 1 keeps each boundary a distinct tick |
| Requests | 2 or 3; 1 order on the path | a stale claim needs three: the first one, the one that purges, and the repetition. No two orders share an id or a nonce, so that they meet nowhere but in the clock and the ends of the processes; the theorems of section 5 are about any number |
| Commands | 1 to 4 | two with windows a second apart; one reusing a nonce, one for another device, one altered |
| `MaxStarts` | 1 or 2 | the second life shows what a restart loses |
| `Offsets` | -2, -1, 1, 2 ticks | both signs, a fraction of a second and the whole skew |
| Bodies of an order | 3 | one Relay signs, one without a device, one with an action there is not |
| Callers of the store | 3, with 2 names used as ids and nonces alike | the prefixes of the keys matter; a third caller can be the one that purges |
| Ports | 2; 1 in the run `installer` | with one port and two bodies of `.env` the old file still differs from the new one |
| Tools | 1 | the window is a single instance and most calls of two tools differ only in which fails; two tools are planned |
| `MaxEdits` | 2 | an edit and a second one between saves: of the file and Relay's deployment, of two fields, or of a key and a save cut short. Every other step of `Setup` is unbounded |
| Texts of `MCSetup` | 16 files, 13 keys, 7 devices, 10 deployments | one for each way a line, a quote, an escape, a comment or a line end is treated; a file whose quote is never closed, one whose quote opens a value of several lines |

`MaxClock`, `MaxStarts` and `MaxEdits` are named in the guards. Symmetry is used over requests
only, in `sentinel_concurrent`, which checks no liveness.

## 4. Runs

| Run | Distinct states | Shows |
|---|---|---|
| `replay_store` | 2 953 | the store implements the guard, whatever the order of claims and readings: `GuardSpec`, `EntriesMatchGrants`, `AtMostOnce` |
| `sentinel_concurrent` | 1 219 297 | three concurrent requests over two commands: `RepeatRefusedWhileOpen`: no repetition while the first window is open by the wall clock |
| `sentinel_restarts` | 268 380 | two lives, drains, crashes, hibernation and a clock that may be set: `AnswersTellTheTruth`, and `AcknowledgedRuns`: a command answered 202 is tried once the PC stays on, unless the process ends first |
| `path` | 448 992 | an order, clocks up to a whole skew apart, lost posts and responses, both processes ending, Sentinel starting again: `AcceptedAnswerIsTrue`; `OrderSpec`: the path implements `RemoteOrder`, so an order turned away is never taken and none is tried twice; `RejectedOnlyIfLate`; `EveryOrderAnswered` |
| `service_host` | 2 440 | `StoppedServesNobody`, `ContractSpec`: the service implements `ServiceContract`, `StopCompletes`, and `RunningServesOrEnds`: a service reported Running, which it is before its port is bound, comes to serve or ends |
| `installer` | 2 186 142 | `InstallStartsSavedFile` with every button and subcommand |
| `settings` | 117 187 | `SavedIsRead`: the service reads what the window saved, however it was quoted, escaped or (in one way) broken into lines; `SavedIsShown`: so does the next window; `UntouchedSaveKeeps`: a save with nothing typed keeps port, device, key and skew; `TornSaveFailsClosed`: a save cut short is refused or complete in what counts; `OpenDeviceIsRefused`: so is every save of a device that opens a quotation, which swallows the key; `SidesAgree`: one text of a device is one device to both programs |
| `claim_*` | | the five disagreements of section 6, each in a run of its own; TLC is expected to find the counterexample |

Each run of a passing property has a mutant in `PROJECT.json`: an operator beside the
one it replaces (`... AsIs`, `... Unprefixed`) with a plausible mistake, under which
TLC finds the property violated.

Deadlock is checked for the store, the service, the installer and the settings, which
never stop.
Sentinel and the path may: every request is done, the clock is at its bound.

**Fairness.** `Sentinel`: weak fairness of each handler and each goroutine, which is
the Go scheduler; neither the user's waking the PC, nor arrivals, starts and stops
are fair. `RemoteControl`: weak fairness of Relay's handlers, of which `GiveUp` is
the 15 s of the HTTP client. `ServiceHost`: weak fairness of the three goroutines and
of the SCM's restart; not of `Launch`, `AskStop`, `Die` or other programs.

## 5. Proofs

TLAPS checks 9 969 obligations in eight modules; every invariant and every action
property the runs check, and each refinement, is a theorem. Every theorem is about all values of
the constants. Assumptions are those on the constants, each named in the module that
declares them and evaluated by the runs; no bound of section 3 is among them, other
than that `MaxClock` and `MaxStarts` are natural numbers. Besides ranges they say:

* `PathAssumption`: Relay's validity is at most what Sentinel allows, and the two clocks
  differ by at most the skew; `CommandsAssumption`: what Relay can build is among the
  commands Sentinel is checked with, and the ids it draws are not the empty text.
* `FormsAssumption`, `SavedAssumption`, `EnvFilesAssumption`: a file `config.Load` takes
  names a port; what a window may save is among the files considered.
* `FileAssumption`: the marks and names are tokens, and the model values for no file and
  a malformed one are no texts. `WordsAssumption`: ports, sizes, skews and keys are words,
  the defaults are among them, and the host has a name with no blanks around it that is
  no comment or quotation. `OutcomesAssumption`: an error, a panic and a result differ.
* `SetupAssumption`: files and fields are texts. They may be any texts, with every mark in
  every place. `KeysAssumption`: `keys.txt` is one `generate_keys.sh` writes, its END
  after its BEGIN.

Each inductive invariant was first an invariant of a TLC run on the instance of section
4, then proved.

*The store* (`ReplayStoreProofs`). The invariant is
`StoreInv == TypeOK /\ EntriesMatchGrants /\ AtMostOnce`. `AtMostOnce` alone is not
inductive: it has to be known that a grant whose end the horizon has not reached
still has both entries, with its own end (`GrantsRemembered`), and that an entry was
put there by a grant (`EntriesFromGrants`). Two lemmas connect keys and claims: keys
meet exactly on a clash, and free keys mean that every clashing grant is past its
end. From these the four theorems: `StoreTyped`, `StoreRemembers`, `StoreGrantsOnce`
and the refinement `StoreImplementsGuard`.

*The process* (`SentinelProofs`), for any requests, commands, starts and clock.

* `ProcessInv` types the variables and says what each label of a handler knows: a
  command from decoding on, acceptance exactly from the claim on, and that every
  grant was made to an accepted request for its own command. It makes every step of
  the process a step of the store or a stutter (`StoreStep`), so the store's
  theorems hold inside it, and with them `SentinelTyped`.
* `TruthInv` adds what each label implies for reply, notice, task and verdict, from
  which `SentinelTruthful`. The hard part is 409: the request it names must stay
  accepted although the store that knew it may be gone.
* `ClockInv`: no reading still held, and no claim served, is ahead of the wall clock.
  With it `SentinelRefusesRepeats`: if the clock is never set, a repetition is not
  accepted while the first window is open by the wall clock, however old the
  reading its handler claims with.

*The path* (`RemoteControlProofs`), for any orders, bodies, restarts and offsets.

* `JourneyInv` says for each order which of `rpc`, `wire`, `back`, `answer` and Sentinel's
  `pc` go together (`RelayKnows`), that what was posted is what `Build` made of the order
  at the time noted (`CommandKnows`), and that the handler has that command or none
  (`HandlerKnows`). With `ProcessInv` it gives `PathTyped` and `PathRunsSentinel`: behind
  Relay and the network, Sentinel takes only steps of its own specification. So what
  was proved of `Sentinel` holds on the path (`SentinelInv`) with no second proof.
* `BackIsReply` needs that a handler answers once (`AnswersOnce`): the response under way
  stays what the handler wrote. With it `PathAnswersTruly`: told 202, Siri's own order
  was accepted; turned away by Relay, nothing of it reached Sentinel.
* `PathKeepsPromise`, the refinement of `RemoteOrder`: each step of the path is one of
  `RemoteOrder` or invisible to it. The case that needs the invariants is Relay's
  answer, which may come before, between or after the deeds of Sentinel.
* `PathRefusesOnlyLate`: `BuiltFailsOnlyLate` shows that a command Relay built, if the two
  keys are of one pair, passes every check of `Validate` but those of time, and fails
  them only when the validity less the truncated second is over; `OrdersNeverClash` that
  `Claim` never refuses it, since no two orders share an id or a nonce. That the keys are of one pair is the theorem's hypothesis.

*The service* (`ServiceHostProofs`), for any ports and files. `StoppedServesNobody` is not
inductive: that Execute has reported an end says nothing of the listener unless the
channels are known. `HostInv` says which goroutines exist at each point of `Execute` and
what the SCM was told there (`ExecuteKnows`), that `Run` returns only once the server is
closing or has ended and that a message in a channel comes from one that has
(`RunKnows`), that a process at its end has no run or a returned one (`EndKnows`), and that
the port is Sentinel's exactly while it listens (`PortsKnow`). From it `HostTyped`,
`HostServesNobodyStopped`, and step by step the refinement `HostKeepsContract`.

*The installer* (`InstallerProofs`), for any ports, files and fields.

* Every operation is a sequence of calls; `Ordered` says what all keep to (a stop is
  followed by its wait, a start by the last wait, after the registration come only late
  calls), and `Sound` what belongs to the calls still to make: that the fields they save
  or open were read, and the port as well. `Ordered` of what is left follows from
  `Ordered` of the whole (`RestOrdered`), so that no step has to know which operation a
  tool is at, nor how far. `RecordKnows` ties the SCM's record to the process.
* For any number of tools at once: `InstallerTyped`, `InstallerServesNobodyStopped`, and
  `InstallerKeepsContract`: whatever they do, the service keeps its contract.
* For one tool: `InstallKnows` (once the service is registered, what runs was given the
  file that is on disk) and with it `InstallerStartsSavedFile`. With two it is
  false: the other one may save while the first waits. The hypothesis says so.

*The text of the configuration* (`EnvFileProofs`, `SentinelConfigProofs`, `SetupProofs`),
for any tokens, files, fields and keys, of any length.

* The parser is a recursive function of how much of the text is read. The prover has no
  induction over an operator, but `SetInduction` (from the least-number principle) over a
  set of numbers, here the lengths for which a fact holds, is enough: `ReadAppend` (one
  token more is one `Consume` more), `ReadTyped`, and what a whole line does to a parser
  between two values: the lines `Save` writes are each read as the name and value they
  give, one after the other (`LineRead`).
* A key goes through trimming, the removal of carriage returns, the joining of its lines, the
  parser's unescaping and `InspectPublicKey`'s. That the same key comes out
  is proved position by position: `Thinned` relates a text to one with some tokens
  dropped, in order, and a line that stands alone stays alone (`OwnLineThinned`). It needs
  `Regular`; the first proof attempt, with only line ends of one kind assumed, failed on a
  text with two blocks, the reason `Regular` asks for one.
* `SavedFile`, the inductive invariant: a save not yet overwritten is, whole or cut at some
  token, what `Save` made of the fields noted in `saved`. From it `SavedIsReadAlways`;
  `SavedIsShownAlways` (of legible fields the parser makes values, so the window opens, and
  accepted ones it shows as they were but for blanks and line ends);
  `UntouchedSaveKeepsAlways`; and `TornSaveFailsClosedAlways`, where the file ends inside
  some line: the lines before are read whole, what stands of that one gives an error, no
  value, or a beginning of its value, and as the key is written after port and device, a
  file with a key has those.
* `OpenDeviceIsRefusedAlways`. Once a device has opened a quotation, the key's line is inside
  it or behind its end, so no key is read; if the port had opened one before, the key may be
  read, but the port has several lines or none. `Lost` is the fact about the parser that
  covers both (a name has one of certain values), and each line that is another name's, or is inside
  a quotation, keeps it (`LineRefused`), to the end and at every cut.
* `SidesAgreeAlways`. Relay's copy of the parser is the same function (`SameParse`, operator
  by operator). A text that does not hold a name never gives it a value (`Avoids`,
  `NeverGiven`); so a file whose only DEVICE_ID begins a line gives the device that line
  says, whatever is before and after it (`GivenOnce`), unless an open quote swallows it, and
  then it has none and `Load` refuses the file.
* `SetupTyped` needs that no key in a file makes the live check panic and the window go on:
  `Show` closes the window on the panic, which is why the fields of an open one are safe.

Proving these corrected four statements that TLC had passed on its instance. `SidesAgree`
was false of files that name a device twice, of one in an open quotation of another name,
of a quoted value with an escaped line end at its end, and of a file beside an environment;
`SavedIsRead` and `UntouchedSaveKeeps` of a key with two blocks, or with a written `\r` that
no `\n` follows; `SavedIsShown` of fields that the file would turn into a quotation. Each is stated now as it holds, with what it leaves out in section 6.

**Only model-checked.** Liveness under fairness (`AcknowledgedRuns`, `EveryOrderAnswered`,
`StopCompletes`, `RunningServesOrEnds`) is beyond the prover. The runs that find the five
disagreements of section 6 give counterexamples and need no proof.

## 6. Where code and documents disagree

By a run:

* `claim_boundary`: at exactly `expiresAt + skew` `Validate` still approves a command
  and `Claim` has already purged its entry (`expiry <= nowUnix`, `store.go:30`), so a
  repetition at that instant passes; `policy.go:98` says the entry is kept through
  the allowance.
* `claim_stale_reading`: `Accept` reads its clock before `Claim` waits for the lock
  (`service.go:117`). A handler with a later reading can purge in between; the older
  one is then granted a repetition. The time by the wall is past the window by then,
  which is why `RepeatRefusedWhileOpen` holds.
* `claim_failure_restarts`: recovery actions cover crashes only (`installer.go:115-121`);
  the end Execute reports itself, for a taken port say, is not followed by a restart,
  which the plan (`docs/PLAN_HIBERNACION_SIRI.md:224`) asks for.
* `claim_started_port`: the start button announces "escuchando en 0.0.0.0:port" though
  `start()` found the service already running with the previous port.

* `claim_update`: a window opened and saved with nothing typed writes back five of the six
  keys (`gui_windows.go:606`): MAX_BODY_BYTES becomes the default, and
  ENABLE_NOTIFICATIONS=0 becomes true (the box knows only "false", line 358). The plan
  (line 222) asks an update to keep the file. `UpdateKeepsFile` says so;
  `UntouchedSaveKeeps` says what is kept, and leaves these two open.

In the models, without a run of their own:

* The store is in memory (`runtime.go:28`); the plan (line 135) asks for processed ids
  to persist through the window.
* The notice says "se validó y ejecutó" (`notify_windows.go:50`) before anything is
  executed (`handler.go:67`).
* A stop does not wait for the goroutine of `handler.go:81`: an acknowledged order can
  be lost with the process, against the plan (line 233).
* Relay answers 502 "sentinel unavailable" (`handler.go:59-60`) also when only
  Sentinel's response was lost or late; `relay/deploy/README.md:168` explains 502 as
  an unreachable Sentinel. A repeated order then hibernates the PC twice.
* The body of the `curl` of `relay/deploy/README.md:162` names no device and is
  answered 400 (`command.go:53`), not 202 (line 165).
* A device that had to be quoted is written without its quotes by an untouched save, so
  that it may mean another one; `Untouched` leaves such devices out, and a key that is not
  `Regular` (below). The install button checks port and key but not the skew, so it can save a
  file `config.Load` refuses (`Accepted` asks for the skew too).
* The error of `config.Save` is ignored (`gui_windows.go:613`): both buttons go on and
  announce the port of the fields (lines 534 and 561), though the file may name the old one.
* A device that begins with a quote, typed into the window, is saved as it is and makes
  the file malformed or swallows the lines after it, so that the service refuses it
  (`OpenDeviceIsRefused`); the next window shows empty
  fields and, with a `keys.txt`, assigns into a nil map (`gui_windows.go:237-248`).
* The install button checks the key as it stands in the field; `Save` writes it without
  carriage returns, its line feeds as `\n` (`config.go:110-111`). A text that has both
  real line feeds and written escapes, in words before the block say, passes the check (and is shown as valid, `gui_windows.go:459`)
  and is read back as another text, with another block or none. The two key buttons take
  from BEGIN to END, so it needs a key typed into the field or a damaged block.
  `Regular` excludes it, and a text with several blocks, of which the form read back may
  have another one first.
* A key of one quote panics in `InspectPublicKey` (`config.go:253`), in the window's
  live check and in `Load`; a text whose END line comes before its BEGIN panics in
  `extractPublicKeyFromText` (`gui_windows.go:926`).
* A field that ends or begins as a quotation would (the key text `"\n` saved by the start
  button, which checks nothing) can leave a file on which the next window panics or
  shows other fields; `Legible` says which fields are safe.
* Relay trims every value (`relay/src/config/config.go:31`), Sentinel none in quotes:
  `DEVICE_ID=" pc"` or `"pc\n"` in both files names two devices. `SidesAgree` excludes it
  (`OnOneLine`), with files that hold DEVICE_ID more than once or elsewhere than at the
  beginning of a line (`OneDevice`): there each program takes the last one that is not in a
  quotation, and the texts compared need not be those read. Sentinel accepts a key whose line ends are written `\r\n`, Relay
  only `\n` (line 165).
* `install()` opens the firewall whatever the box of the window says
  (`installer.go:131`), and deletes the old service before it probes the port
  (`installer.go:95-102`).
* Running is reported before the port is bound (`service_windows.go:67`), so a start
  can end well for a service about to fail.

## 7. Not modelled

The event log, elevation, drawing, the file dialog, the clipboard and the message box
(calls of Windows without state of the program's: what they return is a choice); the
stubs for other platforms; JSON decoding and the random numbers (their outcomes are
choices); `status`, which changes nothing; how keys are made (only the lines of
`keys.txt` are in `Setup`), container and reverse proxy. `Installer` and `ServiceHost`
keep an abstract file (whether it loads, which port it names); `Setup` has its text. Delivery through the reverse proxy is the
connection Siri-Relay, of which only a caller that goes away is modelled.

## 8. Plan

Done, in this order: `ReplayGuard`, `ReplayStore` and its proofs; `CommandPolicy`,
`Sentinel` and its proofs; `Relay`, `RemoteControl`; `ServiceHost`; `Installer`;
then `RemoteOrder` and the refinement; `EnvFile`, `SentinelConfig`, `RelayConfig`,
`Setup`; then the proofs of `RemoteControl`, `ServiceContract` with that of `ServiceHost`,
those of `Installer`, and those of the text of the configuration.

Left:

1. Two tools at once in a run of `Installer` (the window and a terminal), with what
   survives of the agreement between firewall rule and file. The theorems that hold for
   any number of tools cover them already.
2. A shortcut the user repeats, that is one wish and two orders.
3. That the abstract file of `Installer` and `ServiceHost` is an abstraction of `Setup`'s
   text, as a refinement: they would share the variable.
