------------------------------- MODULE Setup -------------------------------
(***************************************************************************)
(* How the two programs come by their settings.  The administrator edits   *)
(* Sentinel's .env by hand or in the window, which reads the file when it  *)
(* opens (LaunchGUI, createControls), takes a key from a file or the       *)
(* clipboard, and writes the file when a button says so (saveCurrentEnv of *)
(* sentinel/src/installer/gui_windows.go); Relay is deployed with a file,  *)
(* an environment or both.  What the buttons do besides saving is module   *)
(* Installer.                                                              *)
(***************************************************************************)
EXTENDS SentinelConfig

CONSTANTS
  HandFiles,    \* the .env files written by hand, NoFile among them
  KeysFiles,    \* what generate_keys.sh may write to a keys.txt
  PortTexts, DeviceTexts, SkewTexts, KeyTexts,  \* what is typed or pasted
  Deployments,  \* Relay's [file, environment]
  NoBox,        \* no fields
  Validities, PrivateKeys,  \* see module RelayConfig
  MaxEdits      \* bound: edits, of files and fields, and saves cut short

\* Where the window looks for a keys.txt, in this order: beside the program,
\* in ../scripts and in scripts.
Places == 1..3

\* The fields of the window
Boxes == [port : Texts, device : Texts, skew : Texts, key : Texts, notify : BOOLEAN]

ASSUME SetupAssumption ==
  /\ HandFiles \subseteq Texts \cup {NoFile} /\ KeysFiles \subseteq Texts
  /\ PortTexts \cup DeviceTexts \cup SkewTexts \cup KeyTexts \subseteq Texts
  /\ \A d \in Deployments : d.file \in Texts \cup {NoFile} /\ d.environment \in Values
  /\ NoBox \notin Boxes
  /\ MaxEdits \in Nat

VARIABLES
  file,     \* Sentinel's .env
  keysTxt,  \* each keys.txt
  relay,    \* what Relay is deployed with
  window,   \* "closed", "open" or "crashed"
  box,      \* its fields
  saved,    \* the fields last saved to the file, if nothing else is (history)
  torn,     \* whether that save was cut short (history)
  edits     \* the number of edits and of saves cut short

Relay == INSTANCE RelayConfig

vars == <<file, keysTxt, relay, window, box, saved, torn, edits>>

\* extractPublicKeyFromText: the first BEGIN to the first END, which may
\* come before it.
Extract(text) ==
  LET from == IndexOf(text, {"begin"})
      to == IndexOf(text, {"end"})
  IN IF from = 0 \/ to = 0 THEN <<>>
     ELSE IF to + 1 < from THEN Panics ELSE Trim(SubSeq(text, from, to))

\* generate_keys.sh writes each block of a key once and in order.
ASSUME KeysAssumption == \A text \in KeysFiles : Extract(text) # Panics

\* createControls: only the word "false" leaves the box unticked.
Fields(values) ==
  [port |-> values["PORT"], device |-> values["DEVICE_ID"],
   skew |-> values["CLOCK_SKEW_SECONDS"], key |-> values["PUBLIC_KEY"],
   notify |-> values["ENABLE_NOTIFICATIONS"] # <<"false">>]

\* Mutant of FieldValues: the skew is forgotten as well.
FieldValuesOfFour(fields) ==
  [NoValues EXCEPT !["PORT"] = fields.port, !["DEVICE_ID"] = fields.device,
                   !["PUBLIC_KEY"] = fields.key,
                   !["ENABLE_NOTIFICATIONS"] = IF fields.notify THEN <<"true">> ELSE <<"false">>]

\* saveCurrentEnv: five of the six values.
FieldValues(fields) ==
  [NoValues EXCEPT !["PORT"] = fields.port, !["DEVICE_ID"] = fields.device,
                   !["CLOCK_SKEW_SECONDS"] = fields.skew, !["PUBLIC_KEY"] = fields.key,
                   !["ENABLE_NOTIFICATIONS"] = IF fields.notify THEN <<"true">> ELSE <<"false">>]

SavedText(fields) == Save(FieldValues(fields))

-----------------------------------------------------------------------------
Init ==
  /\ file \in HandFiles /\ keysTxt = [place \in Places |-> NoFile]
  /\ relay = [file |-> NoFile, environment |-> NoValues]
  /\ window = "closed" /\ box = NoBox
  /\ saved = NoBox /\ torn = FALSE
  /\ edits = 0

Edit == edits < MaxEdits /\ edits' = edits + 1

HandEdit(text) ==
  /\ Edit
  /\ file' = text
  /\ saved' = NoBox /\ torn' = FALSE
  /\ UNCHANGED <<keysTxt, relay, window, box>>

Deploy(deployment) ==
  /\ Edit
  /\ relay' = deployment
  /\ UNCHANGED <<file, keysTxt, window, box, saved, torn>>

GenerateKeys(text) ==
  /\ Edit
  /\ \E place \in Places : keysTxt' = [keysTxt EXCEPT ![place] = text]
  /\ UNCHANGED <<file, relay, window, box, saved, torn>>

Crash == window' = "crashed" /\ box' = NoBox

\* Mutant of Show: there is no live check.
ShowUnchecked(fields) == window' = "open" /\ box' = fields

\* The key's live check runs whenever its field changes.
Show(fields) ==
  IF InspectPublicKey(fields.key) = Panics THEN Crash
  ELSE window' = "open" /\ box' = fields

\* The key of the first keys.txt that has one
FoundKey ==
  LET holding == {place \in Places :
                    keysTxt[place] # NoFile /\ Extract(keysTxt[place]) # <<>>}
  IN IF holding = {} THEN <<>> ELSE Extract(keysTxt[Min(holding)])

\* LaunchGUI: without a key in the file, one is looked for; values is nil when
\* the file is malformed, and nothing can be put into it.
Open ==
  LET values == LoadWithDefaults(file)
      missing == values = Broken \/ values["PUBLIC_KEY"] = <<>>
      found == IF missing THEN FoundKey ELSE <<>>
  IN /\ window # "open"
     /\ UNCHANGED <<file, keysTxt, relay, saved, torn, edits>>
     /\ IF found = Panics \/ (values = Broken /\ found # <<>>) THEN Crash
        ELSE Show(Fields(IF values = Broken THEN NoValues
                         ELSE IF found = <<>> THEN values
                         ELSE [values EXCEPT !["PUBLIC_KEY"] = found]))

Close ==
  /\ window = "open"
  /\ window' = "closed" /\ box' = NoBox
  /\ UNCHANGED <<file, keysTxt, relay, saved, torn, edits>>

Change(fields) ==
  /\ window = "open"
  /\ Edit
  /\ Show(fields)
  /\ UNCHANGED <<file, keysTxt, relay, saved, torn>>

Type ==
  \/ \E text \in PortTexts : Change([box EXCEPT !.port = text])
  \/ \E text \in DeviceTexts : Change([box EXCEPT !.device = text])
  \/ \E text \in SkewTexts : Change([box EXCEPT !.skew = text])
  \/ \E text \in KeyTexts : Change([box EXCEPT !.key = text])
  \/ Change([box EXCEPT !.notify = ~ @])

\* ID_BTN_LOAD_FILE and ID_BTN_PASTE: the text's block, or all of it.
Pick(text) ==
  LET found == Extract(text)
  IN IF found = Panics
     THEN /\ window = "open" /\ Edit /\ Crash
          /\ UNCHANGED <<file, keysTxt, relay, saved, torn>>
     ELSE Change([box EXCEPT !.key = IF found = <<>> THEN Trim(text) ELSE found])

\* What ID_BTN_INSTALL asks of the fields; ID_BTN_START asks nothing.
Installable(fields) ==
  IsOne(Trim(fields.port), Ports) /\ InspectPublicKey(fields.key) \in PublicKeys

\* saveCurrentEnv, of either button; os.WriteFile empties the file first.
SaveFields ==
  /\ window = "open"
  /\ file' = SavedText(box)
  /\ saved' = box /\ torn' = FALSE
  /\ UNCHANGED <<keysTxt, relay, window, box, edits>>

\* The PC or the process goes down while the file is written.
TornSave ==
  /\ window = "open"
  /\ Edit
  /\ LET text == SavedText(box)
     IN \E n \in 0..Len(text) - 1 : file' = SubSeq(text, 1, n)
  /\ saved' = box /\ torn' = TRUE
  /\ Crash
  /\ UNCHANGED <<keysTxt, relay>>

Next ==
  \/ \E text \in HandFiles : HandEdit(text)
  \/ \E deployment \in Deployments : Deploy(deployment)
  \/ \E text \in KeysFiles : GenerateKeys(text)
  \/ Open \/ Close \/ Type \/ SaveFields \/ TornSave
  \/ \E text \in KeyTexts : Pick(text)

Spec == Init /\ [][Next]_vars

-----------------------------------------------------------------------------
\* The types of the variables.
SetupTypeOK ==
  /\ file \in Texts \cup {NoFile}
  /\ keysTxt \in [Places -> KeysFiles \cup {NoFile}]
  /\ relay.file \in Texts \cup {NoFile} /\ relay.environment \in Values
  /\ window \in {"closed", "open", "crashed"}
  /\ (window = "open") = (box # NoBox)
  /\ \A fields \in {box, saved} \ {NoBox} :
       fields \in Boxes /\ InspectPublicKey(fields.key) # Panics
  /\ torn \in BOOLEAN /\ (torn => saved # NoBox)
  /\ edits \in 0..MaxEdits

\* The configuration fields stand for, once they are accepted.
Accepted(fields) ==
  /\ Installable(fields) /\ Plain(fields.device) /\ Regular(Trim(fields.key))
  /\ Trim(fields.skew) = <<>> \/ IsOne(Trim(fields.skew), Skews)

Meant(fields) ==
  [port |-> Trim(fields.port)[1],
   device |-> IF fields.device = <<>> THEN Hostname ELSE Trim(fields.device),
   key |-> InspectPublicKey(fields.key), maxBody |-> "65536",
   skew |-> ValueOr(fields.skew, <<"5">>)[1], notify |-> fields.notify]

(***************************************************************************)
(* What the window saves, the service reads: whatever quotes, escapes,     *)
(* blanks and line ends an accepted field was typed, pasted or loaded      *)
(* with, a key with one block and line ends of one kind, config.Load gets  *)
(* from the file what they say.                                            *)
(***************************************************************************)
SavedIsRead ==
  saved # NoBox /\ ~ torn /\ Accepted(saved) => Load(file) = Meant(saved)

\* Fields, accepted or not, that are written as what they are: none can be
\* taken for a quotation, and the key does not begin or end with an escape.
Legible(fields) ==
  LET key == Trim(fields.key)
  IN /\ Plain(Trim(fields.port)) /\ Plain(fields.device) /\ Plain(Trim(fields.skew))
     /\ key # <<>> => {Head(key), Last(key)} \cap {"esc", "escr"} = {}

(***************************************************************************)
(* What the window saves, it shows again: after a save of legible fields   *)
(* the next window opens, and after one of accepted fields it opens with   *)
(* fields that mean the same and would be accepted again (LaunchGUI).      *)
(***************************************************************************)
SavedIsShown ==
  [][saved # NoBox /\ ~ torn /\ Open
       => /\ Legible(saved) => window' = "open"
          /\ Accepted(saved)
               => window' = "open" /\ Accepted(box') /\ Meant(box') = Meant(saved)]_vars

\* The fields are those a file opens with, and can be written as they are: a
\* device without quotes, a key with one block and line ends of one kind.
Untouched ==
  /\ box = Fields(LoadWithDefaults(file)) /\ Regular(Trim(box.key))
  /\ Plain(box.device) /\ Trim(box.device) = box.device

(***************************************************************************)
(* A window that is opened on a file the service starts with, and saves    *)
(* with nothing typed, leaves a file it starts with on the same port, for  *)
(* the same device, with the same key and the same skew, whichever of them *)
(* were given, and however (LaunchGUI, saveCurrentEnv).  The body size and *)
(* the notifications are left open: see UpdateKeepsFile of SetupClaims.    *)
(***************************************************************************)
UntouchedSaveKeeps ==
  [][SaveFields /\ Load(file) \notin {NoConfig, Panics} /\ Untouched
       => /\ Load(file') \notin {NoConfig, Panics}
          /\ \A part \in {"port", "device", "key", "skew"} :
               Load(file')[part] = Load(file)[part]]_vars

(***************************************************************************)
(* A save of accepted fields cut short leaves a file the service does not  *)
(* start with, or one with their port, device and key: never the old key   *)
(* with the new device, another device or half a key (config.go, Save).    *)
(***************************************************************************)
TornSaveFailsClosed ==
  torn /\ Accepted(saved) /\ Load(file) \notin {NoConfig, Panics}
    => /\ Load(file).port = Meant(saved).port
       /\ Load(file).device = Meant(saved).device
       /\ Load(file).key = Meant(saved).key

(***************************************************************************)
(* A device that opens a quotation takes the key's line after it into its  *)
(* value, and no later line can make up for that: whatever was saved with  *)
(* it, whole or cut short, is no configuration, never one with a device of *)
(* several lines or with another key (config.go, Save and parseDotEnv).    *)
(***************************************************************************)
OpenDeviceIsRefused ==
  /\ saved # NoBox /\ Opens(Trim(saved.device))
  /\ \A text \in {saved.port, saved.device, saved.skew} : ~ Contains(text, "nl")
  => Load(file) = NoConfig

\* A file that gives a device at most once, at the beginning of a line.
OneDevice(text) ==
  \A i \in DOMAIN text : text[i] = "DEVICE_ID" =>
    /\ i = 1 \/ text[i - 1] = "nl"
    /\ i < Len(text) /\ text[i + 1] = "="
    /\ \A j \in DOMAIN text : text[j] = "DEVICE_ID" => i = j

\* The text DEVICE_ID is given in such a file, to the end of the line.
Written(text) ==
  LET at == {i \in DOMAIN text : text[i] = "DEVICE_ID"}
      ends(from) == {i \in from..Len(text) : text[i] = "nl"} \cup {Len(text) + 1}
  IN IF at = {} THEN <<>> ELSE Trim(SubSeq(text, Min(at) + 2, Min(ends(Min(at))) - 1))

\* No quotation, or one closed on its line, with no blank at the ends of what
\* it says, be it written or escaped.
OnOneLine(text) == ~ Opens(text) /\ Trim(Content(text)) = Content(text)

(***************************************************************************)
(* The two sides agree on the device: the same text of a DEVICE_ID, in the *)
(* two files or, plain, in Relay's environment, names the same device to   *)
(* the Relay that signs and to the Sentinel that checks (Load of both      *)
(* config.go).                                                             *)
(***************************************************************************)
SidesAgree ==
  LET ours == IF file = NoFile THEN <<>> ELSE Written(file)
      theirs == IF relay.file = NoFile THEN <<>> ELSE Written(relay.file)
      environment == Trim(relay.environment["DEVICE_ID"])
  IN /\ ours # <<>> /\ \A text \in {file, relay.file} \ {NoFile} : OneDevice(text)
     /\ \/ theirs = ours /\ environment = <<>> /\ OnOneLine(ours)
        \/ theirs = <<>> /\ environment = ours /\ Plain(ours)
     /\ Load(file) \notin {NoConfig, Panics}
     /\ Relay!Load(relay.file, relay.environment) # NoConfig
     => Load(file).device = Relay!Load(relay.file, relay.environment).device
=============================================================================
