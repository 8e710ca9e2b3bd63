--------------------------- MODULE SentinelConfig ---------------------------
(***************************************************************************)
(* The configuration of Sentinel: what config.Load makes of an .env file,  *)
(* what config.Save writes of the window's fields, and which public keys   *)
(* InspectPublicKey takes (sentinel/src/config/config.go).                 *)
(***************************************************************************)
EXTENDS EnvFile

CONSTANTS
  Ports, Sizes, Skews,  \* the words that are ports, body sizes of 1024 or more,
                        \* and skews of at most 300 seconds
  PublicKeys,           \* the contents of PEM blocks that are RSA public keys
  Hostname,             \* os.Hostname
  NoConfig,             \* an error instead of a configuration
  Panics                \* a run-time panic

\* A port, a size, a skew and a key are words; the host has a name of one line,
\* with no blanks around it, that is not taken for a comment or a quotation.
ASSUME WordsAssumption ==
  /\ "9876" \in Ports /\ "65536" \in Sizes /\ "5" \in Skews
  /\ Ports \cup Sizes \cup Skews \cup PublicKeys \cup {"true", "false"} \subseteq Words
  /\ Hostname \in Texts /\ Plain(Hostname) /\ Trim(Hostname) = Hostname /\ Hostname # <<>>

\* What config.Load returns
Configs == [port : Ports, device : Texts, key : PublicKeys, maxBody : Sizes,
            skew : Skews, notify : BOOLEAN]

ASSUME OutcomesAssumption ==
  /\ NoConfig \notin Configs /\ Panics \notin Configs /\ NoConfig # Panics
  /\ Panics \notin Texts /\ Panics \notin PublicKeys
  /\ NoKey \notin PublicKeys /\ NoKey # Panics

FalseWords == {"false", "0"}

\* text[1:len(text)-1] of a text that begins and ends with the same quote
Stripped(text) ==
  IF text # <<>> /\ Head(text) \in Quotes /\ Last(text) = Head(text)
  THEN IF Len(text) = 1 THEN Panics ELSE Front(Tail(text))
  ELSE text

\* InspectPublicKey: the key, NoKey or, of a lone quote, a panic.
InspectPublicKey(raw) ==
  LET text == Stripped(Trim(raw))
      oneLine == Contains(text, "esc") /\ ~ Contains(text, "nl")
  IN IF Trim(raw) = <<>> THEN NoKey
     ELSE IF text = Panics THEN Panics
     ELSE Pem(IF oneLine THEN Unescape(text) ELSE text, PublicKeys)

\* A key text with one block, whose line ends are written in one way: all as
\* line feeds or all as escapes, with carriage returns before them or none.
Regular(key) ==
  /\ Contains(key, "nl") => ~ Contains(key, "esc") /\ ~ Contains(key, "escr")
  /\ \A i \in 1..Len(key) - 1 : key[i] = "cr" => key[i + 1] = "nl"
  /\ \A i \in DOMAIN key : key[i] = "escr" => i < Len(key) /\ key[i + 1] = "esc"
  /\ \A i, j \in DOMAIN key : key[i] \in Begins /\ key[j] \in Begins => i = j

\* strconv.Atoi and ParseInt with their bounds: blanks are not tolerated.
IsOne(text, words) == Len(text) = 1 /\ text[1] \in words

\* An optional number: not set, it has its default.
Optional(text, words) == text = <<>> \/ IsOne(text, words)
OrDefault(text, default) == IF text = <<>> THEN default ELSE text[1]

\* config.Load of a file that can be read.
LoadValues(values) ==
  LET port == values["PORT"]
      key == InspectPublicKey(values["PUBLIC_KEY"])
      device == values["DEVICE_ID"]
      maxBody == values["MAX_BODY_BYTES"]
      skew == values["CLOCK_SKEW_SECONDS"]
  IN IF ~ IsOne(port, Ports) THEN NoConfig
     ELSE IF key = Panics THEN Panics
     ELSE IF \/ key = NoKey \/ device = <<>>
             \/ ~ Optional(maxBody, Sizes) \/ ~ Optional(skew, Skews)
     THEN NoConfig
     ELSE [port |-> port[1], device |-> device, key |-> key,
           maxBody |-> OrDefault(maxBody, "65536"), skew |-> OrDefault(skew, "5"),
           notify |-> ~ IsOne(values["ENABLE_NOTIFICATIONS"], FalseWords)]

Load(file) ==
  IF file = NoFile THEN NoConfig
  ELSE LET values == Parse(file)
       IN IF values = Broken THEN NoConfig ELSE LoadValues(values)

DefaultValues ==
  [NoValues EXCEPT !["PORT"] = <<"9876">>, !["DEVICE_ID"] = Hostname,
                   !["CLOCK_SKEW_SECONDS"] = <<"5">>, !["MAX_BODY_BYTES"] = <<"65536">>,
                   !["ENABLE_NOTIFICATIONS"] = <<"true">>]

\* Mutant of LoadWithDefaults: the defaults go over the file's values.
LoadWithDefaultsOver(file) ==
  IF file = NoFile THEN DefaultValues
  ELSE LET values == Parse(file)
       IN IF values = Broken THEN Broken
          ELSE [name \in Names |-> IF DefaultValues[name] # <<>> THEN DefaultValues[name]
                                   ELSE values[name]]

\* LoadWithDefaults: an empty value leaves the default.
LoadWithDefaults(file) ==
  IF file = NoFile THEN DefaultValues
  ELSE LET values == Parse(file)
       IN IF values = Broken THEN Broken
          ELSE [name \in Names |-> IF values[name] # <<>> THEN values[name]
                                   ELSE DefaultValues[name]]

Line(name, text) == <<name, "=">> \o text \o <<"nl">>

\* The key as Save writes it: without carriage returns, its lines joined.
OneLine(key) ==
  <<"dq">> \o Replace(Without(Trim(key), "cr"), "nl", "esc") \o <<"dq">>

PortLine(values) == Line("PORT", ValueOr(values["PORT"], <<"9876">>))
DeviceLine(values) ==
  Line("DEVICE_ID", IF values["DEVICE_ID"] = <<>> THEN Hostname ELSE values["DEVICE_ID"])
KeyLine(values) == Line("PUBLIC_KEY", OneLine(values["PUBLIC_KEY"]))
OtherLines(values) ==
  Line("CLOCK_SKEW_SECONDS", ValueOr(values["CLOCK_SKEW_SECONDS"], <<"5">>))
    \o Line("MAX_BODY_BYTES", ValueOr(values["MAX_BODY_BYTES"], <<"65536">>))
    \o Line("ENABLE_NOTIFICATIONS", ValueOr(values["ENABLE_NOTIFICATIONS"], <<"true">>))

\* Mutant of Save: the key goes before the device.
SaveKeyFirst(values) ==
  PortLine(values) \o KeyLine(values) \o DeviceLine(values) \o OtherLines(values)

\* Save, its comments left out: the device is written as it is.
Save(values) ==
  PortLine(values) \o DeviceLine(values) \o KeyLine(values) \o OtherLines(values)
=============================================================================
