---------------------------- MODULE RelayConfig ----------------------------
(***************************************************************************)
(* The configuration of Relay: config.Load takes each value from the .env  *)
(* file or, where that has none, from the environment                      *)
(* (relay/src/config/config.go).                                           *)
(***************************************************************************)
EXTENDS EnvFile

CONSTANTS
  Validities,   \* the words that are validities from 1 to 300 seconds
  Sizes,        \* the words that are body sizes of 1024 or more
  PrivateKeys,  \* the contents of PEM blocks that are RSA private keys
  NoConfig      \* an error instead of a configuration

\* Mutant of Get: what comes from the environment is not trimmed.
GetUntrimmed(values, environment, name) ==
  IF values[name] # <<>> THEN values[name] ELSE environment[name]

\* get
Get(values, environment, name) ==
  ValueOr(values[name], Trim(environment[name]))

\* loadPrivateKey: quotes are not taken off.
PrivateKey(raw) == Pem(Trim(Replace(raw, "esc", "nl")), PrivateKeys)

IsOne(text, words) == Len(text) = 1 /\ text[1] \in words

\* Load, of values that were read; its address, secret and URL are strings
\* that have to be there.
LoadValues(values, environment) ==
  LET get(name) == Get(values, environment, name)
      key == PrivateKey(ValueOr(get("PRIVATE_KEY"), get("PRIVATE_KEY_PEM")))
      validity == ValueOr(get("VALIDITY_SECONDS"), <<"30">>)
  IN IF \/ \E name \in {"API_SECRET", "DEVICE_ID", "SENTINEL_URL"} : get(name) = <<>>
        \/ key = NoKey
        \/ ~ IsOne(validity, Validities)
        \/ get("MAX_BODY_BYTES") # <<>> /\ ~ IsOne(get("MAX_BODY_BYTES"), Sizes)
     THEN NoConfig
     ELSE [device |-> get("DEVICE_ID"), key |-> key, validity |-> validity[1],
           maxBody |-> ValueOr(get("MAX_BODY_BYTES"), <<"16384">>)[1]]

\* Load: without a file there is still the environment.
Load(file, environment) ==
  IF file = NoFile THEN LoadValues(NoValues, environment)
  ELSE LET values == Parse(file)
       IN IF values = Broken THEN NoConfig ELSE LoadValues(values, environment)
=============================================================================
