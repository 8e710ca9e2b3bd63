------------------------------- MODULE MCSetup -------------------------------
(***************************************************************************)
(* A small instance of module Setup: files, fields and keys with every     *)
(* quoting, line end, escape and comment the parsers treat differently.    *)
(***************************************************************************)
EXTENDS SetupClaims

AllTokens == STRING
PortWords == {"9876", "8080"}
SizeWords == {"65536", "16384", "131072"}
SkewWords == {"5", "10"}
ValidityWords == {"30"}
PublicBodies == {"public"}
PrivateBodies == {"private"}
Host == <<"host">>

Block(eol) == <<"begin">> \o eol \o <<"public">> \o eol \o <<"end">>
PrivateBlock(eol) == <<"beginPriv">> \o eol \o <<"private">> \o eol \o <<"endPriv">>
Quoted(quote, text) == <<quote>> \o text \o <<quote>>

Keys == {
  Block(<<"nl">>),
  <<"sp">> \o Block(<<"cr", "nl">>) \o <<"cr", "nl">>,
  Block(<<"esc">>),
  Block(<<"escr", "esc">>),
  Quoted("dq", Block(<<"esc">>)),
  Quoted("sq", Block(<<"nl">>)),
  <<"note", "dq", "=", "#", "nl">> \o Block(<<"sp", "nl">>) \o <<"nl", "dq">>,
  <<"begin", "esc", "word", "esc", "end", "nl">> \o Block(<<"nl">>),
  Block(<<"esc">>) \o <<"esc">>,
  <<"begin", "nl", "word", "nl", "end">>,
  <<"dq">>}

\* Texts with a block inside, and one whose END comes first.
KeySources == Keys \cup {
  Line("PRIVATE_KEY", PrivateBlock(<<"esc">>)) \o Line("PUBLIC_KEY", Block(<<"esc">>)),
  <<"end", "nl", "note", "nl">> \o Block(<<"nl">>)}

PortsTyped == {<<>>, <<"sp", "8080">>}
SkewsTyped == {<<>>, <<"word">>}

DevicesTyped == {
  <<"pc">>, <<"sp", "pc", "sp">>, <<"pc", "#", "1">>, <<"pc", "sp", "#", "1">>,
  Quoted("dq", <<"pc">>), <<"dq", "pc">>, <<"sq", "pc">>}

\* A file by hand: the values not named here are left out.
File(device, key, rest) ==
  Line("PORT", <<"9876">>) \o Line("DEVICE_ID", device) \o Line("PUBLIC_KEY", key) \o rest

OneLineKey == Block(<<"esc">>)

Extra ==
  <<"cr", "nl", "#", "=", "nl", "sp">> \o Line("MAX_BODY_BYTES", <<"131072", "sp", "#", "word">>)
    \o Line("ENABLE_NOTIFICATIONS", <<"0">>) \o Line("CLOCK_SKEW_SECONDS", <<"10">>)

Hand == {NoFile} \cup
  {File(device, OneLineKey, <<>>) : device \in
     {<<"pc">>, <<"sp", "pc", "cr">>, Quoted("dq", <<"pc", "sp", "#", "1">>),
      Quoted("sq", <<"sp", "pc">>), Quoted("sq", <<"pc", "esc">>), <<"dq", "pc", "dq", "sp", "#">>}}
  \cup
  {File(<<"pc">>, key, <<>>) : key \in
     {<<>>, Quoted("dq", Block(<<"cr", "nl">>)), Quoted("sq", Block(<<"nl">>)),
      Quoted("sq", OneLineKey), Block(<<"nl">>), Quoted("sq", <<"dq">>)}}
  \cup
  {File(<<"pc">>, OneLineKey, Extra),
   File(<<"pc">>, OneLineKey, Line("ENABLE_NOTIFICATIONS", <<"false">>)), File(<<"pc">>, <<>>, Line("PORT", <<"dq", "8080">>))}

KeysTxt == {<<>>,
  Line("PRIVATE_KEY", PrivateBlock(<<"esc">>)) \o Line("PUBLIC_KEY", Block(<<"esc">>))}

RelayFile(device, key) ==
  Line("API_SECRET", <<"secret">>) \o Line("SENTINEL_URL", <<"url">>)
    \o Line("DEVICE_ID", device) \o Line("PRIVATE_KEY", key)

RelayEnvironment(device, key) ==
  [NoValues EXCEPT !["API_SECRET"] = <<"secret">>, !["SENTINEL_URL"] = <<"url", "cr">>,
                   !["DEVICE_ID"] = device, !["PRIVATE_KEY"] = key]

Deployed ==
  {[file |-> RelayFile(device, PrivateBlock(<<"esc">>)), environment |-> NoValues] :
     device \in {<<"pc">>, Quoted("dq", <<"pc">>), Quoted("dq", <<"pc", "sp", "#", "1">>),
                 Quoted("sq", <<"pc", "esc">>), <<"pc", "sp", "#", "1">>}}
  \cup
  {[file |-> NoFile, environment |-> RelayEnvironment(device, key)] :
     device \in {<<"pc", "cr">>, <<"pc", "#", "1">>},
     key \in {PrivateBlock(<<"esc">>), Quoted("dq", PrivateBlock(<<"esc">>))}}
  \cup
  {[file |-> Line("DEVICE_ID", <<>>), environment |-> RelayEnvironment(<<"pc">>, PrivateBlock(<<"esc">>))]}
=============================================================================
