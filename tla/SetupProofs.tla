----------------------------- MODULE SetupProofs -----------------------------
(***************************************************************************)
(* The theorems about module Setup: the types of its variables, that the   *)
(* service reads what the window saved, that a save cut short fails        *)
(* closed, that the window shows what it saved, that an untouched save     *)
(* keeps the configuration, and that the two programs read one file alike. *)
(***************************************************************************)
EXTENDS Setup, SentinelConfigProofs

-----------------------------------------------------------------------------
\* extractPublicKeyFromText returns a text; one that begins with a BEGIN line
\* is no lone quote.
LEMMA ExtractIs ==
  ASSUME NEW text \in Texts
  PROVE  /\ Extract(text) \in Texts \cup {Panics}
         /\ Extract(text) # Panics => InspectPublicKey(Extract(text)) # Panics
<1> DEFINE from == IndexOf(text, {"begin"})
    to == IndexOf(text, {"end"})
    part == SubSeq(text, from, to)
<1>1. from \in 0..Len(text) /\ to \in 0..Len(text) /\ Len(text) \in Nat
  BY IndexIs, TextFacts
<1>2. /\ from # 0 => text[from] \in {"begin"}
      /\ to # 0 => text[to] \in {"end"}
  BY IndexIs
<1>3. <<>> \in Texts /\ Trim(<<>>) = <<>>
  BY EmptyIsText, EmptyContent
<1>4. InspectPublicKey(<<>>) = NoKey
  BY <1>3 DEF InspectPublicKey
<1>5. CASE from = 0 \/ to = 0
  <2>1. Extract(text) = <<>>
    BY <1>5 DEF Extract
  <2> QED
    BY <1>3, <1>4, <2>1, OutcomesAssumption
<1>6. CASE from # 0 /\ to # 0 /\ to + 1 < from
  <2>1. Extract(text) = Panics
    BY <1>6 DEF Extract
  <2> QED
    BY <2>1
<1>7. CASE from # 0 /\ to # 0 /\ ~ (to + 1 < from)
  <2>1. Extract(text) = Trim(part)
    BY <1>7 DEF Extract
  <2>2. from \in Nat /\ to \in Int /\ from >= 1 /\ to <= Len(text)
    BY <1>1, <1>7
  <2>3. /\ part \in Texts /\ Len(part) = IF from <= to THEN to - from + 1 ELSE 0
        /\ \A i \in 1..to - from + 1 : part[i] = text[from + i - 1]
    BY <2>2, PartIs
  <2> HIDE DEF from, to, part
  <2>4. Trim(part) \in Texts /\ Trim(Trim(part)) = Trim(part)
    BY <2>3, TrimShape, TrimTwice
  <2>5. CASE Trim(part) = <<>>
    BY <1>3, <1>4, <2>1, <2>5, OutcomesAssumption
  <2>6. CASE Trim(part) # <<>>
    <3>1. PICK a, b \in 1..Len(part) :
            /\ a <= b
            /\ \A i \in 1..Len(part) : part[i] \notin Blanks => a <= i /\ i <= b
            /\ Len(Trim(part)) = b - a + 1
            /\ \A i \in 1..b - a + 1 : Trim(part)[i] = part[a + i - 1]
      BY <2>3, <2>6, TrimShape
    <3>2. 1 \in 1..to - from + 1 /\ from + 1 - 1 = from /\ 1 \in 1..Len(part) /\ a \in Nat /\ a >= 1
      BY <1>1, <2>2, <2>3, <3>1
    <3>3. part[1] = "begin" /\ part[1] \notin Blanks
      BY <1>2, <1>7, <2>3, <3>2 DEF Blanks
    <3>4. a = 1
      BY <3>1, <3>2, <3>3
    <3>5. 1 \in 1..b - a + 1 /\ a + 1 - 1 = 1
      BY <3>1, <3>4
    <3>6. Trim(part)[1] = "begin"
      BY <3>1, <3>3, <3>5
    <3>7. Trim(part)[1] \notin Quotes
      BY <3>6 DEF Quotes
    <3>8. Stripped(Trim(part)) # Panics
      BY <2>4, <3>7, StrippedIs
    <3>9. InspectPublicKey(Trim(part)) # Panics
      <4> DEFINE u == Stripped(Trim(part))
          seen == IF Contains(u, "esc") /\ ~ Contains(u, "nl") THEN Unescape(u) ELSE u
      <4>1. u \in Texts
        BY <2>4, <3>8, StrippedIs
      <4>2. InspectPublicKey(Trim(part)) = Pem(seen, PublicKeys)
        BY <2>4, <2>6, <3>8 DEF InspectPublicKey
      <4> HIDE DEF u
      <4>3. seen \in Texts
        BY <4>1, UnescapeIs
      <4> HIDE DEF seen
      <4> QED
        BY <4>2, <4>3, PemTyped, OutcomesAssumption
    <3> QED
      BY <2>1, <2>4, <3>9
  <2> QED
    BY <2>5, <2>6
<1> QED
  BY <1>5, <1>6, <1>7

\* Six names and the values that stand for them
SixNames == {"PORT", "DEVICE_ID", "PUBLIC_KEY", "CLOCK_SKEW_SECONDS", "MAX_BODY_BYTES",
             "ENABLE_NOTIFICATIONS"}

\* The values the window's fields stand for, one by one.
LEMMA FieldValuesAre ==
  ASSUME NEW fields \in Boxes
  PROVE  /\ FieldValues(fields) \in Values
         /\ FieldValues(fields)["PORT"] = fields.port
         /\ FieldValues(fields)["DEVICE_ID"] = fields.device
         /\ FieldValues(fields)["CLOCK_SKEW_SECONDS"] = fields.skew
         /\ FieldValues(fields)["PUBLIC_KEY"] = fields.key
         /\ FieldValues(fields)["MAX_BODY_BYTES"] = <<>>
         /\ FieldValues(fields)["ENABLE_NOTIFICATIONS"] =
              IF fields.notify THEN <<"true">> ELSE <<"false">>
<1>1. SixNames \subseteq Names
  BY DEF SixNames, Names
<1>2. /\ fields.port \in Texts /\ fields.device \in Texts /\ fields.skew \in Texts
      /\ fields.key \in Texts /\ fields.notify \in BOOLEAN
  BY DEF Boxes
<1>3. <<"true">> \in Texts /\ <<"false">> \in Texts /\ <<>> \in Texts
  BY PlainWord, WordsAssumption, EmptyIsText
<1>4. (IF fields.notify THEN <<"true">> ELSE <<"false">>) \in Texts
  BY <1>3
<1>5. FieldValues(fields) \in Values
  BY <1>1, <1>2, <1>3, <1>4 DEF FieldValues, NoValues, Values
<1> QED
  BY <1>1, <1>5 DEF FieldValues, NoValues, SixNames

\* The defaults are values.
LEMMA DefaultsAre ==
  /\ DefaultValues \in Values
  /\ DefaultValues["PORT"] = <<"9876">> /\ DefaultValues["DEVICE_ID"] = Hostname
  /\ DefaultValues["CLOCK_SKEW_SECONDS"] = <<"5">> /\ DefaultValues["PUBLIC_KEY"] = <<>>
  /\ DefaultValues["ENABLE_NOTIFICATIONS"] = <<"true">>
<1>1. SixNames \subseteq Names
  BY DEF SixNames, Names
<1>2. /\ <<"9876">> \in Texts /\ <<"5">> \in Texts /\ <<"65536">> \in Texts
      /\ <<"true">> \in Texts /\ <<>> \in Texts /\ Hostname \in Texts
  BY PlainWord, WordsAssumption, EmptyIsText
<1>3. DefaultValues \in Values
  BY <1>1, <1>2 DEF DefaultValues, NoValues, Values
<1> QED
  BY <1>1, <1>3 DEF DefaultValues, NoValues, SixNames

\* LoadWithDefaults returns values, or none of a malformed file.
LEMMA LoadedTyped ==
  ASSUME NEW f \in Texts \cup {NoFile}
  PROVE  LoadWithDefaults(f) \in Values \cup {Broken}
<1>1. CASE f = NoFile
  BY <1>1, DefaultsAre DEF LoadWithDefaults
<1>2. CASE f \in Texts
  <2>1. f # NoFile /\ Parse(f) \in Values \cup {Broken}
    BY <1>2, ParseTyped, FileAssumption
  <2>2. CASE Parse(f) = Broken
    BY <2>1, <2>2 DEF LoadWithDefaults
  <2>3. CASE Parse(f) \in Values
    <3> DEFINE values == Parse(f)
    <3>1. values # Broken
      BY <2>3, FileAssumption
    <3>2. LoadWithDefaults(f) = [name \in Names |-> IF values[name] # <<>> THEN values[name]
                                                    ELSE DefaultValues[name]]
      BY <2>1, <3>1 DEF LoadWithDefaults
    <3>3. \A name \in Names : values[name] \in Texts /\ DefaultValues[name] \in Texts
      BY <2>3, DefaultsAre DEF Values
    <3> HIDE DEF values
    <3> QED
      BY <3>2, <3>3 DEF Values
  <2> QED
    BY <2>1, <2>2, <2>3
<1> QED
  BY <1>1, <1>2

\* What the window shows of values is fields.
LEMMA FieldsTyped ==
  ASSUME NEW values \in Values
  PROVE  /\ Fields(values) \in Boxes
         /\ Fields(values).port = values["PORT"] /\ Fields(values).device = values["DEVICE_ID"]
         /\ Fields(values).skew = values["CLOCK_SKEW_SECONDS"]
         /\ Fields(values).key = values["PUBLIC_KEY"]
         /\ Fields(values).notify = (values["ENABLE_NOTIFICATIONS"] # <<"false">>)
<1>1. SixNames \subseteq Names
  BY DEF SixNames, Names
<1>2. /\ values["PORT"] \in Texts /\ values["DEVICE_ID"] \in Texts
      /\ values["CLOCK_SKEW_SECONDS"] \in Texts /\ values["PUBLIC_KEY"] \in Texts
  BY <1>1 DEF Values, SixNames
<1> QED
  BY <1>2 DEF Fields, Boxes

\* Every save is a text.
LEMMA SaveTyped ==
  ASSUME NEW fields \in Boxes
  PROVE  SavedText(fields) \in Texts
<1> DEFINE values == FieldValues(fields)
<1>1. values \in Values
  BY FieldValuesAre
<1>2. SixNames \subseteq Names
  BY DEF SixNames, Names
<1> HIDE DEF values
<1>3. InQuotes(WrittenKey(values["PUBLIC_KEY"])) \in Texts
  BY <1>1, SavedTexts, RereadIs, InQuotesIs
<1>4. /\ Line("PORT", PortText(values)) \in Texts
      /\ Line("DEVICE_ID", DeviceText(values)) \in Texts
      /\ Line("PUBLIC_KEY", InQuotes(WrittenKey(values["PUBLIC_KEY"]))) \in Texts
      /\ Line("CLOCK_SKEW_SECONDS", SkewText(values)) \in Texts
      /\ Line("MAX_BODY_BYTES", SizeText(values)) \in Texts
      /\ Line("ENABLE_NOTIFICATIONS", NotifyText(values)) \in Texts
  BY <1>1, <1>2, <1>3, SavedTexts, LineIsText DEF SixNames
<1>5. FirstLine(values) \in Texts
  BY <1>4, EmptyIsText, JoinIs DEF FirstLine
<1>6. TwoLines(values) \in Texts
  BY <1>4, <1>5, JoinIs DEF TwoLines
<1>7. ThreeLines(values) \in Texts
  BY <1>4, <1>6, JoinIs DEF ThreeLines
<1>8. FourLines(values) \in Texts
  BY <1>4, <1>7, JoinIs DEF FourLines
<1>9. FiveLines(values) \in Texts
  BY <1>4, <1>8, JoinIs DEF FiveLines
<1>10. AllLines(values) \in Texts
  BY <1>4, <1>9, JoinIs DEF AllLines
<1> QED
  BY <1>1, <1>10, SaveIs DEF SavedText, values

-----------------------------------------------------------------------------
\* The part of the type invariant that is about the window
WindowOK ==
  /\ window \in {"closed", "open", "crashed"}
  /\ (window = "open") = (box # NoBox)
  /\ box # NoBox => box \in Boxes /\ InspectPublicKey(box.key) # Panics

\* Whatever is shown, there are fields just when the window is open.
LEMMA ShowTyped ==
  ASSUME NEW fields \in Boxes, Show(fields)
  PROVE  WindowOK'
<1>1. CASE InspectPublicKey(fields.key) = Panics
  BY <1>1 DEF Show, Crash, WindowOK
<1>2. CASE InspectPublicKey(fields.key) # Panics
  <2>1. window' = "open" /\ box' = fields
    BY <1>2 DEF Show
  <2>2. fields # NoBox
    BY SetupAssumption
  <2> QED
    BY <1>2, <2>1, <2>2 DEF WindowOK
<1> QED
  BY <1>1, <1>2

\* The key found in a keys.txt is a text whose live check does not crash.
LEMMA FoundIs ==
  ASSUME SetupTypeOK
  PROVE  FoundKey \in Texts /\ (FoundKey = <<>> \/ InspectPublicKey(FoundKey) # Panics)
<1> DEFINE holding == {place \in Places :
                         keysTxt[place] # NoFile /\ Extract(keysTxt[place]) # <<>>}
<1>1. CASE holding = {}
  BY <1>1, EmptyIsText DEF FoundKey
<1>2. CASE holding # {}
  <2>1. holding \subseteq Nat
    BY DEF Places
  <2>2. Min(holding) \in holding
    BY <1>2, <2>1, LeastIs
  <2>3. PICK place \in Places : place = Min(holding) /\ keysTxt[place] # NoFile
    BY <2>2
  <2>4. keysTxt[place] \in KeysFiles
    BY <2>3 DEF SetupTypeOK
  <2>5. keysTxt[place] \in Texts /\ Extract(keysTxt[place]) # Panics
    BY <2>4, SetupAssumption, KeysAssumption
  <2>6. FoundKey = Extract(keysTxt[place])
    BY <1>2, <2>3 DEF FoundKey
  <2> QED
    BY <2>5, <2>6, ExtractIs
<1> QED
  BY <1>1, <1>2

\* The fields a window opens with are fields.
LEMMA OpenTyped ==
  ASSUME SetupTypeOK, Open
  PROVE  WindowOK'
<1> DEFINE values == LoadWithDefaults(file)
    missing == values = Broken \/ values["PUBLIC_KEY"] = <<>>
    found == IF missing THEN FoundKey ELSE <<>>
    shown == IF values = Broken THEN NoValues
             ELSE IF found = <<>> THEN values ELSE [values EXCEPT !["PUBLIC_KEY"] = found]
<1>1. values \in Values \cup {Broken}
  BY LoadedTyped DEF SetupTypeOK
<1>2. found \in Texts \cup {Panics}
  <2>1. FoundKey \in Texts
    BY FoundIs
  <2> QED
    BY <2>1, EmptyIsText
<1>3. IF found = Panics \/ (values = Broken /\ found # <<>>) THEN Crash ELSE Show(Fields(shown))
  BY DEF Open
<1>4. NoValues \in Values
  BY EmptyIsText DEF NoValues, Values
<1> HIDE DEF values, found
<1>5. CASE found = Panics \/ (values = Broken /\ found # <<>>)
  BY <1>3, <1>5 DEF Crash, WindowOK
<1>6. CASE ~ (found = Panics \/ (values = Broken /\ found # <<>>))
  <2>1. shown \in Values
    <3>1. CASE values = Broken
      BY <1>4, <3>1
    <3>2. CASE values # Broken /\ found = <<>>
      BY <1>1, <3>2
    <3>3. CASE values # Broken /\ found # <<>>
      <4>1. values \in Values /\ found \in Texts
        BY <1>1, <1>2, <1>6, <3>3
      <4>2. [values EXCEPT !["PUBLIC_KEY"] = found] \in Values
        BY <4>1 DEF Values
      <4> QED
        BY <3>3, <4>2
    <3> QED
      BY <3>1, <3>2, <3>3
  <2> HIDE DEF shown
  <2>2. Fields(shown) \in Boxes
    BY <2>1, FieldsTyped
  <2> QED
    BY <1>3, <1>6, <2>2, ShowTyped
<1> QED
  BY <1>5, <1>6

\* So are those after a change.
LEMMA ChangeTyped ==
  ASSUME SetupTypeOK, NEW fields \in Boxes, Change(fields)
  PROVE  SetupTypeOK'
<1>1. WindowOK'
  BY ShowTyped DEF Change
<1>2. UNCHANGED <<file, keysTxt, relay, saved, torn>> /\ edits < MaxEdits /\ edits' = edits + 1
  BY DEF Change, Edit
<1>3. edits' \in 0..MaxEdits
  BY <1>2, SetupAssumption DEF SetupTypeOK
<1> QED
  BY <1>1, <1>2, <1>3 DEF SetupTypeOK, WindowOK

\* Where the file of the last save is, or what of it was written
SavedFile ==
  saved # NoBox =>
    IF torn THEN \E n \in 0..Len(SavedText(saved)) - 1 : file = SubSeq(SavedText(saved), 1, n)
    ELSE file = SavedText(saved)

\* The first state has the invariant.
LEMMA InitSetup == Init => SetupTypeOK /\ SavedFile
<1> SUFFICES ASSUME Init PROVE SetupTypeOK /\ SavedFile
  OBVIOUS
<1>1. file \in Texts \cup {NoFile}
  BY SetupAssumption DEF Init
<1>2. relay.file \in Texts \cup {NoFile} /\ relay.environment \in Values
  BY EmptyIsText DEF Init, NoValues, Values
<1>3. edits \in 0..MaxEdits
  BY SetupAssumption DEF Init
<1> QED
  BY <1>1, <1>2, <1>3 DEF Init, SetupTypeOK, SavedFile

\* The types are kept by every action.
LEMMA NextTyped ==
  ASSUME SetupTypeOK, [Next]_vars
  PROVE  SetupTypeOK'
<1>1. WindowOK /\ edits \in 0..MaxEdits
  BY DEF SetupTypeOK, WindowOK
<1>2. Edit => edits' \in 0..MaxEdits
  BY <1>1, SetupAssumption DEF Edit
<1>3. ASSUME NEW text \in HandFiles, HandEdit(text) PROVE SetupTypeOK'
  <2>1. file' \in Texts \cup {NoFile}
    BY <1>3, SetupAssumption DEF HandEdit
  <2> QED
    BY <1>2, <1>3, <2>1 DEF HandEdit, SetupTypeOK
<1>4. ASSUME NEW deployment \in Deployments, Deploy(deployment) PROVE SetupTypeOK'
  <2>1. relay'.file \in Texts \cup {NoFile} /\ relay'.environment \in Values
    BY <1>4, SetupAssumption DEF Deploy
  <2> QED
    BY <1>2, <1>4, <2>1 DEF Deploy, SetupTypeOK
<1>5. ASSUME NEW text \in KeysFiles, GenerateKeys(text) PROVE SetupTypeOK'
  BY <1>2, <1>5 DEF GenerateKeys, SetupTypeOK
<1>6. CASE Open
  <2>1. WindowOK'
    BY <1>6, OpenTyped
  <2>2. UNCHANGED <<file, keysTxt, relay, saved, torn, edits>>
    BY <1>6 DEF Open
  <2> QED
    BY <2>1, <2>2 DEF SetupTypeOK, WindowOK
<1>7. CASE Close
  BY <1>7 DEF Close, SetupTypeOK
<1>8. CASE Type
  <2>1. CASE \E text \in PortTexts : Change([box EXCEPT !.port = text])
    <3>1. PICK text \in PortTexts : Change([box EXCEPT !.port = text])
      BY <2>1
    <3>2. box \in Boxes /\ text \in Texts
      BY <1>1, <3>1, SetupAssumption DEF Change, WindowOK
    <3>3. [box EXCEPT !.port = text] \in Boxes
      BY <3>2 DEF Boxes
    <3> QED
      BY <3>1, <3>3, ChangeTyped
  <2>2. CASE \E text \in DeviceTexts : Change([box EXCEPT !.device = text])
    <3>1. PICK text \in DeviceTexts : Change([box EXCEPT !.device = text])
      BY <2>2
    <3>2. box \in Boxes /\ text \in Texts
      BY <1>1, <3>1, SetupAssumption DEF Change, WindowOK
    <3>3. [box EXCEPT !.device = text] \in Boxes
      BY <3>2 DEF Boxes
    <3> QED
      BY <3>1, <3>3, ChangeTyped
  <2>3. CASE \E text \in SkewTexts : Change([box EXCEPT !.skew = text])
    <3>1. PICK text \in SkewTexts : Change([box EXCEPT !.skew = text])
      BY <2>3
    <3>2. box \in Boxes /\ text \in Texts
      BY <1>1, <3>1, SetupAssumption DEF Change, WindowOK
    <3>3. [box EXCEPT !.skew = text] \in Boxes
      BY <3>2 DEF Boxes
    <3> QED
      BY <3>1, <3>3, ChangeTyped
  <2>4. CASE \E text \in KeyTexts : Change([box EXCEPT !.key = text])
    <3>1. PICK text \in KeyTexts : Change([box EXCEPT !.key = text])
      BY <2>4
    <3>2. box \in Boxes /\ text \in Texts
      BY <1>1, <3>1, SetupAssumption DEF Change, WindowOK
    <3>3. [box EXCEPT !.key = text] \in Boxes
      BY <3>2 DEF Boxes
    <3> QED
      BY <3>1, <3>3, ChangeTyped
  <2>5. CASE Change([box EXCEPT !.notify = ~ @])
    <3>1. box \in Boxes
      BY <1>1, <2>5 DEF Change, WindowOK
    <3>2. [box EXCEPT !.notify = ~ @] \in Boxes
      BY <3>1 DEF Boxes
    <3> QED
      BY <2>5, <3>2, ChangeTyped
  <2> QED
    BY <1>8, <2>1, <2>2, <2>3, <2>4, <2>5 DEF Type
<1>9. CASE SaveFields
  <2>1. box \in Boxes /\ box # NoBox
    BY <1>1, <1>9 DEF SaveFields, WindowOK
  <2>2. file' \in Texts
    BY <1>9, <2>1, SaveTyped DEF SaveFields
  <2> QED
    BY <1>9, <2>1, <2>2 DEF SaveFields, SetupTypeOK
<1>10. CASE TornSave
  <2>1. box \in Boxes /\ box # NoBox /\ InspectPublicKey(box.key) # Panics
    BY <1>1, <1>10 DEF TornSave, WindowOK
  <2>2. SavedText(box) \in Texts
    BY <2>1, SaveTyped
  <2>3. PICK n \in 0..Len(SavedText(box)) - 1 : file' = SubSeq(SavedText(box), 1, n)
    BY <1>10 DEF TornSave
  <2>4. 1 \in Nat /\ 1 >= 1 /\ n \in Int /\ n <= Len(SavedText(box))
    BY <2>2, TextFacts
  <2>5. SubSeq(SavedText(box), 1, n) \in Texts
    BY <2>2, <2>4, PartIs
  <2>6. file' \in Texts
    BY <2>3, <2>5
  <2>7. /\ window' = "crashed" /\ box' = NoBox /\ saved' = box /\ torn' = TRUE
        /\ UNCHANGED <<keysTxt, relay>> /\ edits' \in 0..MaxEdits
    BY <1>2, <1>10 DEF TornSave, Crash
  <2> QED
    BY <2>1, <2>6, <2>7 DEF SetupTypeOK
<1>11. ASSUME NEW text \in KeyTexts, Pick(text) PROVE SetupTypeOK'
  <2> DEFINE found == Extract(text)
      key == IF found = <<>> THEN Trim(text) ELSE found
  <2>1. text \in Texts
    BY SetupAssumption
  <2>2. found \in Texts \cup {Panics} /\ Trim(text) \in Texts
    BY <2>1, ExtractIs, TrimShape
  <2> HIDE DEF found
  <2>3. CASE found = Panics
    <3>1. Edit /\ Crash /\ UNCHANGED <<file, keysTxt, relay, saved, torn>>
      BY <1>11, <2>3 DEF Pick, found
    <3> QED
      BY <1>2, <3>1 DEF Crash, SetupTypeOK
  <2>4. CASE found # Panics
    <3>1. Change([box EXCEPT !.key = key])
      BY <1>11, <2>4 DEF Pick, found
    <3>2. key \in Texts
      BY <2>2, <2>4
    <3> HIDE DEF key
    <3>3. box \in Boxes
      BY <1>1, <3>1 DEF Change, WindowOK
    <3>4. [box EXCEPT !.key = key] \in Boxes
      BY <3>2, <3>3 DEF Boxes
    <3> QED
      BY <3>1, <3>4, ChangeTyped
  <2> QED
    BY <2>3, <2>4
<1>12. CASE UNCHANGED vars
  BY <1>12 DEF vars, SetupTypeOK
<1> QED
  BY <1>3, <1>4, <1>5, <1>6, <1>7, <1>8, <1>9, <1>10, <1>11, <1>12 DEF Next

\* No action but a save or an edit by hand touches the file.
LEMMA NextSavedFile ==
  ASSUME SavedFile, [Next]_vars
  PROVE  SavedFile'
<1>1. ASSUME NEW text \in HandFiles, HandEdit(text) PROVE SavedFile'
  BY <1>1 DEF HandEdit, SavedFile
<1>2. CASE UNCHANGED <<file, saved, torn>>
  BY <1>2 DEF SavedFile
<1>3. CASE SaveFields
  BY <1>3 DEF SaveFields, SavedFile
<1>4. CASE TornSave
  <2>1. /\ \E n \in 0..Len(SavedText(box)) - 1 : file' = SubSeq(SavedText(box), 1, n)
        /\ saved' = box /\ torn' = TRUE
    BY <1>4 DEF TornSave
  <2> QED
    BY <2>1 DEF SavedFile
<1>5. ASSUME NEW deployment \in Deployments, Deploy(deployment) PROVE UNCHANGED <<file, saved, torn>>
  BY <1>5 DEF Deploy
<1>6. ASSUME NEW text \in KeysFiles, GenerateKeys(text) PROVE UNCHANGED <<file, saved, torn>>
  BY <1>6 DEF GenerateKeys
<1>7. Open \/ Close => UNCHANGED <<file, saved, torn>>
  BY DEF Open, Close
<1>8. Type => UNCHANGED <<file, saved, torn>>
  BY DEF Type, Change
<1>9. ASSUME NEW text \in KeyTexts, Pick(text) PROVE UNCHANGED <<file, saved, torn>>
  BY <1>9 DEF Pick, Change
<1>10. UNCHANGED vars => UNCHANGED <<file, saved, torn>>
  BY DEF vars
<1> QED
  BY <1>1, <1>2, <1>3, <1>4, <1>5, <1>6, <1>7, <1>8, <1>9, <1>10 DEF Next

\* The variables keep their types (module Setup).
THEOREM SetupTyped == Spec => []SetupTypeOK
<1>1. Init => SetupTypeOK
  BY InitSetup
<1>2. SetupTypeOK /\ [Next]_vars => SetupTypeOK'
  BY NextTyped
<1> QED
  BY <1>1, <1>2, PTL DEF Spec

\* After a save the file is what Save wrote of the fields, or the beginning of
\* it a save cut short left.
THEOREM SavedFileKept == Spec => [](SetupTypeOK /\ SavedFile)
<1>1. Init => SavedFile
  BY InitSetup
<1>2. SavedFile /\ [Next]_vars => SavedFile'
  BY NextSavedFile
<1> QED
  BY <1>1, <1>2, SetupTyped, PTL DEF Spec

-----------------------------------------------------------------------------
\* An optional value, or its default, is plain if what is typed is.
LEMMA ValueOrPlain ==
  ASSUME NEW text \in Texts, Plain(Trim(text)), NEW fallback \in Texts, Plain(fallback),
         Trim(fallback) = fallback
  PROVE  Plain(ValueOr(text, fallback)) /\ Trim(ValueOr(text, fallback)) = ValueOr(text, fallback)
BY TrimTwice DEF ValueOr

\* The words Save writes by itself
LEMMA DefaultWords ==
  /\ \A x \in {"9876", "5", "65536", "true", "false"} :
       x \in Words /\ <<x>> \in Texts /\ Plain(<<x>>) /\ Trim(<<x>>) = <<x>> /\ <<x>> # <<>>
  /\ <<"true">> # <<"false">>
  /\ Hostname \in Texts /\ Plain(Hostname) /\ Trim(Hostname) = Hostname /\ Hostname # <<>>
<1>1. {"9876", "5", "65536", "true", "false"} \subseteq Words
  BY WordsAssumption
<1>2. ASSUME NEW x \in {"9876", "5", "65536", "true", "false"}
      PROVE  x \in Words /\ <<x>> \in Texts /\ Plain(<<x>>) /\ Trim(<<x>>) = <<x>> /\ <<x>> # <<>>
  BY <1>1, PlainWord
<1> QED
  BY <1>2, WordsAssumption

\* Fields that are written as what they are, whatever the key is
Clear(fields) ==
  Plain(Trim(fields.port)) /\ Plain(fields.device) /\ Plain(Trim(fields.skew))

\* Of fields with no line end or mark in them Save writes lines that read back whole.
LEMMA ClearIsClean ==
  ASSUME NEW fields \in Boxes, Clear(fields)
  PROVE  /\ Clean(FieldValues(fields))
         /\ Trim(PortText(FieldValues(fields))) = ValueOr(fields.port, <<"9876">>)
         /\ Trim(DeviceText(FieldValues(fields))) =
              IF fields.device = <<>> THEN Hostname ELSE Trim(fields.device)
         /\ Trim(SkewText(FieldValues(fields))) = ValueOr(fields.skew, <<"5">>)
         /\ Trim(SizeText(FieldValues(fields))) = <<"65536">>
         /\ Trim(NotifyText(FieldValues(fields))) =
              IF fields.notify THEN <<"true">> ELSE <<"false">>
<1> DEFINE values == FieldValues(fields)
    notify == IF fields.notify THEN <<"true">> ELSE <<"false">>
<1>1. /\ fields.port \in Texts /\ fields.device \in Texts /\ fields.skew \in Texts
      /\ fields.key \in Texts
  BY DEF Boxes
<1>2. /\ values["PORT"] = fields.port /\ values["DEVICE_ID"] = fields.device
      /\ values["CLOCK_SKEW_SECONDS"] = fields.skew /\ values["MAX_BODY_BYTES"] = <<>>
      /\ values["ENABLE_NOTIFICATIONS"] = notify
  BY FieldValuesAre
<1> HIDE DEF values
<1>3. /\ PortText(values) = ValueOr(fields.port, <<"9876">>)
      /\ DeviceText(values) = IF fields.device = <<>> THEN Hostname ELSE fields.device
      /\ SkewText(values) = ValueOr(fields.skew, <<"5">>)
      /\ SizeText(values) = ValueOr(<<>>, <<"65536">>)
      /\ NotifyText(values) = ValueOr(notify, <<"true">>)
  BY <1>2 DEF PortText, DeviceText, SkewText, SizeText, NotifyText
<1>4. Plain(PortText(values)) /\ Trim(PortText(values)) = ValueOr(fields.port, <<"9876">>)
  BY <1>1, <1>3, DefaultWords, ValueOrPlain DEF Clear
<1>5. Plain(SkewText(values)) /\ Trim(SkewText(values)) = ValueOr(fields.skew, <<"5">>)
  BY <1>1, <1>3, DefaultWords, ValueOrPlain DEF Clear
<1>6. /\ Plain(DeviceText(values))
      /\ Trim(DeviceText(values)) = IF fields.device = <<>> THEN Hostname ELSE Trim(fields.device)
  BY <1>1, <1>3, DefaultWords DEF Clear
<1>7. Plain(SizeText(values)) /\ Trim(SizeText(values)) = <<"65536">>
  BY <1>3, DefaultWords, EmptyContent DEF ValueOr
<1>8. Plain(NotifyText(values)) /\ Trim(NotifyText(values)) = notify
  <2>1. Trim(notify) = notify /\ notify # <<>> /\ Plain(notify)
    BY DefaultWords
  <2> HIDE DEF notify
  <2>2. NotifyText(values) = notify
    BY <1>3, <2>1 DEF ValueOr
  <2> QED
    BY <2>1, <2>2
<1> QED
  BY <1>4, <1>5, <1>6, <1>7, <1>8 DEF Clean, values

\* What parseDotEnv makes of a save
LEMMA SavedReads ==
  ASSUME NEW fields \in Boxes, Clear(fields), NEW parsed, parsed = Parse(SavedText(fields))
  PROVE  /\ parsed \in Values
         /\ parsed["PORT"] = ValueOr(fields.port, <<"9876">>)
         /\ parsed["DEVICE_ID"] = IF fields.device = <<>> THEN Hostname ELSE Trim(fields.device)
         /\ parsed["PUBLIC_KEY"] = Reread(fields.key)
         /\ parsed["CLOCK_SKEW_SECONDS"] = ValueOr(fields.skew, <<"5">>)
         /\ parsed["MAX_BODY_BYTES"] = <<"65536">>
         /\ parsed["ENABLE_NOTIFICATIONS"] = IF fields.notify THEN <<"true">> ELSE <<"false">>
<1> DEFINE values == FieldValues(fields)
<1>1. values \in Values /\ values["PUBLIC_KEY"] = fields.key
  BY FieldValuesAre
<1>2. Clean(values)
  BY ClearIsClean
<1>3. parsed \in Values /\ parsed = ValuesRead(values)
  BY <1>1, <1>2, SavedParses DEF SavedText
<1>4. SixNames \subseteq Names
  BY DEF SixNames, Names
<1>5. /\ ValuesRead(values)["PORT"] = Trim(PortText(values))
      /\ ValuesRead(values)["DEVICE_ID"] = Trim(DeviceText(values))
      /\ ValuesRead(values)["PUBLIC_KEY"] = Reread(values["PUBLIC_KEY"])
      /\ ValuesRead(values)["CLOCK_SKEW_SECONDS"] = Trim(SkewText(values))
      /\ ValuesRead(values)["MAX_BODY_BYTES"] = Trim(SizeText(values))
      /\ ValuesRead(values)["ENABLE_NOTIFICATIONS"] = Trim(NotifyText(values))
  BY <1>4 DEF ValuesRead, NoValues, SixNames
<1>6. parsed["PORT"] = ValueOr(fields.port, <<"9876">>)
  BY <1>3, <1>5, ClearIsClean
<1>7. parsed["DEVICE_ID"] = IF fields.device = <<>> THEN Hostname ELSE Trim(fields.device)
  BY <1>3, <1>5, ClearIsClean
<1>8. parsed["PUBLIC_KEY"] = Reread(fields.key)
  BY <1>1, <1>3, <1>5
<1>9. parsed["CLOCK_SKEW_SECONDS"] = ValueOr(fields.skew, <<"5">>)
  BY <1>3, <1>5, ClearIsClean
<1>10. parsed["MAX_BODY_BYTES"] = <<"65536">>
  BY <1>3, <1>5, ClearIsClean
<1>11. parsed["ENABLE_NOTIFICATIONS"] = IF fields.notify THEN <<"true">> ELSE <<"false">>
  BY <1>3, <1>5, ClearIsClean
<1> QED
  BY <1>3, <1>6, <1>7, <1>8, <1>9, <1>10, <1>11

\* What accepted fields are
LEMMA AcceptedIs ==
  ASSUME NEW fields \in Boxes, Accepted(fields)
  PROVE  /\ Clear(fields)
         /\ IsOne(Trim(fields.port), Ports) /\ Trim(fields.port) # <<>>
         /\ ValueOr(fields.port, <<"9876">>) = Trim(fields.port)
         /\ fields.device # <<>> => Trim(fields.device) # <<>>
         /\ InspectPublicKey(fields.key) \in PublicKeys /\ Regular(Trim(fields.key))
         /\ fields.key \in Texts
         /\ IsOne(ValueOr(fields.skew, <<"5">>), Skews)
<1>1. /\ fields.port \in Texts /\ fields.device \in Texts /\ fields.skew \in Texts
      /\ fields.key \in Texts
  BY DEF Boxes
<1>2. /\ IsOne(Trim(fields.port), Ports) /\ InspectPublicKey(fields.key) \in PublicKeys
      /\ Plain(fields.device) /\ Regular(Trim(fields.key))
      /\ Trim(fields.skew) = <<>> \/ IsOne(Trim(fields.skew), Skews)
  BY DEF Accepted, Installable
<1>3. Ports \subseteq Words /\ Skews \subseteq Words /\ "5" \in Skews
  BY WordsAssumption
<1>4. Trim(fields.port) \in Texts /\ Trim(fields.skew) \in Texts
  BY <1>1, TrimShape
<1>5. Plain(Trim(fields.port)) /\ Trim(fields.port) # <<>>
  BY <1>2, <1>3, <1>4, OneIsPlain
<1>6. ValueOr(fields.port, <<"9876">>) = Trim(fields.port)
  BY <1>5 DEF ValueOr
<1>7. fields.device # <<>> => Trim(fields.device) # <<>>
  BY <1>2 DEF Plain
<1>8. CASE Trim(fields.skew) = <<>>
  <2>1. IsOne(<<"5">>, Skews)
    BY <1>3, WordIsOne
  <2>2. ValueOr(fields.skew, <<"5">>) = <<"5">>
    BY <1>8 DEF ValueOr
  <2>3. Plain(Trim(fields.skew))
    <3>1. Plain(Hostname) /\ Trim(<<>>) = <<>> /\ Len(<<>>) = 0 /\ <<>> \in Texts
      BY WordsAssumption, EmptyContent, EmptyIsText
    <3>2. DOMAIN <<>> = 1..0
      BY <3>1, TextFacts
    <3>3. Plain(<<>>)
      BY <3>1, <3>2 DEF Plain
    <3> QED
      BY <1>8, <3>3
  <2> QED
    BY <1>1, <1>2, <1>5, <1>6, <1>7, <2>1, <2>2, <2>3 DEF Clear
<1>9. CASE IsOne(Trim(fields.skew), Skews)
  <2>1. Plain(Trim(fields.skew)) /\ Trim(fields.skew) # <<>>
    BY <1>3, <1>4, <1>9, OneIsPlain
  <2>2. ValueOr(fields.skew, <<"5">>) = Trim(fields.skew)
    BY <2>1 DEF ValueOr
  <2> QED
    BY <1>1, <1>2, <1>5, <1>6, <1>7, <1>9, <2>1, <2>2 DEF Clear
<1> QED
  BY <1>2, <1>8, <1>9

\* config.Load of a save of accepted fields
LEMMA AcceptedLoads ==
  ASSUME NEW fields \in Boxes, Accepted(fields)
  PROVE  Load(SavedText(fields)) = Meant(fields)
<1> DEFINE values == Parse(SavedText(fields))
    skew == ValueOr(fields.skew, <<"5">>)
    notify == IF fields.notify THEN <<"true">> ELSE <<"false">>
    key == InspectPublicKey(fields.key)
<1>1. /\ Clear(fields)
      /\ IsOne(Trim(fields.port), Ports) /\ Trim(fields.port) # <<>>
      /\ ValueOr(fields.port, <<"9876">>) = Trim(fields.port)
      /\ fields.device # <<>> => Trim(fields.device) # <<>>
      /\ key \in PublicKeys /\ Regular(Trim(fields.key)) /\ fields.key \in Texts
      /\ IsOne(skew, Skews)
  BY AcceptedIs
<1>2. /\ values \in Values
      /\ values["PORT"] = Trim(fields.port)
      /\ values["DEVICE_ID"] = IF fields.device = <<>> THEN Hostname ELSE Trim(fields.device)
      /\ values["PUBLIC_KEY"] = Reread(fields.key)
      /\ values["CLOCK_SKEW_SECONDS"] = skew
      /\ values["MAX_BODY_BYTES"] = <<"65536">>
      /\ values["ENABLE_NOTIFICATIONS"] = notify
  BY <1>1, SavedReads
<1>3. Load(SavedText(fields)) = LoadValues(values)
  BY <1>2, SaveTyped, LoadIs
<1>4. InspectPublicKey(Reread(fields.key)) = key /\ key # NoKey /\ key # Panics
  BY <1>1, KeyReread, OutcomesAssumption
<1>5. values["DEVICE_ID"] # <<>>
  BY <1>1, <1>2, DefaultWords
<1>6. Sizes \subseteq Words /\ "65536" \in Sizes /\ {"true", "false"} \subseteq Words
  BY WordsAssumption
<1>7. IsOne(<<"65536">>, Sizes) /\ <<"65536">>[1] = "65536" /\ <<"65536">> # <<>>
  BY <1>6, WordIsOne
<1>8. skew # <<>>
  BY <1>1, EmptyIsText DEF IsOne
<1>9. IsOne(notify, FalseWords) = ~ fields.notify
  <2>1. <<"true">>[1] = "true" /\ <<"false">>[1] = "false" /\ Len(<<"false">>) = 1
    BY <1>6, WordIsText DEF Words
  <2>2. fields.notify \in BOOLEAN
    BY DEF Boxes
  <2>3. CASE fields.notify
    BY <2>1, <2>3 DEF IsOne, FalseWords
  <2>4. CASE ~ fields.notify
    BY <2>1, <2>4 DEF IsOne, FalseWords
  <2> QED
    BY <2>2, <2>3, <2>4
<1>10. fields.notify \in BOOLEAN
  BY DEF Boxes
<1> HIDE DEF values, skew, notify, key
<1>11. LoadValues(values) =
         [port |-> values["PORT"][1], device |-> values["DEVICE_ID"], key |-> key,
          maxBody |-> OrDefault(values["MAX_BODY_BYTES"], "65536"),
          skew |-> OrDefault(values["CLOCK_SKEW_SECONDS"], "5"),
          notify |-> ~ IsOne(values["ENABLE_NOTIFICATIONS"], FalseWords)]
  BY <1>1, <1>2, <1>4, <1>5, <1>7 DEF LoadValues, Optional
<1>12. /\ OrDefault(values["MAX_BODY_BYTES"], "65536") = "65536"
       /\ OrDefault(values["CLOCK_SKEW_SECONDS"], "5") = skew[1]
       /\ (~ IsOne(values["ENABLE_NOTIFICATIONS"], FalseWords)) = fields.notify
  BY <1>2, <1>7, <1>8, <1>9, <1>10 DEF OrDefault
<1> QED
  BY <1>2, <1>3, <1>11, <1>12 DEF Meant, skew, key

\* What config.Load accepts
LEMMA LoadedIs ==
  ASSUME NEW values \in Values, LoadValues(values) \notin {NoConfig, Panics}
  PROVE  /\ IsOne(values["PORT"], Ports) /\ values["DEVICE_ID"] # <<>>
         /\ InspectPublicKey(values["PUBLIC_KEY"]) \in PublicKeys
         /\ Optional(values["MAX_BODY_BYTES"], Sizes)
         /\ Optional(values["CLOCK_SKEW_SECONDS"], Skews)
         /\ LoadValues(values) =
              [port |-> values["PORT"][1], device |-> values["DEVICE_ID"],
               key |-> InspectPublicKey(values["PUBLIC_KEY"]),
               maxBody |-> OrDefault(values["MAX_BODY_BYTES"], "65536"),
               skew |-> OrDefault(values["CLOCK_SKEW_SECONDS"], "5"),
               notify |-> ~ IsOne(values["ENABLE_NOTIFICATIONS"], FalseWords)]
<1> DEFINE key == InspectPublicKey(values["PUBLIC_KEY"])
<1>1. values["PUBLIC_KEY"] \in Texts
  BY DEF Values, Names
<1>2. key \in PublicKeys \cup {NoKey, Panics}
  BY <1>1, InspectTyped
<1>3. IsOne(values["PORT"], Ports) /\ key # Panics
  BY DEF LoadValues
<1>4. /\ key # NoKey /\ values["DEVICE_ID"] # <<>>
      /\ Optional(values["MAX_BODY_BYTES"], Sizes) /\ Optional(values["CLOCK_SKEW_SECONDS"], Skews)
  BY <1>3 DEF LoadValues
<1> QED
  BY <1>2, <1>3, <1>4 DEF LoadValues

\* config.Load of a save of accepted fields that was cut short
LEMMA TornLoads ==
  ASSUME NEW fields \in Boxes, Accepted(fields), NEW n \in 0..Len(SavedText(fields)) - 1,
         NEW text, text = SubSeq(SavedText(fields), 1, n), Load(text) \notin {NoConfig, Panics}
  PROVE  /\ Load(text).port = Meant(fields).port /\ Load(text).device = Meant(fields).device
         /\ Load(text).key = Meant(fields).key
<1> DEFINE values == FieldValues(fields)
    parsed == Parse(text)
    key == InspectPublicKey(fields.key)
    Y == Reread(fields.key)
<1>1. /\ Clear(fields) /\ ValueOr(fields.port, <<"9876">>) = Trim(fields.port)
      /\ key \in PublicKeys /\ Regular(Trim(fields.key)) /\ fields.key \in Texts
  BY AcceptedIs
<1>2. values \in Values /\ values["PUBLIC_KEY"] = fields.key
  BY FieldValuesAre
<1>3. /\ Clean(values) /\ Trim(PortText(values)) = Trim(fields.port)
      /\ Trim(DeviceText(values)) = IF fields.device = <<>> THEN Hostname ELSE Trim(fields.device)
  BY <1>1, ClearIsClean
<1>4. TornRead(parsed, values)
  <2>1. n \in 0..Len(Save(values)) - 1 /\ text = SubSeq(Save(values), 1, n)
    BY DEF SavedText
  <2>2. TornRead(Parse(SubSeq(Save(values), 1, n)), values)
    BY <1>2, <1>3, <2>1, TornParses
  <2> QED
    BY <2>1, <2>2
<1>5. text \in Texts
  <2>1. SavedText(fields) \in Texts
    BY SaveTyped
  <2>2. Len(SavedText(fields)) \in Nat
    BY <2>1, TextFacts
  <2>3. 1 \in Nat /\ 1 >= 1 /\ n \in Int /\ n <= Len(SavedText(fields))
    BY <2>2
  <2>4. SubSeq(SavedText(fields), 1, n) \in Texts
    BY <2>1, <2>3, PartIs
  <2> QED
    BY <2>4
<1>6. parsed \in Values /\ Load(text) = LoadValues(parsed)
  BY <1>4, <1>5, LoadIs DEF TornRead
<1> HIDE DEF parsed, values
<1>7. /\ InspectPublicKey(parsed["PUBLIC_KEY"]) \in PublicKeys
      /\ Load(text).port = parsed["PORT"][1] /\ Load(text).device = parsed["DEVICE_ID"]
      /\ Load(text).key = InspectPublicKey(parsed["PUBLIC_KEY"])
  <2>1. LoadValues(parsed) \notin {NoConfig, Panics}
    BY <1>6
  <2>2. /\ InspectPublicKey(parsed["PUBLIC_KEY"]) \in PublicKeys
        /\ LoadValues(parsed) =
             [port |-> parsed["PORT"][1], device |-> parsed["DEVICE_ID"],
              key |-> InspectPublicKey(parsed["PUBLIC_KEY"]),
              maxBody |-> OrDefault(parsed["MAX_BODY_BYTES"], "65536"),
              skew |-> OrDefault(parsed["CLOCK_SKEW_SECONDS"], "5"),
              notify |-> ~ IsOne(parsed["ENABLE_NOTIFICATIONS"], FalseWords)]
    BY <1>6, <2>1, LoadedIs
  <2> QED
    BY <1>6, <2>2
<1>8. InspectPublicKey(<<>>) = NoKey
  BY EmptyContent DEF InspectPublicKey
<1>9. parsed["PUBLIC_KEY"] # <<>>
  BY <1>7, <1>8, OutcomesAssumption
<1>10. PICK i \in 0..Len(Y) :
         /\ parsed["PORT"] = Trim(PortText(values))
         /\ parsed["DEVICE_ID"] = Trim(DeviceText(values))
         /\ parsed["PUBLIC_KEY"] = SubSeq(Y, 1, i)
  BY <1>2, <1>4, <1>6, <1>9, FileAssumption DEF TornRead
<1> HIDE DEF key
<1>11. InspectPublicKey(parsed["PUBLIC_KEY"]) = key
  <2> DEFINE z == parsed["PUBLIC_KEY"]
  <2>1. z = SubSeq(Reread(fields.key), 1, i) /\ i \in 0..Len(Reread(fields.key))
    BY <1>10
  <2>2. InspectPublicKey(z) \in PublicKeys
    BY <1>7
  <2>3. InspectPublicKey(fields.key) \in PublicKeys /\ Regular(Trim(fields.key)) /\ fields.key \in Texts
    BY <1>1 DEF key
  <2> HIDE DEF z
  <2>4. InspectPublicKey(z) = InspectPublicKey(fields.key)
    BY ONLY <2>1, <2>2, <2>3, TornKey
  <2> QED
    BY <2>4 DEF z, key
<1> QED
  BY <1>3, <1>7, <1>10, <1>11 DEF Meant, key

(***************************************************************************)
(* What the window saves, the service reads: config.Load gets from the     *)
(* file what accepted fields say, whatever texts were typed, pasted or     *)
(* loaded (saveCurrentEnv, Save and Load).                                 *)
(***************************************************************************)
THEOREM SavedIsReadAlways == Spec => []SavedIsRead
<1>1. SetupTypeOK /\ SavedFile => SavedIsRead
  <2> SUFFICES ASSUME SetupTypeOK, SavedFile, saved # NoBox, ~ torn, Accepted(saved)
               PROVE  Load(file) = Meant(saved)
    BY DEF SavedIsRead
  <2>1. saved \in Boxes /\ file = SavedText(saved)
    BY DEF SetupTypeOK, SavedFile
  <2> QED
    BY <2>1, AcceptedLoads
<1> QED
  BY <1>1, SavedFileKept, PTL

(***************************************************************************)
(* A save of accepted fields cut short anywhere leaves a file the service  *)
(* does not start with, or one with their port, device and key.            *)
(***************************************************************************)
THEOREM TornSaveFailsClosedAlways == Spec => []TornSaveFailsClosed
<1>1. SetupTypeOK /\ SavedFile => TornSaveFailsClosed
  <2> SUFFICES ASSUME SetupTypeOK, SavedFile, torn, Accepted(saved),
                      Load(file) \notin {NoConfig, Panics}
               PROVE  /\ Load(file).port = Meant(saved).port
                      /\ Load(file).device = Meant(saved).device
                      /\ Load(file).key = Meant(saved).key
    BY DEF TornSaveFailsClosed
  <2>1. saved # NoBox /\ saved \in Boxes
    BY DEF SetupTypeOK
  <2>2. PICK n \in 0..Len(SavedText(saved)) - 1 : file = SubSeq(SavedText(saved), 1, n)
    BY <2>1 DEF SavedFile
  <2> QED
    BY <2>1, <2>2, TornLoads
<1> QED
  BY <1>1, SavedFileKept, PTL

-----------------------------------------------------------------------------
\* The texts of several lines
Multiline == {text \in Texts : \E i \in 1..Len(text) : text[i] = "nl"}

\* A name that has one of certain values, and no other after the quotation that
\* may be open.
Lost(parser, name, bad) ==
  /\ parser \in Parsers /\ parser.values[name] \in bad
  /\ parser.name # <<name>> \/ Multiline \subseteq bad

\* A line that does not give the name a value
Foreign(line, name) ==
  \/ line = <<>>
  \/ \E other \in Names \ {name} :
       line = <<other>> \/ \E v \in Texts : line = <<other, "=">> \o v

\* The value of a quotation that is closed on a later line has several lines.
LEMMA ClosedIsMultiline ==
  ASSUME NEW quote, NEW s \in Texts, NEW t \in Texts
  PROVE  Unquoted(quote, s \o <<"nl">> \o t) \in Multiline
<1> DEFINE e == <<"nl">>
    p == s \o e
    w == p \o t
    k == Len(s) + 1
<1>1. e \in Texts /\ Len(e) = 1 /\ e[1] = "nl"
  BY MarksAreTokens, WordIsText
<1>2. Len(s) \in Nat /\ Len(t) \in Nat
  BY TextFacts
<1> HIDE DEF e
<1>3. /\ p \in Texts /\ Len(p) = Len(s) + Len(e)
      /\ \A i \in 1..Len(s) + Len(e) : p[i] = IF i <= Len(s) THEN s[i] ELSE e[i - Len(s)]
  BY <1>1, JoinIs
<1> HIDE DEF p
<1>4. k \in 1..Len(s) + Len(e) /\ ~ (k <= Len(s)) /\ k - Len(s) = 1
  BY <1>1, <1>2
<1>5. p[k] = "nl" /\ k \in 1..Len(p)
  BY <1>1, <1>3, <1>4
<1> HIDE DEF k
<1>6. /\ w \in Texts /\ Len(w) = Len(p) + Len(t)
      /\ \A i \in 1..Len(p) + Len(t) : w[i] = IF i <= Len(p) THEN p[i] ELSE t[i - Len(p)]
  BY <1>3, JoinIs
<1> HIDE DEF w
<1>7. k \in 1..Len(w) /\ w[k] = "nl"
  <2>1. k \in 1..Len(p) + Len(t) /\ k <= Len(p)
    BY <1>1, <1>2, <1>3, <1>5
  <2> QED
    BY <1>5, <1>6, <2>1
<1>8. /\ Unescape(w) \in Texts /\ Len(Unescape(w)) = Len(w)
      /\ \A i \in 1..Len(w) : Unescape(w)[i] = CASE w[i] = "esc" -> "nl" [] w[i] = "escr" -> "cr"
                                                 [] OTHER -> w[i]
  BY <1>6, UnescapeIs
<1>9. Unescape(w)[k] = "nl"
  BY <1>7, <1>8
<1>10. Unescape(w) \in Multiline /\ w \in Multiline
  BY <1>6, <1>7, <1>8, <1>9 DEF Multiline
<1>11. Unquoted(quote, w) \in Multiline
  BY <1>10 DEF Unquoted
<1> QED
  BY <1>11 DEF w, p, e

\* A line inside a quotation
LEMMA ContinueLost ==
  ASSUME NEW parser, NEW name \in Names, NEW bad, Lost(parser, name, bad), NEW line \in Texts
  PROVE  Lost(Continue(parser, line), name, bad)
<1> DEFINE trimmed == Trim(line)
    kept == IF line # <<>> /\ Last(line) = "cr" THEN Front(line) ELSE line
    whole == Unquoted(parser.quote, parser.text \o <<"nl">> \o Front(trimmed))
    next == Continue(parser, line)
<1>1. parser \in Parsers /\ parser.text \in Texts
  BY DEF Lost, Parsers
<1>2. next \in Parsers
  BY <1>1, ContinueTyped
<1>3. CASE trimmed # <<>> /\ Last(trimmed) = parser.quote
  <2>1. trimmed \in Texts
    BY TrimShape
  <2>2. Front(trimmed) \in Texts
    <3> HIDE DEF trimmed
    <3>1. Len(trimmed) \in Nat /\ Len(trimmed) >= 1
      BY <1>3, <2>1, TextFacts
    <3>2. Front(trimmed) = SubSeq(trimmed, 1, Len(trimmed) - 1)
      BY DEF Front
    <3>3. 1 \in Nat /\ 1 >= 1 /\ Len(trimmed) - 1 \in Int /\ Len(trimmed) - 1 <= Len(trimmed)
      BY <3>1
    <3> QED
      BY <2>1, <3>2, <3>3, PartIs
  <2>3. whole \in Multiline
    BY <1>1, <2>2, ClosedIsMultiline
  <2>4. next = Set(parser, parser.name, whole)
    BY <1>3 DEF Continue
  <2> HIDE DEF whole
  <2>5. /\ next.name = parser.name
        /\ next.values[name] = IF parser.name = <<name>> THEN whole ELSE parser.values[name]
    BY <1>1, <2>4 DEF Set, Parsers
  <2>6. next.values[name] \in bad
    BY <2>3, <2>5 DEF Lost
  <2> QED
    BY <1>2, <2>5, <2>6 DEF Lost
<1>4. CASE ~ (trimmed # <<>> /\ Last(trimmed) = parser.quote)
  <2>1. next = [parser EXCEPT !.text = parser.text \o <<"nl">> \o kept]
    BY <1>1, <1>4 DEF Continue, Parsers
  <2>2. next.name = parser.name /\ next.values = parser.values
    BY <1>1, <2>1 DEF Parsers
  <2> QED
    BY <1>2, <2>2 DEF Lost
<1> QED
  BY <1>3, <1>4

\* A line of another name
LEMMA AssignLost ==
  ASSUME NEW parser, NEW name \in Names, NEW bad, Lost(parser, name, bad),
         NEW line \in Texts, Foreign(line, name)
  PROVE  Lost(Assign(parser, Trim(line)), name, bad)
<1> DEFINE next == Assign(parser, Trim(line))
<1>1. parser \in Parsers
  BY DEF Lost
<1>2. next \in Parsers
  BY <1>1, TrimShape, AssignTyped
<1>3. CASE line = <<>>
  <2>1. Trim(<<>>) = <<>>
    BY EmptyIsText, TrimOfBlanks
  <2>2. next = parser
    BY <1>3, <2>1 DEF Assign
  <2> QED
    BY <2>2
<1>4. ASSUME NEW other \in Names \ {name}, line = <<other>> PROVE Lost(next, name, bad)
  <2>1. other \in Tokens /\ other \notin Blanks /\ other # "#" /\ other # "="
    BY MarksAreTokens DEF Names, Blanks
  <2>2. Len(line) = 1 /\ line[1] = other /\ line # <<>>
    BY <1>4, <2>1, WordIsText, EmptyIsText
  <2>3. Trim(line) = line /\ Head(line) = other
    BY <2>1, <2>2, TrimKeeps, InnerIs
  <2>4. IndexOf(line, {"="}) = 0
    <3>1. \A i \in 1..Len(line) : line[i] \notin {"="}
      BY <2>1, <2>2
    <3> QED
      BY <3>1, IndexIs
  <2>5. next = [parser EXCEPT !.mode = "broken"]
    BY <2>1, <2>2, <2>3, <2>4 DEF Assign
  <2>6. next.name = parser.name /\ next.values = parser.values
    BY <1>1, <2>5 DEF Parsers
  <2> QED
    BY <1>2, <2>6 DEF Lost
<1>5. ASSUME NEW other \in Names \ {name}, NEW v \in Texts, line = <<other, "=">> \o v
      PROVE  Lost(next, name, bad)
  <2> DEFINE l == Trim(line)
      key == Trim(SubSeq(l, 1, IndexOf(l, {"="}) - 1))
      value == Trim(SubSeq(l, IndexOf(l, {"="}) + 1, Len(l)))
  <2>1. l # <<>> /\ Head(l) # "#" /\ IndexOf(l, {"="}) = 2
    BY <1>5, LineParts
  <2>2. key = <<other>> /\ value = Trim(v)
    <3>1. 2 - 1 = 1 /\ 2 + 1 = 3
      OBVIOUS
    <3> QED
      BY <1>5, <2>1, <3>1, LineParts
  <2>3. next = IF Opens(value)
               THEN [parser EXCEPT !.mode = "quoted", !.name = key,
                                   !.quote = Head(value), !.text = Tail(value)]
               ELSE Set(parser, key, Content(value))
    BY <2>1 DEF Assign
  <2> HIDE DEF key, value, l
  <2>4. key # <<name>>
    BY <2>2
  <2>5. next.values[name] = parser.values[name] /\ (next.name = key \/ next.name = parser.name)
    <3>1. CASE Opens(value)
      BY <1>1, <2>3, <3>1 DEF Parsers
    <3>2. CASE ~ Opens(value)
      <4>1. next = Set(parser, key, Content(value))
        BY <2>3, <3>2
      <4> QED
        BY <1>1, <2>4, <4>1 DEF Set, Parsers
    <3> QED
      BY <3>1, <3>2
  <2> QED
    BY <1>2, <2>4, <2>5 DEF Lost
<1> QED
  BY <1>3, <1>4, <1>5 DEF Foreign

\* The end of a line, of another name or inside a quotation
LEMMA EndLineLost ==
  ASSUME NEW parser, NEW name \in Names, NEW bad, Lost(parser, name, bad),
         parser.mode = "plain" => Foreign(parser.line, name)
  PROVE  Lost(EndLine(parser), name, bad) /\ EndLine(parser).line = <<>>
<1> DEFINE next == CASE parser.mode = "plain" -> Assign(parser, Trim(parser.line))
                     [] parser.mode = "quoted" -> Continue(parser, parser.line)
                     [] OTHER -> parser
<1>1. parser \in Parsers /\ parser.line \in Texts
  BY DEF Lost, Parsers
<1>2. Lost(next, name, bad)
  <2>1. CASE parser.mode = "plain"
    <3>1. next = Assign(parser, Trim(parser.line))
      BY <2>1
    <3> QED
      BY <1>1, <2>1, <3>1, AssignLost
  <2>2. CASE parser.mode = "quoted"
    <3>1. next = Continue(parser, parser.line)
      BY <2>2
    <3> QED
      BY <1>1, <3>1, ContinueLost
  <2>3. CASE parser.mode \notin {"plain", "quoted"}
    BY <2>3
  <2> QED
    BY <2>1, <2>2, <2>3
<1>3. EndLine(parser) = [next EXCEPT !.line = <<>>]
  BY DEF EndLine
<1>4. EndLine(parser) \in Parsers /\ EndLine(parser).line = <<>>
  BY <1>1, EndLineTyped
<1> HIDE DEF next
<1>5. EndLine(parser).name = next.name /\ EndLine(parser).values = next.values
  BY <1>2, <1>3 DEF Lost, Parsers
<1> QED
  BY <1>2, <1>4, <1>5 DEF Lost

\* Between two lines, a name has one of certain values.
LostAfter(text, name, bad) ==
  text \in Texts /\ Lost(Read(text), name, bad) /\ Read(text).line = <<>>

\* Without a key, and without a port of one line, config.Load fails.
Fatal(name, bad) ==
  \/ name = "PUBLIC_KEY" /\ bad = {<<>>}
  \/ name = "PORT" /\ bad = {<<>>} \cup Multiline

\* Neither the text nor a beginning of it is a configuration.
Refused(text) ==
  text \in Texts /\ \A n \in 0..Len(text) : Load(SubSeq(text, 1, n)) = NoConfig

\* No text of several lines is a port.
LEMMA FatalFails ==
  ASSUME NEW values \in Values, NEW name, NEW bad, Fatal(name, bad), values[name] \in bad
  PROVE  LoadValues(values) = NoConfig
<1>1. CASE name = "PUBLIC_KEY" /\ bad = {<<>>}
  <2>1. InspectPublicKey(<<>>) = NoKey
    BY EmptyContent DEF InspectPublicKey
  <2>2. values["PUBLIC_KEY"] = <<>>
    BY <1>1
  <2> QED
    BY <2>1, <2>2, OutcomesAssumption DEF LoadValues
<1>2. CASE name = "PORT" /\ bad = {<<>>} \cup Multiline
  <2> DEFINE port == values["PORT"]
  <2>1. port \in {<<>>} \cup Multiline
    BY <1>2
  <2> HIDE DEF port
  <2>2. ~ IsOne(port, Ports)
    <3> SUFFICES ASSUME Len(port) = 1, port[1] \in Ports PROVE FALSE
      BY DEF IsOne
    <3>1. port # <<>>
      BY EmptyIsText
    <3>2. PICK i \in 1..Len(port) : port[i] = "nl"
      BY <2>1, <3>1 DEF Multiline
    <3>3. port[1] = "nl"
      BY <3>2
    <3> QED
      BY <3>3, WordsAssumption DEF Words, Marks, Blanks
  <2> QED
    BY <2>2 DEF LoadValues, port
<1> QED
  BY <1>1, <1>2 DEF Fatal

\* A file in which the last line is of another name, or inside a quotation
LEMMA LostLoads ==
  ASSUME NEW text \in Texts, NEW name \in Names, NEW bad, Fatal(name, bad),
         Lost(Read(text), name, bad),
         Read(text).mode = "plain" => Foreign(Read(text).line, name)
  PROVE  Load(text) = NoConfig
<1> DEFINE parsed == EndLine(Read(text))
<1>1. Lost(parsed, name, bad)
  BY EndLineLost
<1>2. Parse(text) = IF parsed.mode = "plain" THEN parsed.values ELSE Broken
  BY DEF Parse
<1> HIDE DEF parsed
<1>3. parsed.values \in Values /\ parsed.values[name] \in bad
  BY <1>1 DEF Lost, Parsers
<1>4. LoadValues(parsed.values) = NoConfig
  BY <1>3, FatalFails
<1>5. Parse(text) = Broken \/ (Parse(text) = parsed.values /\ Parse(text) \in Values)
  BY <1>2, <1>3
<1> QED
  BY <1>4, <1>5, LoadIs

\* Part of a line is read.
LEMMA PartLost ==
  ASSUME NEW text, NEW name \in Names, NEW bad, LostAfter(text, name, bad),
         NEW part \in Texts, \A i \in 1..Len(part) : part[i] # "nl"
  PROVE  /\ text \o part \in Texts
         /\ Lost(Read(text \o part), name, bad)
         /\ Read(text \o part).mode = Read(text).mode /\ Read(text \o part).line = part
<1>1. text \in Texts /\ Read(text).line = <<>> /\ Read(text) \in Parsers
  BY DEF LostAfter, Lost
<1>2. Read(text).line \o part = part
  BY <1>1, ConcatEmptySeq DEF Texts
<1>3. Read(text \o part) = [Read(text) EXCEPT !.line = part]
  BY <1>1, <1>2, ReadMore
<1>4. /\ Read(text \o part).mode = Read(text).mode /\ Read(text \o part).line = part
      /\ Read(text \o part).name = Read(text).name
      /\ Read(text \o part).values = Read(text).values
  BY <1>1, <1>3 DEF Parsers
<1>5. text \o part \in Texts
  BY <1>1, JoinIs
<1>6. Read(text \o part) \in Parsers
  BY <1>5, ReadTyped
<1> QED
  BY <1>4, <1>5, <1>6 DEF LostAfter, Lost

\* A file cut short in a line of another name, or inside a quotation
LEMMA CutLost ==
  ASSUME NEW base, NEW name \in Names, NEW bad, Fatal(name, bad), LostAfter(base, name, bad),
         NEW other \in Names, NEW v \in Texts, \A i \in 1..Len(v) : v[i] # "nl",
         Read(base).mode # "plain" \/ other # name,
         NEW z, CutInLine(z, base, other, v)
  PROVE  Load(z) = NoConfig
<1>1. base \in Texts
  BY DEF LostAfter
<1>2. CASE z = base
  <2>1. Lost(Read(z), name, bad) /\ Foreign(Read(z).line, name)
    BY <1>2 DEF LostAfter, Foreign
  <2> QED
    BY <1>1, <1>2, <2>1, LostLoads
<1>3. CASE z = base \o <<other>>
  <2>1. <<other>> \in Texts /\ Len(<<other>>) = 1 /\ <<other>>[1] = other /\ other # "nl"
    BY MarksAreTokens, WordIsText DEF Names
  <2> DEFINE part == <<other>>
  <2>2. part \in Texts /\ \A i \in 1..Len(part) : part[i] # "nl"
    BY <2>1
  <2>3. other # name => Foreign(part, name)
    BY DEF Foreign
  <2>4. z = base \o part
    BY <1>3
  <2> HIDE DEF part
  <2>5. /\ z \in Texts /\ Lost(Read(z), name, bad)
        /\ Read(z).mode = Read(base).mode /\ Read(z).line = part
    BY <2>2, <2>4, PartLost
  <2> QED
    BY <2>3, <2>5, LostLoads
<1>4. ASSUME NEW j \in 0..Len(v), NEW w \in Texts, PartOf(w, v, 1, j),
             z = base \o (<<other, "=">> \o w)
      PROVE  Load(z) = NoConfig
  <2>1. \A i \in 1..Len(w) : w[i] # "nl"
    <3>1. Len(v) \in Nat /\ 1 \in Nat /\ 1 >= 1 /\ j \in Int /\ j <= Len(v) /\ w = SubSeq(v, 1, j)
      BY <1>4, TextFacts DEF PartOf
    <3>2. /\ Len(w) = IF 1 <= j THEN j - 1 + 1 ELSE 0
          /\ \A i \in 1..j - 1 + 1 : w[i] = v[1 + i - 1]
      BY <3>1, PartIs
    <3>3. \A i \in 1..Len(w) : i \in 1..Len(v) /\ w[i] = v[i]
      BY <3>1, <3>2
    <3> QED
      BY <3>3
  <2> DEFINE part == <<other, "=">> \o w
  <2>2. part \in Texts /\ \A i \in 1..Len(part) : part[i] # "nl"
    BY <2>1, NamePartIs
  <2>3. other # name => Foreign(part, name)
    BY DEF Foreign
  <2>4. z = base \o part
    BY <1>4
  <2> HIDE DEF part
  <2>5. /\ z \in Texts /\ Lost(Read(z), name, bad)
        /\ Read(z).mode = Read(base).mode /\ Read(z).line = part
    BY <2>2, <2>4, PartLost
  <2> QED
    BY <2>3, <2>5, LostLoads
<1> QED
  BY <1>2, <1>3, <1>4 DEF CutInLine

\* One line more of another name, or inside a quotation
LEMMA LineLost ==
  ASSUME NEW base, NEW name \in Names, NEW bad, LostAfter(base, name, bad),
         NEW other \in Names, NEW v \in Texts, \A i \in 1..Len(v) : v[i] # "nl",
         Read(base).mode # "plain" \/ other # name
  PROVE  /\ LostAfter(base \o Line(other, v), name, bad)
         /\ Read(base \o Line(other, v)) = EndLine(Read(base \o (<<other, "=">> \o v)))
<1> DEFINE part == <<other, "=">> \o v
    e == <<"nl">>
    after == base \o Line(other, v)
<1>1. base \in Texts
  BY DEF LostAfter
<1>2. part \in Texts /\ \A i \in 1..Len(part) : part[i] # "nl"
  BY NamePartIs
<1>3. other # name => Foreign(part, name)
  BY DEF Foreign
<1>4. "nl" \in Tokens /\ e \in Texts
  BY MarksAreTokens, WordIsText
<1>5. after = base \o (part \o e)
  BY DEF Line
<1> HIDE DEF part, after
<1>6. base \o part \in Texts
  BY <1>1, <1>2, JoinIs
<1>7. after = Append(base \o part, "nl")
  <2>1. after = (base \o part) \o e
    BY <1>1, <1>2, <1>4, <1>5, JoinAssociates
  <2> QED
    BY <1>4, <1>6, <2>1, AppendIsConcat DEF Texts
<1>8. after \in Texts
  BY <1>4, <1>6, <1>7, AppendProperties DEF Texts
<1>9. Read(after) = EndLine(Read(base \o part))
  BY <1>4, <1>6, <1>7, ReadAppend DEF Consume
<1>10. /\ Lost(Read(base \o part), name, bad)
       /\ Read(base \o part).mode = Read(base).mode /\ Read(base \o part).line = part
  BY <1>2, PartLost
<1>11. Lost(Read(after), name, bad) /\ Read(after).line = <<>>
  BY <1>3, <1>9, <1>10, EndLineLost
<1> QED
  BY <1>8, <1>9, <1>11 DEF LostAfter, after, part

\* Such a line keeps every beginning refused.
LEMMA LineRefused ==
  ASSUME NEW base, NEW name \in Names, NEW bad, Fatal(name, bad), LostAfter(base, name, bad),
         NEW other \in Names, NEW v \in Texts, \A i \in 1..Len(v) : v[i] # "nl",
         Read(base).mode # "plain" \/ other # name, Refused(base)
  PROVE  Refused(base \o Line(other, v)) /\ LostAfter(base \o Line(other, v), name, bad)
<1> DEFINE after == base \o Line(other, v)
<1>1. base \in Texts /\ Len(base) \in Nat
  BY TextFacts DEF LostAfter
<1>2. Line(other, v) \in Texts
  BY LineIsText
<1>3. LostAfter(after, name, bad)
  BY LineLost
<1>4. after \in Texts /\ Len(after) \in Nat /\ Len(after) = Len(base) + Len(Line(other, v))
  BY <1>1, <1>2, JoinIs, TextFacts
<1>5. ASSUME NEW n \in 0..Len(after) PROVE Load(SubSeq(after, 1, n)) = NoConfig
  <2>1. CASE n \in 0..Len(base)
    BY <1>1, <1>2, <2>1, BeginningOfJoin DEF Refused
  <2>2. CASE n \in Len(base)..Len(after) - 1
    <3>1. CutInLine(SubSeq(after, 1, n), base, other, v)
      BY <1>1, <2>2, CutIsInLine
    <3> QED
      BY <3>1, CutLost
  <2>3. CASE n = Len(after)
    <3>1. SubSeq(after, 1, n) = after
      BY <1>4, <2>3, SubSeqFull DEF Texts
    <3>2. Lost(Read(after), name, bad) /\ Foreign(Read(after).line, name)
      BY <1>3 DEF LostAfter, Foreign
    <3>3. Load(after) = NoConfig
      BY <1>4, <3>2, LostLoads
    <3> QED
      BY <3>1, <3>3
  <2> QED
    BY <1>1, <1>4, <2>1, <2>2, <2>3
<1> QED
  BY <1>3, <1>4, <1>5 DEF Refused

\* Before the first line there is no key.
LEMMA NothingLost == Refused(<<>>) /\ LostAfter(<<>>, "PUBLIC_KEY", {<<>>})
<1>1. Read(<<>>) = Start /\ <<>> \in Texts /\ Len(<<>>) = 0
  BY ReadEmpty, EmptyIsText
<1>2. /\ Start \in Parsers /\ Start.name = <<>> /\ Start.line = <<>>
      /\ Start.values["PUBLIC_KEY"] = <<>>
  BY StartTyped DEF Start, NoValues, Names
<1>3. <<>> # <<"PUBLIC_KEY">>
  OBVIOUS
<1>4. LostAfter(<<>>, "PUBLIC_KEY", {<<>>})
  BY <1>1, <1>2, <1>3 DEF LostAfter, Lost
<1>5. "PUBLIC_KEY" \in Names /\ Fatal("PUBLIC_KEY", {<<>>})
  BY DEF Names, Fatal
<1>6. Lost(Read(<<>>), "PUBLIC_KEY", {<<>>}) /\ Foreign(Read(<<>>).line, "PUBLIC_KEY")
  BY <1>4 DEF LostAfter, Foreign
<1>7. Load(<<>>) = NoConfig
  BY <1>1, <1>5, <1>6, LostLoads
<1>8. \A n \in 0..0 : SubSeq(<<>>, 1, n) = <<>>
  BY SubSeqEmpty
<1> QED
  BY <1>1, <1>4, <1>7, <1>8 DEF Refused

\* What comes of a line outside quotations: one is opened, of no value yet, or not.
LEMMA LineOpens ==
  ASSUME NEW parser \in Parsers, NEW name \in Names, NEW v \in Texts, parser.mode = "plain",
         parser.line = <<name, "=">> \o v, NEW after, after = EndLine(parser)
  PROVE  /\ after \in Parsers /\ after.line = <<>>
         /\ Opens(Trim(v)) => after.mode = "quoted" /\ after.values = parser.values
         /\ ~ Opens(Trim(v)) => after.mode = "plain"
<1> DEFINE line == Trim(parser.line)
    key == Trim(SubSeq(line, 1, IndexOf(line, {"="}) - 1))
    value == Trim(SubSeq(line, IndexOf(line, {"="}) + 1, Len(line)))
    next == Assign(parser, line)
<1>1. line # <<>> /\ Head(line) # "#" /\ IndexOf(line, {"="}) = 2
  BY LineParts
<1>2. value = Trim(v)
  <2>1. 2 - 1 = 1 /\ 2 + 1 = 3
    OBVIOUS
  <2> QED
    BY <1>1, <2>1, LineParts
<1>3. next = IF Opens(value)
             THEN [parser EXCEPT !.mode = "quoted", !.name = key,
                                 !.quote = Head(value), !.text = Tail(value)]
             ELSE Set(parser, key, Content(value))
  BY <1>1 DEF Assign
<1>4. after = [next EXCEPT !.line = <<>>]
  BY DEF EndLine
<1>5. after \in Parsers /\ after.line = <<>>
  BY EndLineTyped
<1>6. line \in Texts /\ next \in Parsers
  BY TrimShape, AssignTyped DEF Parsers
<1> HIDE DEF key, value, line, next
<1>7. after.mode = next.mode /\ after.values = next.values
  BY <1>4, <1>6 DEF Parsers
<1>8. CASE Opens(value)
  BY <1>2, <1>3, <1>5, <1>7, <1>8 DEF Parsers
<1>9. CASE ~ Opens(value)
  <2>1. next = Set(parser, key, Content(value))
    BY <1>3, <1>9
  <2>2. next.mode = "plain"
    BY <2>1 DEF Set, Parsers
  <2> QED
    BY <1>2, <1>5, <1>7, <1>9, <2>2
<1> QED
  BY <1>8, <1>9

\* What the parser is like after such a line
LEMMA OpenLine ==
  ASSUME NEW base, NEW name \in Names, NEW bad, LostAfter(base, name, bad),
         Read(base).mode = "plain",
         NEW other \in Names, other # name, NEW v \in Texts, \A i \in 1..Len(v) : v[i] # "nl",
         NEW after, after = Read(base \o Line(other, v))
  PROVE  /\ after \in Parsers /\ after.line = <<>>
         /\ Opens(Trim(v)) => after.mode = "quoted" /\ after.values = Read(base).values
         /\ ~ Opens(Trim(v)) => after.mode = "plain"
<1> DEFINE part == <<other, "=">> \o v
    parser == Read(base \o part)
<1>1. part \in Texts /\ \A i \in 1..Len(part) : part[i] # "nl"
  BY NamePartIs
<1>2. base \in Texts /\ Read(base) \in Parsers /\ Read(base).line = <<>>
  BY DEF LostAfter, Lost
<1>3. Between(base)
  BY <1>2 DEF Between
<1>4. parser = [Read(base) EXCEPT !.line = part]
  BY <1>1, <1>2, <1>3, ReadPart
<1>5. /\ parser \in Parsers /\ parser.mode = "plain" /\ parser.line = part
      /\ parser.values = Read(base).values
  BY <1>1, <1>2, <1>4 DEF Parsers
<1>6. after = EndLine(parser)
  BY LineLost
<1> HIDE DEF parser
<1>7. parser.line = <<other, "=">> \o v
  BY <1>5
<1> QED
  BY <1>5, <1>6, <1>7, LineOpens

\* No line end is left in a text or its default if there was none.
LEMMA ValueOrOnOneLine ==
  ASSUME NEW text \in Texts, Avoids(text, "nl"), NEW x \in Words
  PROVE  \A i \in 1..Len(ValueOr(text, <<x>>)) : ValueOr(text, <<x>>)[i] # "nl"
<1>1. Avoids(Trim(text), "nl")
  BY TrimAvoids
<1>2. Len(<<x>>) = 1 /\ <<x>>[1] = x /\ x # "nl"
  BY WordIsText DEF Words, Marks, Blanks
<1> QED
  BY <1>1, <1>2 DEF ValueOr, Avoids

\* config.Load refuses what Save makes of a device that opens a quotation, and
\* every beginning of it.
LEMMA OpenDeviceLoads ==
  ASSUME NEW fields \in Boxes, Opens(Trim(fields.device)),
         Avoids(fields.port, "nl"), Avoids(fields.device, "nl"), Avoids(fields.skew, "nl")
  PROVE  Refused(SavedText(fields))
<1> DEFINE values == FieldValues(fields)
    key == InQuotes(WrittenKey(values["PUBLIC_KEY"]))
    NoLineEnd(v) == \A i \in 1..Len(v) : v[i] # "nl"
    Unfit == {<<>>} \cup Multiline
<1>1. /\ values \in Values /\ values["PORT"] = fields.port /\ values["DEVICE_ID"] = fields.device
      /\ values["CLOCK_SKEW_SECONDS"] = fields.skew /\ values["MAX_BODY_BYTES"] = <<>>
      /\ values["ENABLE_NOTIFICATIONS"] = IF fields.notify THEN <<"true">> ELSE <<"false">>
  BY FieldValuesAre
<1>2. fields.port \in Texts /\ fields.device \in Texts /\ fields.skew \in Texts
  BY DEF Boxes
<1>3. {"9876", "65536", "5", "true", "false"} \subseteq Words
  BY WordsAssumption
<1>4. DeviceText(values) = fields.device
  <2>1. fields.device # <<>>
    <3>1. Trim(<<>>) = <<>>
      BY EmptyIsText, TrimOfBlanks
    <3> QED
      BY <3>1 DEF Opens
  <2> QED
    BY <1>1, <2>1 DEF DeviceText
<1>5. NoLineEnd(PortText(values)) /\ NoLineEnd(SkewText(values)) /\ NoLineEnd(DeviceText(values))
  BY <1>1, <1>2, <1>3, <1>4, ValueOrOnOneLine DEF PortText, SkewText, Avoids
<1>6. NoLineEnd(SizeText(values)) /\ NoLineEnd(NotifyText(values))
  <2>1. Avoids(<<>>, "nl") /\ <<>> \in Texts
    BY EmptyIsText DEF Avoids
  <2>2. ASSUME NEW x \in Words PROVE Avoids(<<x>>, "nl") /\ <<x>> \in Texts
    <3>1. <<x>> \in Texts /\ Len(<<x>>) = 1 /\ <<x>>[1] = x /\ x # "nl"
      BY WordIsText DEF Words, Marks, Blanks
    <3> QED
      BY <3>1 DEF Avoids
  <2>3. Avoids(values["ENABLE_NOTIFICATIONS"], "nl") /\ values["ENABLE_NOTIFICATIONS"] \in Texts
    BY <1>1, <1>3, <2>2
  <2> QED
    BY <1>1, <1>3, <2>1, <2>3, ValueOrOnOneLine DEF SizeText, NotifyText
<1>7. key \in Texts /\ NoLineEnd(key)
  BY <1>1, SavedTexts, RereadIs, RereadPlain, InQuotesIs, InQuotesRead
<1>8. /\ PortText(values) \in Texts /\ DeviceText(values) \in Texts
      /\ SkewText(values) \in Texts /\ SizeText(values) \in Texts /\ NotifyText(values) \in Texts
  BY <1>1, SavedTexts
<1>9. SixNames \subseteq Names
  BY DEF SixNames, Names
<1>10. /\ TwoLines(values) = FirstLine(values) \o Line("DEVICE_ID", DeviceText(values))
       /\ ThreeLines(values) = TwoLines(values) \o Line("PUBLIC_KEY", key)
       /\ FourLines(values) = ThreeLines(values) \o Line("CLOCK_SKEW_SECONDS", SkewText(values))
       /\ FiveLines(values) = FourLines(values) \o Line("MAX_BODY_BYTES", SizeText(values))
       /\ AllLines(values) = FiveLines(values) \o Line("ENABLE_NOTIFICATIONS", NotifyText(values))
       /\ FirstLine(values) = <<>> \o Line("PORT", PortText(values))
  BY DEF TwoLines, ThreeLines, FourLines, FiveLines, AllLines, FirstLine
<1>11. SavedText(fields) = AllLines(values)
  BY <1>1, SaveIs DEF SavedText
<1> HIDE DEF values, key
<1>12. Fatal("PUBLIC_KEY", {<<>>}) /\ Fatal("PORT", Unfit)
  BY DEF Fatal
<1>13. /\ Refused(FirstLine(values)) /\ LostAfter(FirstLine(values), "PUBLIC_KEY", {<<>>})
  BY <1>5, <1>8, <1>9, <1>10, <1>12, NothingLost, LineRefused DEF SixNames
<1>14. /\ Read(FirstLine(values)) \in Parsers /\ Read(FirstLine(values)).line = <<>>
       /\ Opens(Trim(PortText(values))) => Read(FirstLine(values)).values["PORT"] = <<>>
       /\ ~ Opens(Trim(PortText(values))) => Read(FirstLine(values)).mode = "plain"
  <2>1. Read(<<>>).mode = "plain" /\ Read(<<>>).values["PORT"] = <<>>
    BY ReadEmpty DEF Start, NoValues, Names
  <2> DEFINE v == PortText(values)
      base == <<>>
      after == Read(FirstLine(values))
  <2>2. v \in Texts /\ \A i \in 1..Len(v) : v[i] # "nl"
    BY <1>5, <1>8
  <2>3. after = Read(base \o Line("PORT", v))
    BY <1>10
  <2>4. "PORT" \in Names /\ "PUBLIC_KEY" \in Names /\ "PORT" # "PUBLIC_KEY"
    BY <1>9 DEF SixNames
  <2>5. LostAfter(base, "PUBLIC_KEY", {<<>>}) /\ Read(base).mode = "plain"
        /\ Read(base).values["PORT"] = <<>>
    BY <2>1, NothingLost
  <2> HIDE DEF v, after, base
  <2>6. /\ after \in Parsers /\ after.line = <<>>
        /\ Opens(Trim(v)) => after.mode = "quoted" /\ after.values = Read(base).values
        /\ ~ Opens(Trim(v)) => after.mode = "plain"
    BY <2>2, <2>3, <2>4, <2>5, OpenLine
  <2> QED
    BY <2>5, <2>6 DEF v, after
\* The lines up to the key's keep a key or a port from being read
<1>15. \E name \in {"PUBLIC_KEY", "PORT"}, bad \in {{<<>>}, Unfit} :
         Fatal(name, bad) /\ Refused(ThreeLines(values)) /\ LostAfter(ThreeLines(values), name, bad)
  <2>1. CASE ~ Opens(Trim(PortText(values)))
    <3>1. Refused(TwoLines(values)) /\ LostAfter(TwoLines(values), "PUBLIC_KEY", {<<>>})
      BY <1>5, <1>8, <1>9, <1>10, <1>12, <1>13, LineRefused DEF SixNames
    <3>2. Read(TwoLines(values)).mode = "quoted"
      <4> DEFINE v == DeviceText(values)
          base == FirstLine(values)
      <4>1. v \in Texts /\ (\A i \in 1..Len(v) : v[i] # "nl") /\ Opens(Trim(v))
        BY <1>4, <1>5, <1>8
      <4>2. Read(TwoLines(values)) = Read(base \o Line("DEVICE_ID", v))
        BY <1>10
      <4>3. "DEVICE_ID" \in Names /\ "PUBLIC_KEY" \in Names /\ "DEVICE_ID" # "PUBLIC_KEY"
        BY <1>9 DEF SixNames
      <4>4. LostAfter(base, "PUBLIC_KEY", {<<>>}) /\ Read(base).mode = "plain"
        BY <1>13, <1>14, <2>1
      <4> HIDE DEF v, base
      <4> QED
        BY <4>1, <4>2, <4>3, <4>4, OpenLine
    <3>3. Refused(ThreeLines(values)) /\ LostAfter(ThreeLines(values), "PUBLIC_KEY", {<<>>})
      BY <1>7, <1>9, <1>10, <1>12, <3>1, <3>2, LineRefused DEF SixNames
    <3> QED
      BY <1>12, <3>3
  <2>2. CASE Opens(Trim(PortText(values)))
    <3>1. LostAfter(FirstLine(values), "PORT", Unfit)
      BY <1>13, <1>14, <2>2 DEF LostAfter, Lost
    <3>2. Refused(TwoLines(values)) /\ LostAfter(TwoLines(values), "PORT", Unfit)
      BY <1>5, <1>8, <1>9, <1>10, <1>12, <1>13, <3>1, LineRefused DEF SixNames
    <3>3. Refused(ThreeLines(values)) /\ LostAfter(ThreeLines(values), "PORT", Unfit)
      <4> DEFINE base == TwoLines(values)
      <4>1. ThreeLines(values) = base \o Line("PUBLIC_KEY", key)
        BY <1>10
      <4>2. "PORT" \in Names /\ "PUBLIC_KEY" \in Names /\ "PUBLIC_KEY" # "PORT"
        BY <1>9 DEF SixNames
      <4>3. Refused(base) /\ LostAfter(base, "PORT", Unfit) /\ Fatal("PORT", Unfit)
        BY <1>12, <3>2
      <4>4. key \in Texts /\ \A i \in 1..Len(key) : key[i] # "nl"
        BY <1>7
      <4> HIDE DEF base, Unfit
      <4>5. /\ Refused(base \o Line("PUBLIC_KEY", key))
            /\ LostAfter(base \o Line("PUBLIC_KEY", key), "PORT", Unfit)
        BY ONLY <4>2, <4>3, <4>4, LineRefused
      <4> QED
        BY <4>1, <4>5
    <3> QED
      BY <1>12, <3>3
  <2> QED
    BY <2>1, <2>2
<1>16. PICK name \in {"PUBLIC_KEY", "PORT"}, bad \in {{<<>>}, Unfit} :
         Fatal(name, bad) /\ Refused(ThreeLines(values)) /\ LostAfter(ThreeLines(values), name, bad)
  BY <1>15
<1> HIDE DEF Unfit
<1>17. Refused(FourLines(values)) /\ LostAfter(FourLines(values), name, bad)
  BY <1>5, <1>8, <1>9, <1>10, <1>16, LineRefused DEF SixNames
<1>18. Refused(FiveLines(values)) /\ LostAfter(FiveLines(values), name, bad)
  BY <1>6, <1>8, <1>9, <1>10, <1>16, <1>17, LineRefused DEF SixNames
<1>19. Refused(AllLines(values))
  BY <1>6, <1>8, <1>9, <1>10, <1>16, <1>18, LineRefused DEF SixNames
<1> QED
  BY <1>11, <1>19

(***************************************************************************)
(* A device that opens a quotation is refused: whatever was saved with it, *)
(* whole or cut short, config.Load returns an error (config.go, Save and   *)
(* parseDotEnv), unless a field holds a line end.                          *)
(***************************************************************************)
THEOREM OpenDeviceIsRefusedAlways == Spec => []OpenDeviceIsRefused
<1>1. SetupTypeOK /\ SavedFile => OpenDeviceIsRefused
  <2> SUFFICES ASSUME SetupTypeOK, SavedFile, saved # NoBox, Opens(Trim(saved.device)),
                      \A text \in {saved.port, saved.device, saved.skew} : ~ Contains(text, "nl")
               PROVE  Load(file) = NoConfig
    BY DEF OpenDeviceIsRefused
  <2>1. saved \in Boxes
    BY DEF SetupTypeOK
  <2>2. Avoids(saved.port, "nl") /\ Avoids(saved.device, "nl") /\ Avoids(saved.skew, "nl")
    BY DEF Avoids, Contains
  <2>3. Refused(SavedText(saved))
    BY <2>1, <2>2, OpenDeviceLoads
  <2> DEFINE whole == SavedText(saved)
  <2>4. whole \in Texts /\ Len(whole) \in Nat
    BY <2>3, TextFacts DEF Refused
  <2>5. SubSeq(whole, 1, Len(whole)) = whole
    BY <2>4, SubSeqFull DEF Texts
  <2>6. \E n \in 0..Len(whole) : file = SubSeq(whole, 1, n)
    <3>1. CASE torn
      <4>1. PICK n \in 0..Len(whole) - 1 : file = SubSeq(whole, 1, n)
        BY <3>1 DEF SavedFile
      <4>2. n \in 0..Len(whole)
        BY <2>4
      <4> QED
        BY <4>1, <4>2
    <3>2. CASE ~ torn
      <4>1. file = whole
        BY <3>2 DEF SavedFile
      <4>2. Len(whole) \in 0..Len(whole)
        BY <2>4
      <4> QED
        BY <2>5, <4>1, <4>2
    <3> QED
      BY <3>1, <3>2
  <2> QED
    BY <2>3, <2>6 DEF Refused
<1> QED
  BY <1>1, SavedFileKept, PTL

-----------------------------------------------------------------------------
\* LoadWithDefaults of a file that can be read
LEMMA DefaultedIs ==
  ASSUME NEW text \in Texts, Parse(text) \in Values, NEW values, values = LoadWithDefaults(text)
  PROVE  /\ values \in Values
         /\ \A name \in Names : values[name] = IF Parse(text)[name] # <<>> THEN Parse(text)[name]
                                               ELSE DefaultValues[name]
<1> DEFINE parsed == Parse(text)
<1>1. text # NoFile /\ parsed # Broken
  BY FileAssumption
<1>2. values = [name \in Names |-> IF parsed[name] # <<>> THEN parsed[name]
                                   ELSE DefaultValues[name]]
  BY <1>1 DEF LoadWithDefaults
<1>3. \A name \in Names : parsed[name] \in Texts /\ DefaultValues[name] \in Texts
  BY DefaultsAre DEF Values
<1> HIDE DEF parsed
<1>4. values \in Values
  BY <1>2, <1>3 DEF Values
<1>5. \A name \in Names : values[name] = IF parsed[name] # <<>> THEN parsed[name]
                                         ELSE DefaultValues[name]
  BY <1>2
<1> QED
  BY <1>4, <1>5 DEF parsed

\* Legible fields are clear, and their key does not become a lone quote.
LEMMA LegibleIs ==
  ASSUME NEW fields \in Boxes, Legible(fields), InspectPublicKey(fields.key) # Panics
  PROVE  Clear(fields) /\ InspectPublicKey(Reread(fields.key)) # Panics
<1>1. fields.key \in Texts
  BY DEF Boxes
<1>2. Trim(fields.key) # <<>> =>
        {Head(Trim(fields.key)), Last(Trim(fields.key))} \cap {"esc", "escr"} = {}
  BY DEF Legible
<1>3. InspectPublicKey(Reread(fields.key)) # Panics
  BY <1>1, <1>2, RereadNoPanic
<1> QED
  BY <1>3 DEF Legible, Clear

\* A window that opens on a save of clear fields shows its values, with a key
\* from keys.txt if there is none, and crashes only over the key it reads.
LEMMA OpenShows ==
  ASSUME SetupTypeOK, NEW fields \in Boxes, Clear(fields), file = SavedText(fields), Open,
         NEW values, values = LoadWithDefaults(file)
  PROVE  /\ values \in Values /\ values["PUBLIC_KEY"] = Reread(fields.key)
         /\ InspectPublicKey(Reread(fields.key)) # Panics => window' = "open"
         /\ Reread(fields.key) # <<>> => Show(Fields(values))
<1> DEFINE Y == Reread(fields.key)
    parsed == Parse(file)
    missing == values = Broken \/ values["PUBLIC_KEY"] = <<>>
    found == IF missing THEN FoundKey ELSE <<>>
    shown == IF values = Broken THEN NoValues
             ELSE IF found = <<>> THEN values ELSE [values EXCEPT !["PUBLIC_KEY"] = found]
<1>1. file \in Texts
  BY SaveTyped
<1>2. parsed \in Values /\ parsed["PUBLIC_KEY"] = Y
  BY SavedReads
<1>3. /\ values \in Values
      /\ \A name \in Names : values[name] = IF parsed[name] # <<>> THEN parsed[name]
                                            ELSE DefaultValues[name]
  BY <1>1, <1>2, DefaultedIs
<1>4. values["PUBLIC_KEY"] = Y /\ "PUBLIC_KEY" \in Names
  BY <1>2, <1>3, DefaultsAre DEF Names
<1>5. values # Broken
  BY <1>3, FileAssumption
<1>6. IF found = Panics \/ (values = Broken /\ found # <<>>) THEN Crash ELSE Show(Fields(shown))
  BY DEF Open
<1>7. found = <<>> \/ (found \in Texts /\ InspectPublicKey(found) # Panics)
  BY FoundIs
<1>8. found # Panics
  BY <1>7, EmptyIsText, OutcomesAssumption
<1>9. Y # <<>> => found = <<>>
  BY <1>4, <1>5
<1> HIDE DEF found, Y
<1>10. Show(Fields(shown))
  BY <1>5, <1>6, <1>8
<1>11. Y # <<>> => Show(Fields(values))
  BY <1>5, <1>9, <1>10
<1>12. ASSUME InspectPublicKey(Y) # Panics PROVE window' = "open"
  <2>1. shown \in Values /\ InspectPublicKey(shown["PUBLIC_KEY"]) # Panics
    <3>1. CASE found = <<>>
      BY <1>3, <1>4, <1>5, <1>12, <3>1
    <3>2. CASE found # <<>>
      <4>1. shown = [values EXCEPT !["PUBLIC_KEY"] = found]
        BY <1>5, <3>2
      <4>2. shown \in Values /\ shown["PUBLIC_KEY"] = found
        BY <1>3, <1>4, <1>7, <3>2, <4>1 DEF Values
      <4> QED
        BY <1>7, <3>2, <4>2
    <3> QED
      BY <3>1, <3>2
  <2> HIDE DEF shown
  <2>2. Fields(shown).key = shown["PUBLIC_KEY"]
    BY <2>1, FieldsTyped
  <2> QED
    BY <1>10, <2>1, <2>2 DEF Show
<1> QED
  BY <1>3, <1>4, <1>11, <1>12 DEF Y

\* What the window shows of a save of accepted fields means the same, and is
\* accepted again.
LEMMA ShownAgain ==
  ASSUME NEW fields \in Boxes, Accepted(fields),
         NEW values, values = LoadWithDefaults(SavedText(fields))
  PROVE  /\ Reread(fields.key) # <<>> /\ InspectPublicKey(Fields(values).key) # Panics
         /\ Accepted(Fields(values)) /\ Meant(Fields(values)) = Meant(fields)
<1> DEFINE shown == Fields(values)
    parsed == Parse(SavedText(fields))
    skew == ValueOr(fields.skew, <<"5">>)
    device == IF fields.device = <<>> THEN Hostname ELSE Trim(fields.device)
    notify == IF fields.notify THEN <<"true">> ELSE <<"false">>
    key == InspectPublicKey(fields.key)
    Y == Reread(fields.key)
<1>1. /\ Clear(fields)
      /\ IsOne(Trim(fields.port), Ports) /\ Trim(fields.port) # <<>>
      /\ ValueOr(fields.port, <<"9876">>) = Trim(fields.port)
      /\ fields.device # <<>> => Trim(fields.device) # <<>>
      /\ key \in PublicKeys /\ Regular(Trim(fields.key)) /\ fields.key \in Texts
      /\ IsOne(skew, Skews)
  BY AcceptedIs
<1>2. /\ parsed \in Values /\ parsed["PORT"] = Trim(fields.port) /\ parsed["DEVICE_ID"] = device
      /\ parsed["PUBLIC_KEY"] = Y /\ parsed["CLOCK_SKEW_SECONDS"] = skew
      /\ parsed["ENABLE_NOTIFICATIONS"] = notify
  BY <1>1, SavedReads
<1>3. /\ values \in Values
      /\ \A name \in Names : values[name] = IF parsed[name] # <<>> THEN parsed[name]
                                            ELSE DefaultValues[name]
  BY <1>2, SaveTyped, DefaultedIs
<1>4. InspectPublicKey(Y) = key /\ key # NoKey /\ key # Panics
  BY <1>1, KeyReread, OutcomesAssumption
<1>5. Y # <<>>
  BY <1>4, EmptyContent DEF InspectPublicKey
<1>6. Ports \subseteq Words /\ Skews \subseteq Words
  BY WordsAssumption
<1>7. fields.device \in Texts /\ fields.skew \in Texts /\ fields.port \in Texts /\ fields.notify \in BOOLEAN
  BY DEF Boxes
<1>8. Trim(fields.port) \in Texts /\ Trim(fields.skew) \in Texts /\ skew \in Texts
  BY <1>7, TrimShape, DefaultWords DEF ValueOr
<1>9. device # <<>> /\ Plain(device) /\ Trim(device) = device
  <2>1. CASE fields.device = <<>>
    BY <2>1, DefaultWords
  <2>2. CASE fields.device # <<>>
    <3>1. Plain(Trim(fields.device)) /\ Trim(Trim(fields.device)) = Trim(fields.device)
      BY <1>1, <1>7, PlainTrimmed, TrimTwice DEF Clear
    <3> QED
      BY <1>1, <2>2, <3>1
  <2> QED
    BY <2>1, <2>2
<1>10. skew # <<>> /\ Trim(skew) = skew
  BY <1>1, <1>6, <1>8, OneIsPlain
<1>11. notify # <<>> /\ (notify # <<"false">>) = fields.notify
  BY <1>7, DefaultWords
<1>12. Trim(Trim(fields.port)) = Trim(fields.port)
  BY <1>7, TrimTwice
<1>13. Regular(Trim(Y))
  BY <1>1, RegularReread
<1> HIDE DEF parsed, skew, device, notify, Y, key
<1>14. SixNames \subseteq Names
  BY DEF SixNames, Names
<1>15. /\ values["PORT"] = Trim(fields.port) /\ values["DEVICE_ID"] = device
       /\ values["CLOCK_SKEW_SECONDS"] = skew /\ values["PUBLIC_KEY"] = Y
       /\ values["ENABLE_NOTIFICATIONS"] = notify
  BY <1>1, <1>2, <1>3, <1>5, <1>9, <1>10, <1>11, <1>14 DEF SixNames
<1>16. /\ shown.port = Trim(fields.port) /\ shown.device = device /\ shown.skew = skew
       /\ shown.key = Y /\ shown.notify = fields.notify
  BY <1>3, <1>11, <1>15, FieldsTyped
<1> HIDE DEF shown
<1>17. Accepted(shown)
  BY <1>1, <1>4, <1>9, <1>10, <1>12, <1>13, <1>16 DEF Accepted, Installable, key
<1>18. Meant(shown) = Meant(fields)
  <2>1. ValueOr(shown.skew, <<"5">>) = skew
    BY <1>10, <1>16 DEF ValueOr
  <2>2. (IF shown.device = <<>> THEN Hostname ELSE Trim(shown.device)) = device
    BY <1>9, <1>16
  <2>3. InspectPublicKey(shown.key) = key /\ Trim(shown.port)[1] = Trim(fields.port)[1]
    BY <1>4, <1>12, <1>16
  <2>4. Meant(shown) = [port |-> Trim(fields.port)[1], device |-> device, key |-> key,
                        maxBody |-> "65536", skew |-> skew[1], notify |-> fields.notify]
    BY <1>16, <2>1, <2>2, <2>3 DEF Meant
  <2>5. Meant(fields) = [port |-> Trim(fields.port)[1], device |-> device, key |-> key,
                         maxBody |-> "65536", skew |-> skew[1], notify |-> fields.notify]
    BY DEF Meant, device, key, skew
  <2> QED
    BY <2>4, <2>5
<1> QED
  BY <1>4, <1>5, <1>16, <1>17, <1>18 DEF shown, Y

(***************************************************************************)
(* What the window saves, it shows again: a window opened on a save of     *)
(* legible fields does not crash, and one on a save of accepted fields     *)
(* shows fields that mean the same and are accepted again (LaunchGUI,      *)
(* createControls, saveCurrentEnv).                                        *)
(***************************************************************************)
THEOREM SavedIsShownAlways == Spec => SavedIsShown
<1> DEFINE Shows == saved # NoBox /\ ~ torn /\ Open
              => /\ Legible(saved) => window' = "open"
                 /\ Accepted(saved)
                      => window' = "open" /\ Accepted(box') /\ Meant(box') = Meant(saved)
<1>1. SetupTypeOK /\ SavedFile => Shows
  <2> SUFFICES ASSUME SetupTypeOK, SavedFile, saved # NoBox, ~ torn, Open PROVE Shows
    OBVIOUS
  <2> DEFINE values == LoadWithDefaults(file)
  <2>1. saved \in Boxes /\ file = SavedText(saved) /\ InspectPublicKey(saved.key) # Panics
    BY DEF SetupTypeOK, SavedFile
  <2>2. ASSUME Legible(saved) PROVE window' = "open"
    <3>1. Clear(saved) /\ InspectPublicKey(Reread(saved.key)) # Panics
      BY <2>1, <2>2, LegibleIs
    <3> QED
      BY <2>1, <3>1, OpenShows
  <2>3. ASSUME Accepted(saved)
        PROVE  window' = "open" /\ Accepted(box') /\ Meant(box') = Meant(saved)
    <3>1. /\ Reread(saved.key) # <<>> /\ InspectPublicKey(Fields(values).key) # Panics
          /\ Accepted(Fields(values)) /\ Meant(Fields(values)) = Meant(saved)
      BY <2>1, <2>3, ShownAgain
    <3>2. Clear(saved)
      BY <2>1, <2>3, AcceptedIs
    <3>3. Show(Fields(values))
      BY <2>1, <3>1, <3>2, OpenShows
    <3>4. window' = "open" /\ box' = Fields(values)
      BY <3>1, <3>3 DEF Show
    <3> QED
      BY <3>1, <3>4
  <2> QED
    BY <2>2, <2>3
<1>2. SetupTypeOK /\ SavedFile /\ [Next]_vars => [Shows]_vars
  BY <1>1
<1> QED
  BY <1>2, SavedFileKept, PTL DEF Spec, SavedIsShown

-----------------------------------------------------------------------------
\* The fields of a window that was opened on a file the service starts with
LEMMA StartedFields ==
  ASSUME NEW text \in Texts \cup {NoFile}, Load(text) \notin {NoConfig, Panics},
         NEW values, values = LoadWithDefaults(text),
         NEW fields \in Boxes, fields = Fields(values), Regular(Trim(fields.key)),
         Plain(fields.device), Trim(fields.device) = fields.device
  PROVE  /\ Accepted(fields) /\ Meant(fields) \in Configs
         /\ \A part \in {"port", "device", "key", "skew"} :
              Meant(fields)[part] = Load(text)[part]
<1> DEFINE parsed == Parse(text)
    kept == values["ENABLE_NOTIFICATIONS"] # <<"false">>
    key == InspectPublicKey(parsed["PUBLIC_KEY"])
<1>1. text \in Texts
  BY DEF Load
<1>2. parsed \in Values /\ Load(text) = LoadValues(parsed)
  BY <1>1, ParseTyped, LoadIs
<1>3. /\ IsOne(parsed["PORT"], Ports) /\ parsed["DEVICE_ID"] # <<>> /\ key \in PublicKeys
      /\ Optional(parsed["CLOCK_SKEW_SECONDS"], Skews)
      /\ Load(text) =
           [port |-> parsed["PORT"][1], device |-> parsed["DEVICE_ID"], key |-> key,
            maxBody |-> OrDefault(parsed["MAX_BODY_BYTES"], "65536"),
            skew |-> OrDefault(parsed["CLOCK_SKEW_SECONDS"], "5"),
            notify |-> ~ IsOne(parsed["ENABLE_NOTIFICATIONS"], FalseWords)]
  BY <1>2, LoadedIs
<1>4. parsed["PUBLIC_KEY"] # <<>>
  BY <1>3, EmptyContent, OutcomesAssumption DEF InspectPublicKey
<1>5. /\ values \in Values
      /\ \A name \in Names : values[name] = IF parsed[name] # <<>> THEN parsed[name]
                                            ELSE DefaultValues[name]
  BY <1>1, <1>2, DefaultedIs
<1>6. SixNames \subseteq Names
  BY DEF SixNames, Names
<1>7. Ports \subseteq Words /\ Skews \subseteq Words /\ "5" \in Skews
  BY WordsAssumption
<1>8. /\ parsed["PORT"] \in Texts /\ parsed["CLOCK_SKEW_SECONDS"] \in Texts
      /\ parsed["ENABLE_NOTIFICATIONS"] \in Texts
  BY <1>2, <1>6 DEF Values, SixNames
<1>9. parsed["PORT"] # <<>> /\ Trim(parsed["PORT"]) = parsed["PORT"]
  BY <1>3, <1>7, <1>8, OneIsPlain
<1> HIDE DEF parsed, key
<1>10. /\ values["PORT"] = parsed["PORT"] /\ values["DEVICE_ID"] = parsed["DEVICE_ID"]
       /\ values["PUBLIC_KEY"] = parsed["PUBLIC_KEY"]
       /\ values["CLOCK_SKEW_SECONDS"] = IF parsed["CLOCK_SKEW_SECONDS"] # <<>>
                                         THEN parsed["CLOCK_SKEW_SECONDS"] ELSE <<"5">>
       /\ values["ENABLE_NOTIFICATIONS"] = IF parsed["ENABLE_NOTIFICATIONS"] # <<>>
                                           THEN parsed["ENABLE_NOTIFICATIONS"] ELSE <<"true">>
  BY <1>3, <1>4, <1>5, <1>6, <1>9, DefaultsAre DEF SixNames
<1>11. /\ fields.port = parsed["PORT"] /\ fields.device = parsed["DEVICE_ID"]
       /\ fields.key = parsed["PUBLIC_KEY"] /\ fields.skew = values["CLOCK_SKEW_SECONDS"]
       /\ fields.notify = kept
  BY <1>5, <1>10, FieldsTyped
<1>12. /\ IsOne(fields.skew, Skews) /\ Trim(fields.skew) = fields.skew /\ fields.skew # <<>>
       /\ fields.skew[1] = OrDefault(parsed["CLOCK_SKEW_SECONDS"], "5")
  <2>1. CASE parsed["CLOCK_SKEW_SECONDS"] = <<>>
    <3>1. fields.skew = <<"5">>
      BY <1>10, <1>11, <2>1
    <3>2. IsOne(<<"5">>, Skews) /\ <<"5">>[1] = "5"
      BY <1>7, WordIsOne
    <3> QED
      BY <2>1, <3>1, <3>2, DefaultWords DEF OrDefault
  <2>2. CASE parsed["CLOCK_SKEW_SECONDS"] # <<>>
    <3>1. fields.skew = parsed["CLOCK_SKEW_SECONDS"] /\ IsOne(parsed["CLOCK_SKEW_SECONDS"], Skews)
      BY <1>3, <1>10, <1>11, <2>2 DEF Optional
    <3> QED
      BY <1>7, <1>8, <2>2, <3>1, OneIsPlain DEF OrDefault
  <2> QED
    BY <2>1, <2>2
<1>13. Accepted(fields)
  BY <1>3, <1>9, <1>11, <1>12 DEF Accepted, Installable, key
<1>14. Meant(fields) =
         [port |-> parsed["PORT"][1], device |-> parsed["DEVICE_ID"], key |-> key,
          maxBody |-> "65536", skew |-> OrDefault(parsed["CLOCK_SKEW_SECONDS"], "5"),
          notify |-> kept]
  <2>1. ValueOr(fields.skew, <<"5">>) = fields.skew
    BY <1>12 DEF ValueOr
  <2>2. (IF fields.device = <<>> THEN Hostname ELSE Trim(fields.device)) = parsed["DEVICE_ID"]
    BY <1>3, <1>11
  <2>3. InspectPublicKey(fields.key) = key /\ Trim(fields.port)[1] = parsed["PORT"][1]
    BY <1>9, <1>11 DEF key
  <2> HIDE DEF kept
  <2> QED
    BY <1>11, <1>12, <2>1, <2>2, <2>3 DEF Meant
<1>15. Meant(fields) \in Configs
  <2>1. parsed["PORT"][1] \in Ports /\ parsed["DEVICE_ID"] \in Texts /\ key \in PublicKeys
    BY <1>2, <1>3, <1>6 DEF Values, SixNames, IsOne
  <2>2. fields.skew[1] \in Skews /\ kept \in BOOLEAN /\ "65536" \in Sizes
    BY <1>12, WordsAssumption DEF IsOne
  <2> HIDE DEF kept
  <2> QED
    BY <1>12, <1>14, <2>1, <2>2 DEF Configs
<1>16. ASSUME NEW part \in {"port", "device", "key", "skew"}
       PROVE  Meant(fields)[part] = Load(text)[part]
  BY <1>3, <1>14
<1> QED
  BY <1>13, <1>15, <1>16

(***************************************************************************)
(* An untouched save of a file the service starts with keeps its port,     *)
(* device, key and skew, and the service starts with what is saved         *)
(* (LaunchGUI, saveCurrentEnv).                                            *)
(***************************************************************************)
THEOREM UntouchedSaveKeepsAlways == Spec => UntouchedSaveKeeps
<1> DEFINE PartsKept(old, new) ==
      /\ new \notin {NoConfig, Panics}
      /\ \A part \in {"port", "device", "key", "skew"} : new[part] = old[part]
    Keeps ==
      SaveFields /\ Load(file) \notin {NoConfig, Panics} /\ Untouched
        => PartsKept(Load(file), Load(file'))
<1>1. SetupTypeOK => Keeps
  <2> SUFFICES ASSUME SetupTypeOK, SaveFields, Load(file) \notin {NoConfig, Panics},
                      Untouched
               PROVE  PartsKept(Load(file), Load(file'))
    OBVIOUS
  <2>1. file \in Texts \cup {NoFile} /\ box \in Boxes /\ file' = SavedText(box)
    BY DEF SetupTypeOK, SaveFields
  <2>2. /\ Accepted(box) /\ Meant(box) \in Configs
        /\ \A part \in {"port", "device", "key", "skew"} : Meant(box)[part] = Load(file)[part]
    BY <2>1, StartedFields DEF Untouched
  <2>3. Load(file') = Meant(box)
    BY <2>1, <2>2, AcceptedLoads
  <2> QED
    BY <2>2, <2>3, OutcomesAssumption
<1>2. SetupTypeOK /\ [Next]_vars => [Keeps]_vars
  BY <1>1
<1> QED
  BY <1>2, SetupTyped, PTL DEF Spec, UntouchedSaveKeeps

-----------------------------------------------------------------------------
(***************************************************************************)
(* Relay's copy of the parser is the same as Sentinel's: each of its       *)
(* operators returns what Sentinel's does.                                 *)
(***************************************************************************)
\* strings.TrimSpace and strings.Index
LEMMA SameTrim == ASSUME NEW text PROVE Relay!Trim(text) = Trim(text)
BY DEF Relay!Trim, Trim, Relay!Blanks, Blanks, Relay!Min, Min, Relay!Max, Max

\* Relay's copy finds the same position.
LEMMA SameIndexOf == ASSUME NEW text, NEW tokens
                     PROVE  Relay!IndexOf(text, tokens) = IndexOf(text, tokens)
BY DEF Relay!IndexOf, IndexOf, Relay!Min, Min

\* The escapes, the comment and the quotes of a value
LEMMA SameUnescape == ASSUME NEW text PROVE Relay!Unescape(text) = Unescape(text)
BY DEF Relay!Unescape, Unescape, Relay!Replace, Replace

\* Relay's copy cuts comments off the same way.
LEMMA SameUncommented == ASSUME NEW text PROVE Relay!Uncommented(text) = Uncommented(text)
BY DEF Relay!Uncommented, Uncommented, Relay!Trim, Trim, Relay!Blanks, Blanks,
       Relay!Min, Min, Relay!Max, Max

\* Relay's copy takes quotes off the same way.
LEMMA SameUnquoted == ASSUME NEW quote, NEW text
                      PROVE  Relay!Unquoted(quote, text) = Unquoted(quote, text)
BY SameUnescape DEF Relay!Unquoted, Unquoted

\* Relay's copy gives a value the same content.
LEMMA SameContent == ASSUME NEW value PROVE Relay!Content(value) = Content(value)
BY SameUnquoted, SameUncommented DEF Relay!Content, Content, Relay!Quotes, Quotes,
   Relay!Front, Front

\* Relay's copy finds the same values open.
LEMMA SameOpens == ASSUME NEW value PROVE Relay!Opens(value) = Opens(value)
BY DEF Relay!Opens, Opens, Relay!Quotes, Quotes, Relay!Last, Last

\* A line of the file
LEMMA SameSet == ASSUME NEW parser, NEW name, NEW value
                 PROVE  Relay!Set(parser, name, value) = Set(parser, name, value)
BY DEF Relay!Set, Set, Relay!Names, Names

\* Relay's copy reads a line between values the same way.
LEMMA SameAssign == ASSUME NEW parser, NEW line
                    PROVE  Relay!Assign(parser, line) = Assign(parser, line)
BY SameIndexOf, SameTrim, SameOpens, SameSet, SameContent DEF Relay!Assign, Assign

\* Relay's copy reads a line inside a quoted value the same way.
LEMMA SameContinue == ASSUME NEW parser, NEW line
                      PROVE  Relay!Continue(parser, line) = Continue(parser, line)
BY SameTrim, SameSet, SameUnquoted DEF Relay!Continue, Continue, Relay!Last, Last,
   Relay!Front, Front

\* Relay's copy ends a line the same way.
LEMMA SameEndLine == ASSUME NEW parser PROVE Relay!EndLine(parser) = EndLine(parser)
BY SameTrim, SameAssign, SameContinue DEF Relay!EndLine, EndLine

\* Relay's copy reads a token the same way.
LEMMA SameConsume == ASSUME NEW parser, NEW token
                     PROVE  Relay!Consume(parser, token) = Consume(parser, token)
BY SameEndLine DEF Relay!Consume, Consume

\* The loop over the file
LEMMA SameRead ==
  ASSUME NEW text \in Texts
  PROVE  Relay!Read(text) = Read(text)
<1> DEFINE N == Len(text)
    Goes(f) == f = [n \in 0..N |-> IF n = 0 THEN Relay!Start ELSE Relay!Consume(f[n - 1], text[n])]
    read == CHOOSE f : Goes(f)
<1>1. N \in Nat
  BY TextFacts
<1>2. PICK f :
        /\ f \in [0..N -> Parsers] /\ f[0] = Start
        /\ \A n \in 1..N : f[n] = Consume(f[n - 1], text[n])
        /\ Read(text) = f[N]
  BY ReadTurns
<1>3. Relay!Start = Start
  BY DEF Relay!Start, Start, Relay!NoValues, NoValues, Relay!Names, Names
<1>4. \A n \in 1..N : f[n] = Relay!Consume(f[n - 1], text[n])
  BY <1>2, SameConsume
<1>5. Goes(f)
  BY <1>1, <1>2, <1>3, <1>4
<1>6. Goes(read)
  BY <1>5
<1>7. Relay!Read(text) = read[N]
  BY DEF Relay!Read
<1> HIDE DEF read
<1>8. PICK g : g = read
  OBVIOUS
<1>9. g[0] = Start /\ \A n \in 1..N : g[n] = Relay!Consume(g[n - 1], text[n])
  BY <1>1, <1>3, <1>6, <1>8
<1> HIDE DEF Goes
<1>10. \A n \in 0..N : f[n] = g[n]
  <2>3. N \in Nat
    BY <1>1
  <2>1. f[0] = g[0]
    BY <1>2, <1>9
  <2>2. \A n \in 1..N : f[n - 1] = g[n - 1] => f[n] = g[n]
    BY <1>4, <1>9
  <2> HIDE DEF N
  <2> QED
    BY <2>1, <2>2, <2>3, IteratesOnce
<1> QED
  BY <1>1, <1>2, <1>7, <1>8, <1>10

\* parseDotEnv of both programs
LEMMA SameParse ==
  ASSUME NEW text \in Texts
  PROVE  Relay!Parse(text) = Parse(text)
BY SameRead, SameEndLine DEF Relay!Parse, Parse

\* In a file with one device, what is read is what is written or nothing.
LEMMA WrittenIs ==
  ASSUME NEW text \in Texts, OneDevice(text), Parse(text) \in Values
  PROVE  /\ Written(text) \in Texts /\ Trim(Written(text)) = Written(text)
         /\ ~ Opens(Written(text)) =>
              Parse(text)["DEVICE_ID"] \in {<<>>, Content(Written(text))}
<1> DEFINE name == "DEVICE_ID"
    N == Len(text)
    at == {i \in DOMAIN text : text[i] = name}
    ends(from) == {i \in from..N : text[i] = "nl"} \cup {N + 1}
    p == Min(at)
    q == Min(ends(p))
    v == SubSeq(text, p + 2, q - 1)
<1>1. N \in Nat /\ DOMAIN text = 1..N /\ name \in Names /\ name # "nl" /\ name \in Tokens
  BY TextFacts, MarksAreTokens DEF Names
<1>2. CASE at = {}
  <2>1. Avoids(text, name)
    BY <1>1, <1>2 DEF Avoids
  <2>2. Parse(text)[name] = <<>>
    BY <1>1, <2>1, NeverGiven, ParseAway
  <2>3. Written(text) = <<>>
    BY <1>2 DEF Written
  <2> QED
    BY <2>2, <2>3, EmptyIsText, EmptyContent
<1>3. CASE at # {}
  <2>1. at \subseteq 1..N /\ p \in at
    <3>1. at \subseteq 1..N /\ at \subseteq Nat
      BY <1>1
    <3> HIDE DEF at
    <3> QED
      BY <1>3, <3>1, LeastIs
  <2>2. Written(text) = Trim(v)
    BY <1>3 DEF Written
  <2> HIDE DEF at, p
  <2>3. /\ p \in 1..N /\ text[p] = name /\ (p = 1 \/ text[p - 1] = "nl")
        /\ p + 1 \in 1..N /\ text[p + 1] = "="
        /\ \A j \in 1..N : text[j] = name => j = p
    <3>1. p \in 1..N /\ text[p] = name
      BY <1>1, <2>1 DEF at
    <3>2. p \in DOMAIN text /\ DOMAIN text = 1..N /\ text[p] = "DEVICE_ID"
      BY <1>1, <3>1
    <3>3. p = 1 \/ text[p - 1] = "nl"
      BY <3>2 DEF OneDevice
    <3>4. p < N /\ text[p + 1] = "="
      BY <3>2 DEF OneDevice
    <3>5. \A j \in 1..N : text[j] = name => p = j
      BY <3>2 DEF OneDevice
    <3>6. p + 1 \in 1..N
      BY <1>1, <3>1, <3>4
    <3> QED
      BY <3>1, <3>3, <3>4, <3>5, <3>6
  <2>4. q \in ends(p) /\ \A i \in ends(p) : q <= i
    <3>1. ends(p) \subseteq Nat /\ ends(p) # {}
      BY <1>1, <2>3
    <3> QED
      BY <3>1, LeastIs
  <2> HIDE DEF q
  <2>5. /\ q \in p..N + 1 /\ (q = N + 1 \/ text[q] = "nl")
        /\ \A i \in p..q - 1 : text[i] # "nl"
    <3>1. q \in p..N + 1 /\ (q = N + 1 \/ text[q] = "nl")
      BY <1>1, <2>3, <2>4
    <3>2. ASSUME NEW i \in p..q - 1, text[i] = "nl" PROVE FALSE
      <4>1. i \in p..N /\ i \in ends(p)
        BY <1>1, <2>3, <3>1, <3>2
      <4> QED
        BY <2>3, <2>4, <3>1, <4>1
    <3> QED
      BY <3>1, <3>2
  <2>6. p \in Nat /\ q \in Nat /\ p >= 1 /\ p + 1 <= N /\ p + 2 <= q /\ q <= N + 1
    <3>1. p \in Nat /\ q \in Nat /\ p >= 1 /\ p + 1 <= N /\ p <= q /\ q <= N + 1
      BY <1>1, <2>3, <2>5
    <3>2. q # p
      <4>1. p # N + 1
        BY <1>1, <3>1
      <4> QED
        BY <1>1, <2>3, <2>5, <4>1
    <3>3. q # p + 1
      <4>1. p + 1 # N + 1 /\ "=" # "nl"
        BY <1>1, <3>1
      <4> QED
        BY <2>3, <2>5, <4>1
    <3> QED
      BY <3>1, <3>2, <3>3
  <2> DEFINE before == SubSeq(text, 1, p - 1)
      first == SubSeq(text, 1, q - 1)
      rest == SubSeq(text, q, N)
      line == <<name, "=">> \o v
  <2>7. /\ before \in Texts /\ Len(before) = p - 1 /\ \A i \in 1..p - 1 : before[i] = text[i]
        /\ Avoids(before, name)
    <3>1. 1 \in Nat /\ 1 >= 1 /\ p - 1 \in Int /\ p - 1 <= N /\ p - 1 - 1 + 1 = p - 1
          /\ (IF 1 <= p - 1 THEN p - 1 - 1 + 1 ELSE 0) = p - 1
      BY <1>1, <2>6
    <3>2. \A i \in 1..p - 1 : 1 + i - 1 = i
      BY <2>6
    <3>3. /\ before \in Texts /\ Len(before) = p - 1
          /\ \A i \in 1..p - 1 : before[i] = text[1 + i - 1]
      BY <3>1, PartIs
    <3> HIDE DEF before
    <3>4. ASSUME NEW i \in 1..Len(before) PROVE before[i] # name
      <4>1. i \in 1..p - 1 /\ i \in 1..N /\ i # p
        BY <1>1, <2>6, <3>3
      <4> QED
        BY <2>3, <3>2, <3>3, <4>1
    <3> QED
      BY <3>2, <3>3, <3>4 DEF Avoids
  <2>8. /\ v \in Texts /\ Len(v) = q - p - 2
        /\ \A i \in 1..q - p - 2 : v[i] = text[p + 1 + i] /\ v[i] # "nl"
    <3>1. /\ p + 2 \in Nat /\ p + 2 >= 1 /\ q - 1 \in Int /\ q - 1 <= N
          /\ q - 1 - (p + 2) + 1 = q - p - 2
          /\ (IF p + 2 <= q - 1 THEN q - p - 2 ELSE 0) = q - p - 2
      BY <1>1, <2>6
    <3>2. /\ v \in Texts /\ Len(v) = q - p - 2
          /\ \A i \in 1..q - p - 2 : v[i] = text[p + 2 + i - 1]
      BY <3>1, PartIs
    <3> HIDE DEF v
    <3>3. \A i \in 1..q - p - 2 : p + 2 + i - 1 = p + 1 + i /\ p + 1 + i \in p..q - 1
      BY <2>6
    <3> QED
      BY <2>5, <3>2, <3>3
  <2>9. /\ rest \in Texts /\ Avoids(rest, name) /\ (rest = <<>> \/ rest[1] = "nl")
    <3>1. q \in Nat /\ q >= 1 /\ N \in Int /\ N <= N
      BY <1>1, <2>6
    <3>2. /\ rest \in Texts /\ Len(rest) = IF q <= N THEN N - q + 1 ELSE 0
          /\ \A i \in 1..N - q + 1 : rest[i] = text[q + i - 1]
      BY <3>1, PartIs
    <3> HIDE DEF rest
    <3>3. CASE q <= N
      <4>1. Len(rest) = N - q + 1 /\ 1 \in 1..N - q + 1 /\ q + 1 - 1 = q /\ q # N + 1
        BY <1>1, <2>6, <3>2, <3>3
      <4>2. rest[1] = "nl"
        BY <2>5, <3>2, <4>1
      <4>3. ASSUME NEW i \in 1..Len(rest) PROVE rest[i] # name
        <5>1. i \in 1..N - q + 1 /\ q + i - 1 \in 1..N /\ q + i - 1 # p
          BY <1>1, <2>6, <4>1
        <5> QED
          BY <2>3, <3>2, <5>1
      <4> QED
        BY <3>2, <4>2, <4>3 DEF Avoids
    <3>4. CASE ~ (q <= N)
      <4>1. Len(rest) = 0
        BY <3>2, <3>4
      <4> QED
        BY <3>2, <4>1, TextFacts DEF Avoids
    <3> QED
      BY <3>3, <3>4
  <2>10. first \in Texts /\ text = first \o rest /\ Len(first) = q - 1
         /\ \A i \in 1..q - 1 : first[i] = text[i]
    <3>1. q - 1 \in 0..N /\ (q - 1) + 1 = q
      BY <1>1, <2>6
    <3>2. first \in Texts /\ text = first \o rest
      BY <3>1, SplitAt
    <3>3. 1 \in Nat /\ 1 >= 1 /\ q - 1 \in Int /\ q - 1 <= N /\ q - 1 - 1 + 1 = q - 1
          /\ (IF 1 <= q - 1 THEN q - 1 - 1 + 1 ELSE 0) = q - 1
      BY <1>1, <2>6
    <3>4. \A i \in 1..q - 1 : 1 + i - 1 = i
      BY <2>6
    <3>5. Len(first) = q - 1 /\ \A i \in 1..q - 1 : first[i] = text[1 + i - 1]
      BY <3>3, PartIs
    <3> QED
      BY <3>2, <3>4, <3>5
  <2> HIDE DEF before, first, rest, v
  <2>11. /\ line \in Texts /\ Len(line) = q - p
         /\ \A i \in 1..q - p : line[i] = text[p + i - 1]
    <3> DEFINE given == <<name, "=">>
    <3>1. given \in Texts /\ Len(given) = 2 /\ given[1] = name /\ given[2] = "="
      BY <1>1, MarksAreTokens DEF Texts
    <3> HIDE DEF given
    <3>2. /\ line \in Texts /\ Len(line) = 2 + Len(v)
          /\ \A i \in 1..2 + Len(v) : line[i] = IF i <= 2 THEN given[i] ELSE v[i - 2]
      BY <2>8, <3>1, JoinIs DEF given
    <3> HIDE DEF line
    <3>3. Len(line) = q - p
      BY <2>6, <2>8, <3>2
    <3>4. ASSUME NEW i \in 1..q - p PROVE line[i] = text[p + i - 1]
      <4>1. line[i] = IF i <= 2 THEN given[i] ELSE v[i - 2]
        BY <2>6, <2>8, <3>2
      <4>2. CASE i = 1
        <5>1. p + 1 - 1 = p
          BY <2>6
        <5> QED
          BY <2>3, <3>1, <4>1, <4>2, <5>1
      <4>3. CASE i = 2
        <5>1. p + 2 - 1 = p + 1
          BY <2>6
        <5> QED
          BY <2>3, <3>1, <4>1, <4>3, <5>1
      <4>4. CASE i > 2
        <5>1. i - 2 \in 1..q - p - 2 /\ p + 1 + (i - 2) = p + i - 1 /\ ~ (i <= 2)
          BY <2>6, <4>4
        <5>2. v[i - 2] = text[p + 1 + (i - 2)]
          BY <2>8, <5>1
        <5> QED
          BY <4>1, <5>1, <5>2
      <4> QED
        BY <2>6, <4>2, <4>3, <4>4
    <3> QED
      BY <3>2, <3>3, <3>4
  <2> HIDE DEF line
  <2>12. first = before \o line
    <3> DEFINE both == before \o line
    <3>1. /\ both \in Texts /\ Len(both) = Len(before) + Len(line)
          /\ \A i \in 1..Len(before) + Len(line) :
               both[i] = IF i <= Len(before) THEN before[i] ELSE line[i - Len(before)]
      BY <2>7, <2>11, JoinIs
    <3> HIDE DEF both
    <3>2. Len(both) = q - 1
      BY <2>6, <2>7, <2>11, <3>1
    <3>3. ASSUME NEW i \in 1..q - 1 PROVE both[i] = text[i]
      <4>1. both[i] = IF i <= p - 1 THEN before[i] ELSE line[i - (p - 1)]
        BY <2>6, <2>7, <2>11, <3>1
      <4>2. CASE i <= p - 1
        <5>1. i \in 1..p - 1
          BY <2>6, <4>2
        <5> QED
          BY <2>7, <4>1, <4>2, <5>1
      <4>3. CASE ~ (i <= p - 1)
        <5>1. i - (p - 1) \in 1..q - p /\ p + (i - (p - 1)) - 1 = i
          BY <2>6, <4>3
        <5>2. line[i - (p - 1)] = text[p + (i - (p - 1)) - 1]
          BY <2>11, <5>1
        <5> QED
          BY <4>1, <4>3, <5>1, <5>2
      <4> QED
        BY <4>2, <4>3
    <3>4. first = both
      BY <2>10, <3>1, <3>2, <3>3, SameText
    <3> QED
      BY <3>4 DEF both
  <2>13. before = <<>> \/ before[Len(before)] = "nl"
    <3>1. CASE p = 1
      BY <2>6, <2>7, <3>1, TextFacts
    <3>2. CASE p # 1
      <4>1. p - 1 \in 1..p - 1
        BY <2>6, <3>2
      <4> QED
        BY <2>3, <2>7, <3>2, <4>1
    <3> QED
      BY <3>1, <3>2
  <2>14. Trim(v) \in Texts /\ Trim(Trim(v)) = Trim(v)
    BY <2>8, TrimShape, TrimTwice
  <2>15. ASSUME ~ Opens(Trim(v)) PROVE Parse(text)[name] \in {<<>>, Content(Trim(v))}
    <3>1. text = (before \o (<<name, "=">> \o v)) \o rest
      BY <2>10, <2>12 DEF line
    <3>2. \A i \in 1..Len(v) : v[i] # "nl"
      BY <2>8
    <3> QED
      BY <1>1, <2>7, <2>8, <2>9, <2>13, <2>15, <3>1, <3>2, GivenOnce
  <2> QED
    BY <2>2, <2>14, <2>15
<1> QED
  BY <1>2, <1>3

\* The device config.Load of Sentinel gets
LEMMA SentinelDevice ==
  ASSUME NEW text \in Texts \cup {NoFile}, Load(text) \notin {NoConfig, Panics},
         NEW written, written = Written(text), OneDevice(text), ~ Opens(written)
  PROVE  Load(text).device = Content(written)
<1>1. text \in Texts
  BY DEF Load
<1>2. Parse(text) \in Values /\ Load(text) = LoadValues(Parse(text))
  BY <1>1, ParseTyped, LoadIs
<1>3. Parse(text)["DEVICE_ID"] # <<>> /\ Load(text).device = Parse(text)["DEVICE_ID"]
  BY <1>2, LoadedIs
<1>4. Parse(text)["DEVICE_ID"] \in {<<>>, Content(written)}
  BY <1>1, <1>2, WrittenIs
<1> QED
  BY <1>3, <1>4

\* The device config.Load of Relay gets: the file's, or the environment's
LEMMA RelayDevice ==
  ASSUME NEW text \in Texts \cup {NoFile}, NEW environment \in Values,
         Relay!Load(text, environment) # NoConfig
  PROVE  \E values \in Values :
           /\ values = IF text = NoFile THEN NoValues ELSE Parse(text)
           /\ Relay!Load(text, environment).device # <<>>
           /\ Relay!Load(text, environment).device =
                ValueOr(values["DEVICE_ID"], Trim(environment["DEVICE_ID"]))
<1> DEFINE values == IF text = NoFile THEN NoValues ELSE Parse(text)
    device == Relay!Get(values, environment, "DEVICE_ID")
<1>1. NoValues \in Values
  BY EmptyIsText DEF NoValues, Values
<1>2. Relay!NoValues = NoValues
  BY DEF Relay!NoValues, NoValues, Relay!Names, Names
<1>3. values \in Values /\ Relay!Load(text, environment) = Relay!LoadValues(values, environment)
  <2>1. CASE text = NoFile
    BY <1>1, <1>2, <2>1 DEF Relay!Load
  <2>2. CASE text # NoFile
    <3>1. text \in Texts /\ Relay!Parse(text) = Parse(text)
      BY <2>2, SameParse
    <3>2. Parse(text) # Broken
      BY <2>2, <3>1 DEF Relay!Load
    <3>3. Parse(text) \in Values
      BY <3>1, <3>2, ParseTyped
    <3> QED
      BY <2>2, <3>1, <3>2, <3>3 DEF Relay!Load
  <2> QED
    BY <2>1, <2>2
<1> HIDE DEF values
<1>4. device # <<>> /\ Relay!LoadValues(values, environment).device = device
  BY <1>3 DEF Relay!LoadValues
<1>5. device = ValueOr(values["DEVICE_ID"], Trim(environment["DEVICE_ID"]))
  BY SameTrim DEF Relay!Get, Relay!ValueOr, ValueOr
<1> QED
  BY <1>3, <1>4, <1>5 DEF values

(***************************************************************************)
(* The two sides agree on the device: whatever else the files say, and in  *)
(* whatever order, the same text of a DEVICE_ID names the same device to   *)
(* the Relay that signs and to the Sentinel that checks (Load of both      *)
(* config.go).                                                             *)
(***************************************************************************)
THEOREM SidesAgreeAlways == Spec => []SidesAgree
<1>1. SetupTypeOK => SidesAgree
  <2> DEFINE ours == IF file = NoFile THEN <<>> ELSE Written(file)
      theirs == IF relay.file = NoFile THEN <<>> ELSE Written(relay.file)
      environment == Trim(relay.environment["DEVICE_ID"])
      relays == Relay!Load(relay.file, relay.environment)
  <2> SUFFICES ASSUME SetupTypeOK, ours # <<>>,
                      \A text \in {file, relay.file} \ {NoFile} : OneDevice(text),
                      \/ theirs = ours /\ environment = <<>> /\ OnOneLine(ours)
                      \/ theirs = <<>> /\ environment = ours /\ Plain(ours),
                      Load(file) \notin {NoConfig, Panics}, relays # NoConfig
               PROVE  Load(file).device = relays.device
    BY DEF SidesAgree
  <2>1. /\ file \in Texts /\ OneDevice(file) /\ ours = Written(file)
        /\ relay.file \in Texts \cup {NoFile} /\ relay.environment \in Values
    BY DEF SetupTypeOK
  <2>2. PICK values \in Values :
          /\ values = IF relay.file = NoFile THEN NoValues ELSE Parse(relay.file)
          /\ relays.device # <<>>
          /\ relays.device = ValueOr(values["DEVICE_ID"], environment)
    BY <2>1, RelayDevice
  <2>3. ours \in Texts /\ Trim(ours) = ours
    <3>1. Parse(file) \in Values
      BY <2>1, ParseTyped, LoadIs
    <3> QED
      BY <2>1, <3>1, WrittenIs
  <2>4. ~ Opens(theirs) => values["DEVICE_ID"] \in {<<>>, Content(theirs)}
    <3>1. CASE relay.file = NoFile
      BY <2>2, <3>1 DEF NoValues, Names
    <3>2. CASE relay.file # NoFile
      <4>1. relay.file \in Texts /\ OneDevice(relay.file) /\ Parse(relay.file) \in Values
            /\ theirs = Written(relay.file)
        BY <2>1, <2>2, <3>2
      <4> QED
        BY <2>2, <3>2, <4>1, WrittenIs
    <3> QED
      BY <3>1, <3>2
  <2> HIDE DEF ours, theirs, environment, relays
  <2>5. CASE theirs = ours /\ environment = <<>> /\ OnOneLine(ours)
    <3>1. ~ Opens(ours) /\ Trim(Content(ours)) = Content(ours)
      BY <2>5 DEF OnOneLine
    <3>2. Load(file).device = Content(ours)
      BY <2>1, <3>1, SentinelDevice
    <3>3. Trim(values["DEVICE_ID"]) # <<>> /\ relays.device = Trim(values["DEVICE_ID"])
      BY <2>2, <2>5 DEF ValueOr
    <3>4. values["DEVICE_ID"] = Content(ours)
      BY <2>4, <2>5, <3>1, <3>3, EmptyContent
    <3> QED
      BY <3>1, <3>2, <3>3, <3>4
  <2>6. CASE theirs = <<>> /\ environment = ours /\ Plain(ours)
    <3>1. ~ Opens(ours) /\ Content(ours) = ours
      BY <2>3, <2>6, PlainIs
    <3>2. Load(file).device = ours
      BY <2>1, <3>1, SentinelDevice
    <3>3. values["DEVICE_ID"] = <<>>
      BY <2>4, <2>6, EmptyContent
    <3>4. relays.device = ours
      BY <2>2, <2>6, <3>3, EmptyContent DEF ValueOr
    <3> QED
      BY <3>2, <3>4
  <2> QED
    BY <2>5, <2>6
<1> QED
  BY <1>1, SetupTyped, PTL
=============================================================================
