------------------------------ MODULE EnvFile ------------------------------
(***************************************************************************)
(* The .env format both programs read, each with its own copy of the same  *)
(* parser (parseDotEnv of sentinel/src/config/config.go and of             *)
(* relay/src/config/config.go), and the PEM blocks they find in it.        *)
(*                                                                         *)
(* A text is a sequence of tokens.  The parser tells these apart:          *)
(*   "sp" "cr" "nl"        a blank, a carriage return, a line feed         *)
(*   "#" "=" "dq" "sq"     themselves; a double and a single quote         *)
(*   "esc" "escr"          a backslash and an n, a backslash and an r      *)
(*   "begin" "end"         the first and the last line of a PEM block of   *)
(*                         either type of public key                       *)
(*   "beginPriv" "endPriv" those of a private key                          *)
(* and takes every other one for a word.                                   *)
(***************************************************************************)
EXTENDS Naturals, SequencesExt

CONSTANTS
  Tokens,   \* the tokens: those above and the words
  NoFile,   \* there is no file
  Broken,   \* what the parser makes of a malformed one
  NoKey     \* no key could be read

Texts == Seq(Tokens)

Blanks == {"sp", "cr", "nl"}
Quotes == {"dq", "sq"}
Begins == {"begin", "beginPriv"}
Marks == Blanks \cup Quotes \cup Begins \cup {"end", "endPriv", "#", "=", "esc", "escr"}
Words == Tokens \ Marks

\* The names either program asks for; other names of a file are never read.
Names == {"PORT", "DEVICE_ID", "PUBLIC_KEY", "CLOCK_SKEW_SECONDS", "MAX_BODY_BYTES",
          "ENABLE_NOTIFICATIONS", "API_SECRET", "SENTINEL_URL", "PRIVATE_KEY",
          "PRIVATE_KEY_PEM", "VALIDITY_SECONDS"}

\* A map of the program's: a name that is not in it has the empty value.
Values == [Names -> Texts]
NoValues == [name \in Names |-> <<>>]

ASSUME FileAssumption ==
  Marks \cup Names \subseteq Tokens /\ NoFile \notin Texts /\ Broken \notin Values

\* The first of some tokens in a text, 0 if there is none
IndexOf(text, tokens) ==
  LET found == {i \in DOMAIN text : text[i] \in tokens}
  IN IF found = {} THEN 0 ELSE Min(found)

\* strings.TrimSpace
Trim(text) ==
  LET kept == {i \in DOMAIN text : text[i] \notin Blanks}
  IN IF kept = {} THEN <<>> ELSE SubSeq(text, Min(kept), Max(kept))

\* strings.ReplaceAll: by another token, or by nothing
Replace(text, from, to) ==
  [i \in DOMAIN text |-> IF text[i] = from THEN to ELSE text[i]]

Without(text, token) ==
  LET upTo[n \in 0..Len(text)] ==
        IF n = 0 THEN <<>>
        ELSE IF text[n] = token THEN upTo[n - 1] ELSE Append(upTo[n - 1], text[n])
  IN upTo[Len(text)]

Unescape(text) == Replace(Replace(text, "esc", "nl"), "escr", "cr")

\* Only a value in double quotes has escapes.
Unquoted(quote, text) == IF quote = "dq" THEN Unescape(text) ELSE text

\* Mutant of Uncommented: any # begins the comment.
UncommentedAtAny(text) ==
  IF IndexOf(text, {"#"}) = 0 THEN text ELSE Trim(SubSeq(text, 1, IndexOf(text, {"#"}) - 1))

\* A comment begins at a # after a blank.
Uncommented(text) ==
  LET starts == {i \in 1..Len(text) - 1 : text[i] = "sp" /\ text[i + 1] = "#"}
  IN IF starts = {} THEN text ELSE Trim(SubSeq(text, 1, Min(starts) - 1))

\* A value that means the same with no quotes around it.
Plain(text) ==
  /\ \A i \in DOMAIN text : text[i] \notin {"nl", "cr"}
  /\ \A i \in 2..Len(Trim(text)) : Trim(text)[i] = "#" => Trim(text)[i - 1] # "sp"
  /\ Trim(text) = <<>> => text = <<>>
  /\ Trim(text) # <<>> => Head(Trim(text)) \notin Quotes

(***************************************************************************)
(* The parser: the values so far; in a value whose quote is still open,    *)
(* its name, its quote and its beginning; and the line being read.         *)
(***************************************************************************)
Start == [values |-> NoValues, mode |-> "plain", name |-> <<>>, quote |-> "dq",
          text |-> <<>>, line |-> <<>>]

Set(parser, name, value) ==
  [parser EXCEPT !.values = [n \in Names |-> IF name = <<n>> THEN value ELSE @[n]],
                 !.mode = "plain"]

\* A value that begins with a quote and does not end with it.
Opens(value) ==
  /\ value # <<>> /\ Head(value) \in Quotes
  /\ Len(value) = 1 \/ Last(value) # Head(value)

\* The value that stands on one line.
Content(value) ==
  IF value # <<>> /\ Head(value) \in Quotes
  THEN Unquoted(Head(value), Front(Tail(value)))
  ELSE Uncommented(value)

\* Mutant of Assign: a quotation is over at the end of its line.
AssignOnOneLine(parser, line) ==
  LET at == IndexOf(line, {"="})
      value == Trim(SubSeq(line, at + 1, Len(line)))
  IN IF line = <<>> \/ Head(line) = "#" THEN parser
     ELSE IF at = 0 THEN [parser EXCEPT !.mode = "broken"]
     ELSE Set(parser, Trim(SubSeq(line, 1, at - 1)),
              IF Opens(value) THEN Tail(value) ELSE Content(value))

\* A line outside quotes: nothing, a comment, or name=value.
Assign(parser, line) ==
  LET at == IndexOf(line, {"="})
      name == Trim(SubSeq(line, 1, at - 1))
      value == Trim(SubSeq(line, at + 1, Len(line)))
  IN IF line = <<>> \/ Head(line) = "#" THEN parser
     ELSE IF at = 0 THEN [parser EXCEPT !.mode = "broken"]
     ELSE IF Opens(value)
     THEN [parser EXCEPT !.mode = "quoted", !.name = name,
                         !.quote = Head(value), !.text = Tail(value)]
     ELSE Set(parser, name, Content(value))

\* A line of a value whose quote is open: the quote at its end closes it.
Continue(parser, line) ==
  LET trimmed == Trim(line)
      kept == IF line # <<>> /\ Last(line) = "cr" THEN Front(line) ELSE line
  IN IF trimmed # <<>> /\ Last(trimmed) = parser.quote
     THEN Set(parser, parser.name,
              Unquoted(parser.quote, parser.text \o <<"nl">> \o Front(trimmed)))
     ELSE [parser EXCEPT !.text = @ \o <<"nl">> \o kept]

\* One turn of the loop; after an error there is none.
EndLine(parser) ==
  LET next == CASE parser.mode = "plain" -> Assign(parser, Trim(parser.line))
                [] parser.mode = "quoted" -> Continue(parser, parser.line)
                [] OTHER -> parser
  IN [next EXCEPT !.line = <<>>]

\* strings.Split: a line feed ends the line.
Consume(parser, token) ==
  IF token = "nl" THEN EndLine(parser) ELSE [parser EXCEPT !.line = Append(@, token)]

\* The loop over the lines that are complete.
Read(text) ==
  LET upTo[n \in 0..Len(text)] ==
        IF n = 0 THEN Start ELSE Consume(upTo[n - 1], text[n])
  IN upTo[Len(text)]

\* parseDotEnv: the values, or Broken.
Parse(text) ==
  LET parsed == EndLine(Read(text))
  IN IF parsed.mode = "plain" THEN parsed.values ELSE Broken

\* valueOr
ValueOr(text, fallback) == IF Trim(text) = <<>> THEN fallback ELSE Trim(text)

(***************************************************************************)
(* pem.Decode and the parsers of a block's content.  The two lines around  *)
(* a block begin at the margin and hold nothing else but blanks; between   *)
(* them there is just one word, which stands for base64.  What is no such  *)
(* block is passed over, and the first one has to be a key of `keys'.      *)
(***************************************************************************)
OwnLine(text, i) ==
  /\ i = 1 \/ text[i - 1] = "nl"
  /\ \A j \in i + 1..Len(text) :
       text[j] \in Blanks \/ \E k \in i + 1..j - 1 : text[k] = "nl"

Ending(begin) == IF begin = "begin" THEN "end" ELSE "endPriv"

\* The words of the blocks, of which the first is in the first block.
Bodies(text) ==
  {b \in DOMAIN text :
     /\ text[b] \in Words
     /\ \E a \in 1..b - 1 :
          /\ text[a] \in Begins /\ OwnLine(text, a)
          /\ \A i \in a + 1..b - 1 : text[i] \in Blanks
          /\ \E c \in b + 1..Len(text) :
               /\ text[c] = Ending(text[a]) /\ OwnLine(text, c)
               /\ \A i \in b + 1..c - 1 : text[i] \in Blanks}

Pem(text, keys) ==
  LET body == Min(Bodies(text))
  IN IF Bodies(text) # {} /\ text[body] \in keys THEN text[body] ELSE NoKey
=============================================================================
