------------------------ MODULE SentinelConfigProofs ------------------------
(***************************************************************************)
(* What Save writes of a key, InspectPublicKey reads again, and what Load  *)
(* makes of a whole file Save wrote, or of its beginning.                  *)
(***************************************************************************)
EXTENDS SentinelConfig, EnvFileProofs

-----------------------------------------------------------------------------
\* InspectPublicKey: the quotes it takes off.
LEMMA StrippedIs ==
  ASSUME NEW text \in Texts
  PROVE  /\ Stripped(text) = Panics <=> Len(text) = 1 /\ text[1] \in Quotes
         /\ Stripped(text) # Panics =>
              /\ Stripped(text) \in Texts
              /\ \/ /\ Len(text) >= 2 /\ text[1] \in Quotes /\ text[Len(text)] = text[1]
                    /\ Stripped(text) = SubSeq(text, 2, Len(text) - 1)
                 \/ /\ ~ (Len(text) >= 1 /\ text[1] \in Quotes /\ text[Len(text)] = text[1])
                    /\ Stripped(text) = text
<1>1. Len(text) \in Nat /\ (text = <<>> <=> Len(text) = 0)
  BY TextFacts
<1>2. CASE text = <<>>
  <2>1. Stripped(text) = text
    BY <1>2 DEF Stripped
  <2> QED
    BY <1>1, <1>2, <2>1, OutcomesAssumption
<1>3. CASE text # <<>>
  <2>1. Head(text) = text[1] /\ Last(text) = text[Len(text)] /\ Len(text) >= 1
    BY <1>1, <1>3, InnerIs
  <2>2. CASE ~ (text[1] \in Quotes /\ text[Len(text)] = text[1])
    <3>1. Stripped(text) = text
      BY <2>1, <2>2 DEF Stripped
    <3>2. ~ (Len(text) = 1 /\ text[1] \in Quotes)
      BY <2>2
    <3> QED
      BY <2>2, <3>1, <3>2, OutcomesAssumption
  <2>3. CASE text[1] \in Quotes /\ text[Len(text)] = text[1] /\ Len(text) = 1
    BY <1>3, <2>1, <2>3 DEF Stripped
  <2>4. CASE text[1] \in Quotes /\ text[Len(text)] = text[1] /\ Len(text) # 1
    <3>1. Stripped(text) = Front(Tail(text))
      BY <1>3, <2>1, <2>4 DEF Stripped
    <3>2. /\ Front(Tail(text)) \in Texts /\ Len(text) >= 2
          /\ Front(Tail(text)) = SubSeq(text, 2, Len(text) - 1)
      <4> DEFINE n == Len(text)
      <4>1. n \in Nat /\ n >= 1 /\ n # 1
        BY <1>1, <2>1, <2>4
      <4> HIDE DEF n
      <4>2. n >= 2
        BY <4>1
      <4> QED
        BY <1>3, <4>2, InnerIs DEF n
    <3>3. Stripped(text) # Panics
      BY <3>1, <3>2, OutcomesAssumption
    <3> QED
      BY <2>4, <3>1, <3>2, <3>3
  <2> QED
    BY <2>2, <2>3, <2>4
<1> QED
  BY <1>2, <1>3

\* InspectPublicKey returns a key, an error, or panics.
LEMMA InspectTyped ==
  ASSUME NEW raw \in Texts
  PROVE  InspectPublicKey(raw) \in PublicKeys \cup {NoKey, Panics}
<1> DEFINE text == Stripped(Trim(raw))
    oneLine == Contains(text, "esc") /\ ~ Contains(text, "nl")
<1>1. Trim(raw) \in Texts
  BY TrimShape
<1>2. text = Panics \/ text \in Texts
  BY <1>1, StrippedIs
<1>3. InspectPublicKey(raw) =
        IF Trim(raw) = <<>> THEN NoKey
        ELSE IF text = Panics THEN Panics
        ELSE Pem(IF oneLine THEN Unescape(text) ELSE text, PublicKeys)
  BY DEF InspectPublicKey
<1> HIDE DEF text, oneLine
<1>4. CASE text \in Texts
  <2>1. Unescape(text) \in Texts
    BY <1>4, UnescapeIs
  <2>2. (IF oneLine THEN Unescape(text) ELSE text) \in Texts
    BY <1>4, <2>1
  <2>3. Pem(IF oneLine THEN Unescape(text) ELSE text, PublicKeys) \in PublicKeys \cup {NoKey}
    BY <2>2, PemTyped
  <2> QED
    BY <1>3, <2>3
<1>5. CASE text = Panics
  BY <1>3, <1>5
<1> QED
  BY <1>2, <1>4, <1>5

\* A text is cut at its ends, by blanks and quotes only.
Cut(u, text, p, q) ==
  /\ p \in Nat /\ q \in Nat /\ p >= 1 /\ q <= Len(text)
  /\ u = SubSeq(text, p, q)
  /\ \A i \in 1..Len(text) : i < p \/ i > q => text[i] \in Blanks \cup Quotes

\* What InspectPublicKey looks for the block in.
LEMMA StrippedTrimmed ==
  ASSUME NEW raw \in Texts, Trim(raw) # <<>>, Stripped(Trim(raw)) # Panics
  PROVE  \E p, q : Cut(Stripped(Trim(raw)), raw, p, q)
<1> DEFINE text == Trim(raw)
<1>1. Len(raw) \in Nat
  BY TextFacts
<1>2. PICK a, b \in 1..Len(raw) :
        /\ a <= b /\ text = SubSeq(raw, a, b)
        /\ \A i \in 1..Len(raw) : raw[i] \notin Blanks => a <= i /\ i <= b
        /\ Len(text) = b - a + 1
        /\ \A i \in 1..b - a + 1 : text[i] = raw[a + i - 1]
  BY TrimShape
<1>3. text \in Texts
  BY TrimShape
<1> HIDE DEF text
<1>4. CASE Stripped(text) = text
  <2>1. \A i \in 1..Len(raw) : i < a \/ i > b => raw[i] \in Blanks
    BY <1>1, <1>2
  <2>2. a \in Nat /\ b \in Nat /\ a >= 1 /\ b <= Len(raw)
    BY <1>1
  <2>3. Cut(text, raw, a, b)
    BY <1>2, <2>1, <2>2 DEF Cut
  <2> QED
    BY <1>4, <2>3 DEF text
<1>5. CASE /\ Len(text) >= 2 /\ text[1] \in Quotes /\ text[Len(text)] = text[1]
           /\ Stripped(text) = SubSeq(text, 2, Len(text) - 1)
  <2>1. a + 1 \in Nat /\ b - 1 \in Nat /\ a + 1 >= 1 /\ b - 1 <= Len(raw) /\ a < b
    BY <1>1, <1>2, <1>5
  <2>2. raw[a] \in Quotes /\ raw[b] \in Quotes
    <3>1. 1 \in 1..b - a + 1 /\ b - a + 1 \in 1..b - a + 1 /\ a + 1 - 1 = a /\ a + (b - a + 1) - 1 = b
      BY <1>2, <2>1
    <3>2. text[1] = raw[a] /\ text[b - a + 1] = raw[b]
      BY <1>2, <3>1
    <3> QED
      BY <1>2, <1>5, <3>2
  <2>3. ASSUME NEW i \in 1..Len(raw), i < a + 1 \/ i > b - 1 PROVE raw[i] \in Blanks \cup Quotes
    <3>1. CASE i = a \/ i = b
      BY <2>2, <3>1
    <3>2. CASE i < a \/ i > b
      BY <1>1, <1>2, <3>2
    <3> QED
      BY <1>1, <2>1, <2>3, <3>1, <3>2
  <2>4. SubSeq(text, 2, Len(text) - 1) = SubSeq(raw, a + 1, b - 1)
    <3> DEFINE u == SubSeq(text, 2, Len(text) - 1)
        w == SubSeq(raw, a + 1, b - 1)
    <3>1. 2 \in Nat /\ Len(text) - 1 \in Int /\ 2 >= 1 /\ Len(text) - 1 <= Len(text)
      BY <1>1, <1>2
    <3>2. /\ u \in Texts /\ Len(u) = IF 2 <= Len(text) - 1 THEN Len(text) - 1 - 2 + 1 ELSE 0
          /\ \A i \in 1..Len(text) - 1 - 2 + 1 : u[i] = text[2 + i - 1]
      BY <1>3, <3>1, PartIs
    <3>3. /\ w \in Texts /\ Len(w) = IF a + 1 <= b - 1 THEN b - 1 - (a + 1) + 1 ELSE 0
          /\ \A i \in 1..b - 1 - (a + 1) + 1 : w[i] = raw[a + 1 + i - 1]
      BY <2>1, PartIs
    <3> HIDE DEF u, w
    <3>4. Len(u) = b - a - 1 /\ Len(w) = b - a - 1
      BY <1>1, <1>2, <2>1, <3>2, <3>3
    <3>5. ASSUME NEW i \in 1..b - a - 1 PROVE u[i] = w[i]
      <4>1. /\ i \in 1..Len(text) - 1 - 2 + 1 /\ i \in 1..b - 1 - (a + 1) + 1
            /\ 2 + i - 1 = i + 1 /\ i + 1 \in 1..b - a + 1
            /\ a + (i + 1) - 1 = a + i /\ a + 1 + i - 1 = a + i
        BY <1>1, <1>2
      <4>2. u[i] = text[i + 1] /\ w[i] = raw[a + i]
        BY <3>2, <3>3, <4>1
      <4>3. text[i + 1] = raw[a + i]
        BY <1>2, <4>1
      <4> QED
        BY <4>2, <4>3
    <3>6. u = w
      BY <3>2, <3>3, <3>4, <3>5, SameText
    <3> QED
      BY <3>6 DEF u, w
  <2>5. Cut(Stripped(text), raw, a + 1, b - 1)
    BY <1>5, <2>1, <2>3, <2>4 DEF Cut
  <2> QED
    BY <2>5 DEF text
<1> QED
  BY <1>3, <1>4, <1>5, StrippedIs DEF text

\* The positions of a part of a text.
LEMMA CutTyped ==
  ASSUME NEW text \in Texts, NEW u, NEW p, NEW q, Cut(u, text, p, q)
  PROVE  /\ u \in Texts /\ Len(u) = IF p <= q THEN q - p + 1 ELSE 0
         /\ \A i \in 1..Len(u) : p + i - 1 \in 1..Len(text) /\ u[i] = text[p + i - 1]
<1>1. Len(text) \in Nat /\ p \in Nat /\ q \in Nat /\ p >= 1 /\ q <= Len(text)
      /\ u = SubSeq(text, p, q)
  BY TextFacts DEF Cut
<1>2. /\ u \in Texts /\ Len(u) = IF p <= q THEN q - p + 1 ELSE 0
      /\ \A i \in 1..q - p + 1 : u[i] = text[p + i - 1]
  BY <1>1, PartIs
<1> QED
  BY <1>1, <1>2

\* A part of a text with one block has at most one.
LEMMA OneBlockCut ==
  ASSUME NEW text \in Texts, OneBlock(text), NEW u, NEW p, NEW q, Cut(u, text, p, q)
  PROVE  OneBlock(u)
<1> SUFFICES ASSUME NEW i \in 1..Len(u), NEW j \in 1..Len(u), u[i] \in Begins, u[j] \in Begins
             PROVE  i = j
  BY DEF OneBlock
<1>1. /\ p + i - 1 \in 1..Len(text) /\ u[i] = text[p + i - 1]
      /\ p + j - 1 \in 1..Len(text) /\ u[j] = text[p + j - 1]
  BY CutTyped
<1>2. p + i - 1 = p + j - 1
  BY <1>1 DEF OneBlock
<1> QED
  BY <1>2, CutTyped DEF Cut

\* Of a text with no escapes: the block is looked for in a part of it.
LEMMA InspectPlain ==
  ASSUME NEW raw \in Texts, \A i \in 1..Len(raw) : raw[i] # "esc"
  PROVE  InspectPublicKey(raw) =
           IF Trim(raw) = <<>> THEN NoKey
           ELSE IF Stripped(Trim(raw)) = Panics THEN Panics
           ELSE Pem(Stripped(Trim(raw)), PublicKeys)
<1> SUFFICES ASSUME Trim(raw) # <<>>, Stripped(Trim(raw)) # Panics
             PROVE  ~ Contains(Stripped(Trim(raw)), "esc")
  BY DEF InspectPublicKey
<1>1. PICK p, q : Cut(Stripped(Trim(raw)), raw, p, q)
  BY StrippedTrimmed
<1>2. \A i \in 1..Len(Stripped(Trim(raw))) : Stripped(Trim(raw))[i] # "esc"
  BY <1>1, CutTyped
<1> QED
  BY <1>2 DEF Contains

-----------------------------------------------------------------------------
\* A key as Save writes it between its quotes, and as parseDotEnv reads that.
WrittenKey(key) == Replace(Without(Trim(key), "cr"), "nl", "esc")
Reread(key) == Unescape(WrittenKey(key))

\* m says where in the trimmed key the tokens were: those that are not there
\* any more are carriage returns.
RereadFrom(m, key) ==
  /\ Len(Reread(key)) = Len(WrittenKey(key))
  /\ \A i \in 1..Len(Reread(key)) :
       /\ m[i] \in 1..Len(Trim(key)) /\ Trim(key)[m[i]] # "cr"
       /\ WrittenKey(key)[i] = IF Trim(key)[m[i]] = "nl" THEN "esc" ELSE Trim(key)[m[i]]
       /\ Reread(key)[i] = Unescape(Trim(key))[m[i]]
  /\ Thinned(m, Reread(key), Unescape(Trim(key)))
  /\ \A k \in 1..Len(Trim(key)) : Trim(key)[k] # "cr" => \E i \in 1..Len(Reread(key)) : m[i] = k

\* What Save writes of a key and what Load reads of that are texts, and what is read
\* comes from the trimmed key.
LEMMA RereadIs ==
  ASSUME NEW key \in Texts
  PROVE  /\ WrittenKey(key) \in Texts /\ Reread(key) \in Texts
         /\ \E m : RereadFrom(m, key)
<1> DEFINE T == Trim(key)
    W == Without(T, "cr")
    X == WrittenKey(key)
    Y == Reread(key)
    U == Unescape(T)
<1>1. T \in Texts
  BY TrimShape
<1>2. W \in Texts /\ \E m : Kept(m, W, T, Len(T), "cr")
  BY <1>1, WithoutIs
<1>3. PICK m : Kept(m, W, T, Len(T), "cr")
  BY <1>2
<1>4. "nl" \in Tokens /\ "esc" \in Tokens
  BY MarksAreTokens
<1>5. /\ X \in Texts /\ Len(X) = Len(W)
      /\ \A i \in 1..Len(W) : X[i] = IF W[i] = "nl" THEN "esc" ELSE W[i]
  BY <1>2, <1>4, ReplaceIs DEF WrittenKey
<1>6. /\ Y \in Texts /\ Len(Y) = Len(X)
      /\ \A i \in 1..Len(X) : Y[i] = CASE X[i] = "esc" -> "nl" [] X[i] = "escr" -> "cr"
                                       [] OTHER -> X[i]
  BY <1>5, UnescapeIs DEF Reread
<1>7. /\ U \in Texts /\ Len(U) = Len(T)
      /\ \A i \in 1..Len(T) : U[i] = CASE T[i] = "esc" -> "nl" [] T[i] = "escr" -> "cr"
                                       [] OTHER -> T[i]
  BY <1>1, UnescapeIs
<1> HIDE DEF T, W, X, Y, U
<1>8. ASSUME NEW i \in 1..Len(Y)
      PROVE  /\ m[i] \in 1..Len(T) /\ T[m[i]] # "cr"
             /\ X[i] = IF T[m[i]] = "nl" THEN "esc" ELSE T[m[i]]
             /\ Y[i] = U[m[i]]
  <2>1. i \in 1..Len(W) /\ i \in 1..Len(X)
    BY <1>5, <1>6
  <2>2. m[i] \in 1..Len(T) /\ W[i] = T[m[i]] /\ W[i] # "cr"
    BY <1>3, <2>1 DEF Kept
  <2>3. X[i] = IF T[m[i]] = "nl" THEN "esc" ELSE T[m[i]]
    BY <1>5, <2>1, <2>2
  <2>4. /\ Y[i] = CASE X[i] = "esc" -> "nl" [] X[i] = "escr" -> "cr" [] OTHER -> X[i]
        /\ U[m[i]] = CASE T[m[i]] = "esc" -> "nl" [] T[m[i]] = "escr" -> "cr" [] OTHER -> T[m[i]]
    BY <1>6, <1>7, <2>1, <2>2
  <2>5. Y[i] = U[m[i]]
    BY <2>3, <2>4
  <2> QED
    BY <2>2, <2>3, <2>5
<1>9. ASSUME NEW k \in 1..Len(T), T[k] # "cr" PROVE \E i \in 1..Len(Y) : m[i] = k
  BY <1>3, <1>5, <1>6, <1>9 DEF Kept
<1>10. Thinned(m, Y, U)
  <2>1. \A i \in 1..Len(Y) : m[i] \in 1..Len(U) /\ Y[i] = U[m[i]]
    BY <1>7, <1>8
  <2>2. \A i, j \in 1..Len(Y) : i < j => m[i] < m[j]
    BY <1>3, <1>5, <1>6 DEF Kept
  <2>3. ASSUME NEW k \in 1..Len(U), U[k] # "cr" PROVE \E i \in 1..Len(Y) : m[i] = k
    <3>1. k \in 1..Len(T) /\ T[k] # "cr"
      BY <1>7, <2>3
    <3> QED
      BY <1>9, <3>1
  <2> QED
    BY <2>1, <2>2, <2>3 DEF Thinned
<1>11. RereadFrom(m, key)
  BY <1>6, <1>8, <1>9, <1>10 DEF RereadFrom, T, X, Y, U
<1> QED
  BY <1>5, <1>6, <1>11 DEF X, Y

\* The ends stay where they are.
LEMMA RereadEnds ==
  ASSUME NEW key \in Texts, Trim(key) # <<>>, NEW m, RereadFrom(m, key)
  PROVE  /\ Len(Reread(key)) >= 1 /\ Len(Trim(key)) >= 1
         /\ m[1] = 1 /\ m[Len(Reread(key))] = Len(Trim(key))
<1> DEFINE T == Trim(key)
    Y == Reread(key)
    U == Unescape(T)
<1>1. /\ T \in Texts /\ Len(T) \in Nat /\ Len(T) >= 1
      /\ T[1] \notin Blanks /\ T[Len(T)] \notin Blanks
  BY TrimShape, TrimEnds
<1>2. Y \in Texts /\ Len(Y) \in Nat
  BY RereadIs, TextFacts
<1>3. U \in Texts /\ Len(U) = Len(T)
  BY <1>1, UnescapeIs
<1>4. Thinned(m, Y, U) /\ \A k \in 1..Len(T) : T[k] # "cr" => \E i \in 1..Len(Y) : m[i] = k
  BY DEF RereadFrom
<1> HIDE DEF T, Y, U
<1>5. T[1] # "cr" /\ T[Len(T)] # "cr"
  BY <1>1, MarksDiffer
<1>6. PICK i \in 1..Len(Y) : m[i] = 1
  BY <1>1, <1>4, <1>5
<1>7. PICK j \in 1..Len(Y) : m[j] = Len(T)
  BY <1>1, <1>4, <1>5
<1>8. 1 \in 1..Len(Y) /\ Len(Y) \in 1..Len(Y)
  BY <1>2, <1>6
<1>9. m[1] \in 1..Len(T) /\ m[Len(Y)] \in 1..Len(T)
  BY <1>2, <1>3, <1>4, <1>8, ThinnedOrder
<1>10. i = 1
  <2> SUFFICES ASSUME 1 < i PROVE FALSE
    BY <1>2
  <2>1. m[1] < m[i]
    BY <1>2, <1>3, <1>4, <1>8, ThinnedOrder
  <2> QED
    BY <1>1, <1>6, <1>9, <2>1
<1>11. j = Len(Y)
  <2> SUFFICES ASSUME j < Len(Y) PROVE FALSE
    BY <1>2
  <2>1. m[j] < m[Len(Y)]
    BY <1>2, <1>3, <1>4, <1>8, ThinnedOrder
  <2> QED
    BY <1>1, <1>7, <1>9, <2>1
<1> QED
  BY <1>1, <1>6, <1>7, <1>8, <1>10, <1>11 DEF T, Y

\* No escapes, in the key that is read; no line ends, in the one written.
LEMMA RereadPlain ==
  ASSUME NEW key \in Texts
  PROVE  /\ \A i \in 1..Len(Reread(key)) : Reread(key)[i] # "esc" /\ Reread(key)[i] # "escr"
         /\ \A i \in 1..Len(WrittenKey(key)) : WrittenKey(key)[i] # "nl" /\ WrittenKey(key)[i] # "cr"
<1> DEFINE T == Trim(key)
    X == WrittenKey(key)
    Y == Reread(key)
<1>1. X \in Texts
  BY RereadIs
<1>2. /\ Len(Y) = Len(X)
      /\ \A i \in 1..Len(X) : Y[i] = CASE X[i] = "esc" -> "nl" [] X[i] = "escr" -> "cr"
                                       [] OTHER -> X[i]
  BY <1>1, UnescapeIs DEF Reread
<1>3. PICK m : RereadFrom(m, key)
  BY RereadIs
<1>4. \A i \in 1..Len(Y) : /\ T[m[i]] # "cr"
                           /\ X[i] = IF T[m[i]] = "nl" THEN "esc" ELSE T[m[i]]
  BY <1>3 DEF RereadFrom
<1> HIDE DEF T, X, Y
<1>5. \A i \in 1..Len(Y) : Y[i] # "esc" /\ Y[i] # "escr"
  BY <1>2
<1>6. \A i \in 1..Len(X) : X[i] # "nl" /\ X[i] # "cr"
  BY <1>2, <1>4
<1> QED
  BY <1>5, <1>6 DEF X, Y

-----------------------------------------------------------------------------
\* What lies between the ends of a text that lost carriage returns.
LEMMA ThinnedInner ==
  ASSUME NEW w \in Texts, NEW text \in Texts, NEW m, Thinned(m, w, text),
         Len(w) >= 2, m[1] = 1, m[Len(w)] = Len(text)
  PROVE  \E p : Thinned(p, SubSeq(w, 2, Len(w) - 1), SubSeq(text, 2, Len(text) - 1))
<1> DEFINE L == Len(w)
    N == Len(text)
    v == SubSeq(w, 2, L - 1)
    u == SubSeq(text, 2, N - 1)
    p == [i \in 1..L - 2 |-> m[i + 1] - 1]
<1>1. L \in Nat /\ N \in Nat /\ L >= 2
  BY TextFacts
<1>2. N >= 2
  <2>1. 1 \in 1..L /\ L \in 1..L /\ 1 < L
    BY <1>1
  <2>2. m[1] < m[L]
    BY <2>1, ThinnedOrder
  <2> QED
    BY <1>1, <2>2
<1>3. /\ v \in Texts /\ Len(v) = L - 2 /\ \A i \in 1..L - 2 : v[i] = w[i + 1]
  <2>1. 2 \in Nat /\ L - 1 \in Int /\ L - 1 <= Len(w)
    BY <1>1
  <2>2. /\ v \in Texts /\ Len(v) = IF 2 <= L - 1 THEN L - 1 - 2 + 1 ELSE 0
        /\ \A i \in 1..L - 1 - 2 + 1 : v[i] = w[2 + i - 1]
    BY <2>1, PartIs
  <2> HIDE DEF v, L
  <2>3. Len(v) = L - 2
    <3>1. CASE L >= 3
      BY <1>1, <2>2, <3>1
    <3>2. CASE L = 2
      BY <1>1, <2>2, <3>2
    <3> QED
      BY <1>1, <3>1, <3>2
  <2>4. \A i \in 1..L - 2 : i \in 1..L - 1 - 2 + 1 /\ 2 + i - 1 = i + 1
    BY <1>1
  <2> QED
    BY <2>2, <2>3, <2>4
<1>4. /\ u \in Texts /\ Len(u) = N - 2 /\ \A i \in 1..N - 2 : u[i] = text[i + 1]
  <2>1. 2 \in Nat /\ N - 1 \in Int /\ N - 1 <= Len(text)
    BY <1>1
  <2>2. /\ u \in Texts /\ Len(u) = IF 2 <= N - 1 THEN N - 1 - 2 + 1 ELSE 0
        /\ \A i \in 1..N - 1 - 2 + 1 : u[i] = text[2 + i - 1]
    BY <2>1, PartIs
  <2> HIDE DEF u, N
  <2>3. Len(u) = N - 2
    <3>1. CASE N >= 3
      BY <1>1, <2>2, <3>1
    <3>2. CASE N = 2
      BY <1>1, <2>2, <3>2
    <3> QED
      BY <1>1, <1>2, <3>1, <3>2
  <2>4. \A i \in 1..N - 2 : i \in 1..N - 1 - 2 + 1 /\ 2 + i - 1 = i + 1
    BY <1>1
  <2> QED
    BY <2>2, <2>3, <2>4
<1>5. \A i \in 1..L - 2 : p[i] = m[i + 1] - 1
  OBVIOUS
<1> HIDE DEF u, v, p
<1>6. ASSUME NEW i \in 1..L - 2 PROVE p[i] \in 1..N - 2 /\ v[i] = u[p[i]]
  <2>1. i + 1 \in 1..L /\ 1 \in 1..L /\ L \in 1..L /\ 1 < i + 1 /\ i + 1 < L
    BY <1>1
  <2>2. m[1] < m[i + 1] /\ m[i + 1] < m[L] /\ m[i + 1] \in 1..N /\ w[i + 1] = text[m[i + 1]]
    BY <2>1, ThinnedOrder
  <2>3. p[i] \in 1..N - 2 /\ p[i] + 1 = m[i + 1]
    BY <1>1, <1>5, <2>2
  <2> QED
    BY <1>3, <1>4, <2>2, <2>3
<1>7. ASSUME NEW i \in 1..L - 2, NEW j \in 1..L - 2, i < j PROVE p[i] < p[j]
  <2>1. i + 1 \in 1..L /\ j + 1 \in 1..L /\ i + 1 < j + 1
    BY <1>1, <1>7
  <2>2. m[i + 1] < m[j + 1] /\ m[i + 1] \in 1..N /\ m[j + 1] \in 1..N
    BY <2>1, ThinnedOrder
  <2> QED
    BY <1>1, <1>5, <2>2
<1>8. ASSUME NEW k \in 1..N - 2, u[k] # "cr" PROVE \E i \in 1..L - 2 : p[i] = k
  <2>1. k + 1 \in 1..N /\ text[k + 1] # "cr"
    BY <1>1, <1>4, <1>8
  <2>2. PICK i \in 1..L : m[i] = k + 1
    BY <2>1 DEF Thinned
  <2>3. i # 1 /\ i # L
    BY <1>1, <2>2
  <2>4. i - 1 \in 1..L - 2 /\ (i - 1) + 1 = i
    BY <1>1, <2>3
  <2>5. p[i - 1] = k
    BY <1>1, <1>5, <2>2, <2>4
  <2> QED
    BY <2>4, <2>5
<1>9. Thinned(p, v, u)
  BY <1>3, <1>4, <1>6, <1>7, <1>8 DEF Thinned
<1> QED
  BY <1>9 DEF u, v

\* Undoing the escapes and taking the quotes off may change places.
LEMMA UnescapeInner ==
  ASSUME NEW text \in Texts, Len(text) >= 2
  PROVE  Unescape(SubSeq(text, 2, Len(text) - 1)) = SubSeq(Unescape(text), 2, Len(text) - 1)
<1> DEFINE N == Len(text)
    t == SubSeq(text, 2, N - 1)
    u == Unescape(text)
    v == SubSeq(u, 2, N - 1)
    F(x) == CASE x = "esc" -> "nl" [] x = "escr" -> "cr" [] OTHER -> x
<1>1. N \in Nat /\ 2 \in Nat /\ N - 1 \in Int /\ 2 >= 1 /\ N - 1 <= N /\ N >= 2
  BY TextFacts
<1>2. u \in Texts /\ Len(u) = N /\ \A i \in 1..N : u[i] = F(text[i])
  BY UnescapeIs
<1>3. /\ t \in Texts /\ Len(t) = IF 2 <= N - 1 THEN N - 1 - 2 + 1 ELSE 0
      /\ \A i \in 1..N - 1 - 2 + 1 : t[i] = text[2 + i - 1]
  BY <1>1, PartIs
<1> HIDE DEF u
<1>4. /\ v \in Texts /\ Len(v) = IF 2 <= N - 1 THEN N - 1 - 2 + 1 ELSE 0
      /\ \A i \in 1..N - 1 - 2 + 1 : v[i] = u[2 + i - 1]
  BY <1>1, <1>2, PartIs
<1> HIDE DEF t, v
<1>5. /\ Unescape(t) \in Texts /\ Len(Unescape(t)) = Len(t)
      /\ \A i \in 1..Len(t) : Unescape(t)[i] = F(t[i])
  BY <1>3, UnescapeIs
<1>6. Len(Unescape(t)) = N - 2 /\ Len(v) = N - 2 /\ Len(t) = N - 2
  <2> HIDE DEF N
  <2>1. (IF 2 <= N - 1 THEN N - 1 - 2 + 1 ELSE 0) = N - 2
    BY <1>1
  <2> QED
    BY <1>3, <1>4, <1>5, <2>1
<1> HIDE DEF F
<1>7. ASSUME NEW i \in 1..N - 2 PROVE Unescape(t)[i] = v[i]
  <2>1. i \in 1..N - 1 - 2 + 1 /\ 2 + i - 1 \in 1..N
    BY <1>1
  <2>2. t[i] = text[2 + i - 1] /\ v[i] = u[2 + i - 1] /\ u[2 + i - 1] = F(text[2 + i - 1])
    BY <1>2, <1>3, <1>4, <2>1
  <2> QED
    BY <1>5, <1>6, <2>2
<1>8. Unescape(t) = v
  BY <1>4, <1>5, <1>6, <1>7, SameText
<1> QED
  BY <1>8 DEF t, u, v

\* A text with no escape in it is left as it is.
LEMMA UnescapeNothing ==
  ASSUME NEW text \in Texts, \A i \in 1..Len(text) : text[i] # "esc" /\ text[i] # "escr"
  PROVE  Unescape(text) = text
<1>1. /\ Unescape(text) \in Texts /\ Len(Unescape(text)) = Len(text)
      /\ \A i \in 1..Len(text) :
           Unescape(text)[i] = CASE text[i] = "esc" -> "nl" [] text[i] = "escr" -> "cr"
                                 [] OTHER -> text[i]
  BY UnescapeIs
<1>2. \A i \in 1..Len(text) : Unescape(text)[i] = text[i]
  BY <1>1
<1> QED
  BY <1>1, <1>2, SameText

\* The block of a regular key is found in its text with the escapes resolved,
\* whether InspectPublicKey resolved them or there are none.
LEMMA KeySeen ==
  ASSUME NEW raw \in Texts, Regular(Trim(raw)), InspectPublicKey(raw) \in PublicKeys
  PROVE  /\ Trim(raw) \in Texts /\ Trim(raw) # <<>> /\ Stripped(Trim(raw)) # Panics
         /\ Stripped(Trim(raw)) \in Texts
         /\ Pem(Unescape(Stripped(Trim(raw))), PublicKeys) = InspectPublicKey(raw)
<1> DEFINE T == Trim(raw)
    S == Stripped(T)
<1>1. T \in Texts /\ Len(T) \in Nat
  BY TrimShape, TextFacts
<1>2. InspectPublicKey(raw) # NoKey /\ InspectPublicKey(raw) # Panics
  BY OutcomesAssumption
<1>3. T # <<>> /\ S # Panics
  BY <1>2 DEF InspectPublicKey
<1>4. InspectPublicKey(raw) =
        Pem(IF Contains(S, "esc") /\ ~ Contains(S, "nl") THEN Unescape(S) ELSE S, PublicKeys)
  BY <1>3 DEF InspectPublicKey
<1>5. /\ S \in Texts
      /\ \/ /\ Len(T) >= 2 /\ T[1] \in Quotes /\ T[Len(T)] = T[1]
            /\ S = SubSeq(T, 2, Len(T) - 1)
         \/ S = T
  BY <1>1, <1>3, StrippedIs
<1>6. Len(S) \in Nat
  BY <1>5, TextFacts
<1>7. /\ Contains(T, "nl") => ~ Contains(T, "esc") /\ ~ Contains(T, "escr")
      /\ \A i \in 1..Len(T) : T[i] = "escr" => i < Len(T) /\ T[i + 1] = "esc"
  BY <1>1, TextFacts DEF Regular
<1> HIDE DEF T, S
<1>8. /\ \A i \in 1..Len(S) : \E j \in 1..Len(T) : T[j] = S[i]
      /\ \A i \in 1..Len(S) : S[i] = "escr" => i + 1 \in 1..Len(S) /\ S[i + 1] = "esc"
  <2>1. CASE S = T
    BY <1>1, <1>7, <2>1
  <2>2. CASE /\ Len(T) >= 2 /\ T[1] \in Quotes /\ T[Len(T)] = T[1]
             /\ S = SubSeq(T, 2, Len(T) - 1)
    <3> DEFINE n == Len(T)
    <3>1. n \in Nat /\ n >= 2 /\ 2 \in Nat /\ n - 1 \in Int /\ n - 1 <= n
      BY <1>1, <2>2
    <3>2. /\ Len(S) = IF 2 <= n - 1 THEN n - 1 - 2 + 1 ELSE 0
          /\ \A i \in 1..n - 1 - 2 + 1 : S[i] = T[2 + i - 1]
      BY <1>1, <2>2, <3>1, PartIs
    <3> HIDE DEF n
    <3>3. Len(S) = n - 2
      BY <3>1, <3>2
    <3>4. \A i \in 1..n - 2 : i + 1 \in 1..n /\ S[i] = T[i + 1]
      BY <3>1, <3>2
    <3>5. ASSUME NEW i \in 1..Len(S), S[i] = "escr"
          PROVE  i + 1 \in 1..Len(S) /\ S[i + 1] = "esc"
      <4>1. i + 1 \in 1..n /\ T[i + 1] = "escr"
        BY <3>3, <3>4, <3>5
      <4>2. i + 1 < n /\ T[i + 1 + 1] = "esc"
        BY <1>7, <4>1 DEF n
      <4>3. T[n] # "esc"
        BY <2>2 DEF n, Quotes
      <4>4. i + 1 + 1 # n
        BY <4>2, <4>3
      <4>5. i + 1 \in 1..n - 2
        BY <3>1, <3>3, <4>2, <4>4
      <4> QED
        BY <3>3, <3>4, <4>2, <4>5
    <3> QED
      BY <3>3, <3>4, <3>5 DEF n
  <2> QED
    BY <1>5, <2>1, <2>2
<1>9. CASE Contains(S, "esc") /\ ~ Contains(S, "nl")
  BY <1>1, <1>3, <1>4, <1>5, <1>9 DEF T, S
<1>10. CASE ~ (Contains(S, "esc") /\ ~ Contains(S, "nl"))
  <2>1. \A i \in 1..Len(S) : S[i] # "esc" /\ S[i] # "escr"
    <3>1. CASE Contains(S, "nl")
      <4>1. Contains(T, "nl")
        BY <1>8, <3>1 DEF Contains
      <4>2. \A j \in 1..Len(T) : T[j] # "esc" /\ T[j] # "escr"
        BY <1>7, <4>1 DEF Contains
      <4> QED
        BY <1>8, <4>2
    <3>2. CASE ~ Contains(S, "esc")
      BY <1>8, <3>2 DEF Contains
    <3> QED
      BY <1>10, <3>1, <3>2
  <2>2. Unescape(S) = S
    BY <1>5, <2>1, UnescapeNothing
  <2> QED
    BY <1>1, <1>3, <1>4, <1>5, <1>10, <2>2 DEF T, S
<1> QED
  BY <1>9, <1>10

\* Begins are where they were, once the escapes are resolved.
LEMMA OneBlockUnescaped ==
  ASSUME NEW text \in Texts, OneBlock(text)
  PROVE  OneBlock(Unescape(text))
<1>1. /\ Len(Unescape(text)) = Len(text)
      /\ \A i \in 1..Len(text) :
           Unescape(text)[i] = CASE text[i] = "esc" -> "nl" [] text[i] = "escr" -> "cr"
                                 [] OTHER -> text[i]
  BY UnescapeIs
<1>2. "nl" \notin Begins /\ "cr" \notin Begins
  BY DEF Begins
<1>3. \A i \in 1..Len(text) : Unescape(text)[i] \in Begins => text[i] \in Begins
  BY <1>1, <1>2
<1> QED
  BY <1>1, <1>3 DEF OneBlock

\* Regular, position by position.
LEMMA RegularIs ==
  ASSUME NEW text \in Texts
  PROVE  Regular(text) <=>
           /\ Contains(text, "nl") => ~ Contains(text, "esc") /\ ~ Contains(text, "escr")
           /\ \A i \in 1..Len(text) - 1 : text[i] = "cr" => text[i + 1] = "nl"
           /\ \A i \in 1..Len(text) : text[i] = "escr" => i < Len(text) /\ text[i + 1] = "esc"
           /\ OneBlock(text)
BY TextFacts DEF Regular, OneBlock

\* Blanks around a text with no escapes do not matter.
LEMMA RegularTrimmed ==
  ASSUME NEW text \in Texts, Regular(text),
         \A i \in 1..Len(text) : text[i] # "esc" /\ text[i] # "escr"
  PROVE  Regular(Trim(text))
<1> DEFINE t == Trim(text)
<1>1. t \in Texts /\ Len(text) \in Nat /\ Len(t) \in Nat
  BY TrimShape, TextFacts
<1>2. CASE t = <<>>
  <2>1. Len(t) = 0
    BY <1>2, EmptyIsText
  <2> HIDE DEF t
  <2>2. OneBlock(t)
    BY <2>1 DEF OneBlock
  <2>3. ~ Contains(t, "nl")
    BY <2>1 DEF Contains
  <2>4. Regular(t)
    BY <1>1, <2>1, <2>2, <2>3, RegularIs
  <2> QED
    BY <2>4 DEF t
<1>3. CASE t # <<>>
  <2>1. PICK a, b \in 1..Len(text) :
          /\ a <= b /\ Len(t) = b - a + 1
          /\ \A i \in 1..b - a + 1 : t[i] = text[a + i - 1]
    BY <1>3, TrimShape
  <2> HIDE DEF t
  <2>2. \A i \in 1..Len(t) : a + i - 1 \in 1..Len(text) /\ t[i] = text[a + i - 1]
    BY <1>1, <2>1
  <2>3. \A i \in 1..Len(t) : t[i] # "esc" /\ t[i] # "escr"
    BY <2>2
  <2>4. ASSUME NEW i \in 1..Len(t) - 1, t[i] = "cr" PROVE t[i + 1] = "nl"
    <3>1. /\ i \in 1..Len(t) /\ i + 1 \in 1..Len(t) /\ a + (i + 1) - 1 = a + i - 1 + 1
          /\ a + i - 1 \in 1..Len(text) - 1
      BY <1>1, <2>1
    <3>2. text[a + i - 1] = "cr" /\ t[i + 1] = text[a + i - 1 + 1]
      BY <2>2, <2>4, <3>1
    <3> QED
      BY <3>1, <3>2, RegularIs
  <2>5. OneBlock(t)
    <3> SUFFICES ASSUME NEW i \in 1..Len(t), NEW j \in 1..Len(t), t[i] \in Begins, t[j] \in Begins
                 PROVE  i = j
      BY DEF OneBlock
    <3>1. a + i - 1 = a + j - 1
      BY <2>2, RegularIs DEF OneBlock
    <3> QED
      BY <2>1, <3>1
  <2>6. ~ Contains(t, "esc") /\ ~ Contains(t, "escr")
    BY <2>3 DEF Contains
  <2>7. Regular(t)
    BY <1>1, <2>3, <2>4, <2>5, <2>6, RegularIs
  <2> QED
    BY <2>7 DEF t
<1> QED
  BY <1>2, <1>3

\* A regular key is regular when it is read again.
LEMMA RegularReread ==
  ASSUME NEW key \in Texts, Regular(Trim(key))
  PROVE  Regular(Reread(key)) /\ Regular(Trim(Reread(key)))
<1> DEFINE K == Trim(key)
    U == Unescape(K)
    Y == Reread(key)
<1>1. K \in Texts /\ Y \in Texts
  BY TrimShape, RereadIs
<1>2. /\ U \in Texts /\ Len(U) = Len(K)
      /\ \A i \in 1..Len(K) : U[i] = CASE K[i] = "esc" -> "nl" [] K[i] = "escr" -> "cr"
                                       [] OTHER -> K[i]
  BY <1>1, UnescapeIs
<1>3. /\ OneBlock(K)
      /\ \A i \in 1..Len(K) : K[i] = "escr" => i < Len(K) /\ K[i + 1] = "esc"
  BY <1>1, RegularIs
<1>4. OneBlock(U)
  BY <1>1, <1>3, OneBlockUnescaped
<1>5. PICK m : RereadFrom(m, key)
  BY RereadIs
<1>6. /\ Thinned(m, Y, U)
      /\ \A i \in 1..Len(Y) : m[i] \in 1..Len(K) /\ K[m[i]] # "cr" /\ Y[i] = U[m[i]]
  BY <1>5 DEF RereadFrom
<1>7. \A i \in 1..Len(Y) : Y[i] # "esc" /\ Y[i] # "escr"
  BY RereadPlain
<1>8. Len(K) \in Nat /\ Len(Y) \in Nat
  BY <1>1, TextFacts
<1> HIDE DEF K, U, Y
<1>9. ASSUME NEW i \in 1..Len(Y) - 1, Y[i] = "cr" PROVE Y[i + 1] = "nl"
  <2>1. i \in 1..Len(Y) /\ i + 1 \in 1..Len(Y) /\ i < i + 1
    BY <1>8
  <2>2. K[m[i]] = "escr"
    BY <1>2, <1>6, <1>9, <2>1
  <2>3. m[i] \in 1..Len(K) /\ m[i] + 1 \in 1..Len(K) /\ K[m[i] + 1] = "esc"
    BY <1>3, <1>6, <1>8, <2>1, <2>2
  <2>4. U[m[i] + 1] = "nl"
    BY <1>2, <2>3
  <2>5. PICK j \in 1..Len(Y) : m[j] = m[i] + 1
    BY <1>2, <1>6, <2>3, <2>4 DEF Thinned
  <2>6. m[i] < m[j]
    BY <2>3, <2>5
  <2>7. i < j
    BY <1>1, <1>2, <1>6, <2>1, <2>6, ThinnedOrder
  <2>8. ~ (i + 1 < j)
    <3> SUFFICES ASSUME i + 1 < j PROVE FALSE
      OBVIOUS
    <3>1. m[i] < m[i + 1] /\ m[i + 1] < m[j] /\ m[i + 1] \in 1..Len(K)
      BY <1>1, <1>2, <1>6, <2>1, ThinnedOrder
    <3> QED
      BY <1>8, <2>3, <2>5, <3>1
  <2>9. j = i + 1
    BY <2>1, <2>7, <2>8
  <2> QED
    BY <1>6, <2>4, <2>5, <2>9
<1>10. OneBlock(Y)
  <2> SUFFICES ASSUME NEW i \in 1..Len(Y), NEW j \in 1..Len(Y), Y[i] \in Begins, Y[j] \in Begins
               PROVE  i = j
    BY DEF OneBlock
  <2>1. m[i] = m[j]
    BY <1>2, <1>4, <1>6 DEF OneBlock
  <2> QED
    BY <1>1, <1>2, <1>6, <2>1, ThinnedOrder
<1>11. ~ Contains(Y, "esc") /\ ~ Contains(Y, "escr")
  BY <1>7 DEF Contains
<1>12. Regular(Y)
  BY <1>1, <1>7, <1>9, <1>10, <1>11, RegularIs
<1>13. Regular(Trim(Y))
  BY <1>1, <1>7, <1>12, RegularTrimmed
<1> QED
  BY <1>12, <1>13 DEF Y

\* Quotes around a text with no escapes are taken off.
LEMMA InspectQuoted ==
  ASSUME NEW raw \in Texts, \A i \in 1..Len(raw) : raw[i] # "esc",
         Len(raw) >= 2, raw[1] \in Quotes, raw[Len(raw)] = raw[1]
  PROVE  InspectPublicKey(raw) = Pem(SubSeq(raw, 2, Len(raw) - 1), PublicKeys)
<1>1. raw # <<>>
  BY TextFacts
<1>2. raw[1] \notin Blanks
  BY DEF Quotes, Blanks
<1>3. Trim(raw) = raw
  BY <1>1, <1>2, TrimKeeps
<1>4. Stripped(raw) # Panics
  BY StrippedIs
<1>5. Stripped(raw) = SubSeq(raw, 2, Len(raw) - 1)
  BY <1>4, StrippedIs
<1> QED
  BY <1>1, <1>3, <1>4, <1>5, InspectPlain

\* A block in a text with no escapes is found, whatever is cut off around it.
LEMMA InspectFinds ==
  ASSUME NEW raw \in Texts, \A i \in 1..Len(raw) : raw[i] # "esc",
         NEW a, NEW b, NEW c, KeyAt(raw, PublicKeys, a, b, c)
  PROVE  InspectPublicKey(raw) = raw[b]
<1> DEFINE T == Trim(raw)
    u == Stripped(T)
<1>1. Len(raw) \in Nat
  BY TextFacts
<1>2. /\ a \in 1..Len(raw) /\ c \in 1..Len(raw) /\ b \in 1..Len(raw) /\ a < b /\ b < c
      /\ raw[a] \in Begins /\ raw[c] = Ending(raw[a])
  BY DEF KeyAt
<1>3. raw[a] \notin Blanks /\ raw[a] \notin Quotes /\ raw[c] \notin Blanks /\ raw[c] \notin Quotes
  BY <1>2, MarksDiffer
<1>4. T \in Texts /\ T # <<>>
  BY <1>2, <1>3, TrimShape
<1>5. u # Panics
  <2>1. PICK p, q \in 1..Len(raw) :
          /\ \A i \in 1..Len(raw) : raw[i] \notin Blanks => p <= i /\ i <= q
          /\ Len(T) = q - p + 1
    BY <1>4, TrimShape
  <2> HIDE DEF T
  <2>2. Len(T) # 1
    BY <1>1, <1>2, <1>3, <2>1
  <2> QED
    BY <1>4, <2>2, StrippedIs
<1>6. PICK p, q : Cut(u, raw, p, q)
  BY <1>4, <1>5, StrippedTrimmed
<1>7. /\ p \in Nat /\ q \in Nat /\ p >= 1 /\ q <= Len(raw)
      /\ u = SubSeq(raw, p, q)
      /\ \A i \in 1..Len(raw) : i < p \/ i > q => raw[i] \in Blanks \cup Quotes
  BY <1>6 DEF Cut
<1>8. p <= a /\ c <= q
  BY <1>1, <1>2, <1>3, <1>7
<1>9. InspectPublicKey(raw) = Pem(u, PublicKeys)
  BY <1>4, <1>5, InspectPlain
<1> HIDE DEF u
<1>10. u \in Texts
  BY <1>7, PartIs
<1>11. PICK d, e, f : KeyAt(u, PublicKeys, d, e, f) /\ u[e] = raw[b]
  <2>1. PartOf(u, raw, p, q)
    BY <1>7 DEF PartOf
  <2> QED
    BY <1>8, <2>1, KeyCut
<1>12. PublicKeys \subseteq Words
  BY WordsAssumption
<1>13. Pem(u, PublicKeys) = u[e]
  BY <1>10, <1>11, <1>12, PemFinds
<1> QED
  BY <1>9, <1>11, <1>13

\* The key InspectPublicKey found before a save it finds in what is read.
LEMMA KeyReread ==
  ASSUME NEW key \in Texts, Regular(Trim(key)), InspectPublicKey(key) \in PublicKeys
  PROVE  InspectPublicKey(Reread(key)) = InspectPublicKey(key)
<1> DEFINE K == Trim(key)
    S == Stripped(K)
    U == Unescape(K)
    R == Unescape(S)
    Y == Reread(key)
    k == InspectPublicKey(key)
<1>1. K \in Texts /\ K # <<>> /\ S # Panics /\ S \in Texts /\ Pem(R, PublicKeys) = k
  BY KeySeen
<1>2. PublicKeys \subseteq Words /\ k # NoKey
  BY WordsAssumption, OutcomesAssumption
<1>3. Y \in Texts /\ Len(Y) \in Nat /\ Len(K) \in Nat
  BY <1>1, RereadIs, TextFacts
<1>4. \A i \in 1..Len(Y) : Y[i] # "esc"
  BY RereadPlain
<1>5. PICK m : RereadFrom(m, key)
  BY RereadIs
<1>6. Thinned(m, Y, U)
  BY <1>5 DEF RereadFrom
<1>7. Len(Y) >= 1 /\ Len(K) >= 1 /\ m[1] = 1 /\ m[Len(Y)] = Len(K)
  BY <1>1, <1>5, RereadEnds
<1>8. /\ U \in Texts /\ Len(U) = Len(K)
      /\ \A i \in 1..Len(K) : U[i] = CASE K[i] = "esc" -> "nl" [] K[i] = "escr" -> "cr"
                                       [] OTHER -> K[i]
  BY <1>1, UnescapeIs
<1>9. OneBlock(K) /\ OneBlock(U)
  BY <1>1, RegularIs, OneBlockUnescaped
<1>10. \/ /\ Len(K) >= 2 /\ K[1] \in Quotes /\ K[Len(K)] = K[1]
          /\ S = SubSeq(K, 2, Len(K) - 1)
       \/ S = K
  BY <1>1, StrippedIs
<1>11. CASE S = K
  <2>1. PICK a, b, c : KeyAt(U, PublicKeys, a, b, c) /\ Pem(U, PublicKeys) = U[b]
    BY <1>1, <1>2, <1>8, <1>9, <1>11, PemFound
  <2>2. PICK d, e, f : KeyAt(Y, PublicKeys, d, e, f) /\ Y[e] = U[b]
    BY <1>2, <1>3, <1>6, <1>8, <2>1, KeyThinned
  <2>3. InspectPublicKey(Y) = Y[e]
    BY <1>3, <1>4, <2>2, InspectFinds
  <2> QED
    BY <1>1, <1>11, <2>1, <2>2, <2>3
<1>12. CASE /\ Len(K) >= 2 /\ K[1] \in Quotes /\ K[Len(K)] = K[1]
            /\ S = SubSeq(K, 2, Len(K) - 1)
  <2> DEFINE v == SubSeq(Y, 2, Len(Y) - 1)
      u == SubSeq(U, 2, Len(U) - 1)
  <2>1. R = u
    BY <1>1, <1>8, <1>12, UnescapeInner
  <2>2. Len(Y) >= 2
    BY <1>3, <1>7, <1>12
  <2>3. PICK p : Thinned(p, v, u)
    BY <1>3, <1>6, <1>7, <1>8, <2>2, ThinnedInner
  <2>4. v \in Texts /\ u \in Texts
    <3>1. 2 \in Nat /\ Len(Y) - 1 \in Int /\ Len(U) - 1 \in Int /\ Len(Y) - 1 <= Len(Y)
          /\ Len(U) - 1 <= Len(U) /\ 2 >= 1
      BY <1>3, <1>8
    <3>2. v \in Texts
      BY <1>3, <3>1, PartIs
    <3>3. u \in Texts
      BY <1>8, <3>1, PartIs
    <3> QED
      BY <3>2, <3>3
  <2>5. OneBlock(u)
    <3> DEFINE N == Len(K)
    <3>1. N \in Nat /\ N >= 2 /\ 2 \in Nat /\ N - 1 \in Int /\ N - 1 <= N
      BY <1>3, <1>12
    <3>2. /\ Len(u) = IF 2 <= N - 1 THEN N - 1 - 2 + 1 ELSE 0
          /\ \A i \in 1..N - 1 - 2 + 1 : u[i] = U[2 + i - 1]
      BY <1>8, <3>1, PartIs
    <3> HIDE DEF N, u
    <3>3. \A i \in 1..Len(u) : i \in Nat /\ i + 1 \in 1..N /\ u[i] = U[i + 1]
      BY <3>1, <3>2
    <3> SUFFICES ASSUME NEW i \in 1..Len(u), NEW j \in 1..Len(u), u[i] \in Begins, u[j] \in Begins
                 PROVE  i = j
      BY DEF OneBlock
    <3>4. i + 1 = j + 1
      BY <1>8, <1>9, <3>3 DEF OneBlock, N
    <3> QED
      BY <3>3, <3>4
  <2>6. Y[1] = K[1] /\ Y[Len(Y)] = K[1]
    <3>1. 1 \in 1..Len(Y) /\ Len(Y) \in 1..Len(Y) /\ 1 \in 1..Len(K) /\ Len(K) \in 1..Len(K)
      BY <1>3, <1>7
    <3>2. Y[1] = U[1] /\ Y[Len(Y)] = U[Len(K)]
      BY <1>6, <1>7, <3>1 DEF Thinned
    <3>3. K[1] # "esc" /\ K[1] # "escr"
      BY <1>12 DEF Quotes
    <3>4. U[1] = K[1] /\ U[Len(K)] = K[1]
      BY <1>8, <1>12, <3>1, <3>3
    <3> QED
      BY <3>2, <3>4
  <2>7. InspectPublicKey(Y) = Pem(v, PublicKeys)
    BY <1>3, <1>4, <1>12, <2>2, <2>6, InspectQuoted
  <2>8. Pem(u, PublicKeys) = k
    BY <1>1, <2>1
  <2> HIDE DEF u, v, Y, k
  <2>9. PICK a, b, c : KeyAt(u, PublicKeys, a, b, c) /\ Pem(u, PublicKeys) = u[b]
    BY <1>2, <2>4, <2>5, <2>8, PemFound
  <2>10. PICK d, e, f : KeyAt(v, PublicKeys, d, e, f) /\ v[e] = u[b]
    BY <1>2, <2>3, <2>4, <2>9, KeyThinned
  <2>11. Pem(v, PublicKeys) = v[e]
    BY <1>2, <2>4, <2>10, PemFinds
  <2> QED
    BY <2>7, <2>8, <2>9, <2>10, <2>11 DEF Y, k
<1> QED
  BY <1>10, <1>11, <1>12

-----------------------------------------------------------------------------
\* The texts Save writes after the names, and what parseDotEnv makes of them.
PortText(values) == ValueOr(values["PORT"], <<"9876">>)
DeviceText(values) == IF values["DEVICE_ID"] = <<>> THEN Hostname ELSE values["DEVICE_ID"]
SkewText(values) == ValueOr(values["CLOCK_SKEW_SECONDS"], <<"5">>)
SizeText(values) == ValueOr(values["MAX_BODY_BYTES"], <<"65536">>)
NotifyText(values) == ValueOr(values["ENABLE_NOTIFICATIONS"], <<"true">>)

\* Values that, but for the key, are written as what they are.
Clean(values) ==
  /\ Plain(PortText(values)) /\ Plain(DeviceText(values)) /\ Plain(SkewText(values))
  /\ Plain(SizeText(values)) /\ Plain(NotifyText(values))

ValuesRead(values) ==
  [NoValues EXCEPT !["PORT"] = Trim(PortText(values)),
                   !["DEVICE_ID"] = Trim(DeviceText(values)),
                   !["PUBLIC_KEY"] = Reread(values["PUBLIC_KEY"]),
                   !["CLOCK_SKEW_SECONDS"] = Trim(SkewText(values)),
                   !["MAX_BODY_BYTES"] = Trim(SizeText(values)),
                   !["ENABLE_NOTIFICATIONS"] = Trim(NotifyText(values))]

\* A value or its default is a text.
LEMMA ValueOrTyped ==
  ASSUME NEW text \in Texts, NEW fallback \in Texts
  PROVE  ValueOr(text, fallback) \in Texts
BY TrimShape DEF ValueOr

\* What Save makes of each value is a text.
LEMMA SavedTexts ==
  ASSUME NEW values \in Values
  PROVE  /\ PortText(values) \in Texts /\ DeviceText(values) \in Texts
         /\ SkewText(values) \in Texts /\ SizeText(values) \in Texts
         /\ NotifyText(values) \in Texts /\ values["PUBLIC_KEY"] \in Texts
<1>1. \A name \in Names : values[name] \in Texts
  BY DEF Values
<1>2. {"PORT", "DEVICE_ID", "PUBLIC_KEY", "CLOCK_SKEW_SECONDS", "MAX_BODY_BYTES",
       "ENABLE_NOTIFICATIONS"} \subseteq Names
  BY DEF Names
<1>3. {"9876", "65536", "5", "true"} \subseteq Words
  BY WordsAssumption
<1>4. /\ <<"9876">> \in Texts /\ <<"65536">> \in Texts /\ <<"5">> \in Texts
      /\ <<"true">> \in Texts
  BY <1>3, PlainWord
<1>5. Hostname \in Texts
  BY WordsAssumption
<1>6. PortText(values) \in Texts
  BY <1>1, <1>2, <1>4, ValueOrTyped DEF PortText
<1>7. SkewText(values) \in Texts
  BY <1>1, <1>2, <1>4, ValueOrTyped DEF SkewText
<1>8. SizeText(values) \in Texts
  BY <1>1, <1>2, <1>4, ValueOrTyped DEF SizeText
<1>9. NotifyText(values) \in Texts
  BY <1>1, <1>2, <1>4, ValueOrTyped DEF NotifyText
<1>10. DeviceText(values) \in Texts /\ values["PUBLIC_KEY"] \in Texts
  BY <1>1, <1>2, <1>5 DEF DeviceText
<1> QED
  BY <1>6, <1>7, <1>8, <1>9, <1>10

\* Some lines have been read, and no other has.
HasRead(text, values, names) ==
  /\ text \in Texts /\ Between(text)
  /\ \A n \in Names : Read(text).values[n] = IF n \in names THEN ValuesRead(values)[n] ELSE <<>>

\* Of no lines nothing is read, and the parser is between values.
LEMMA NothingRead ==
  ASSUME NEW values
  PROVE  HasRead(<<>>, values, {})
<1>1. Read(<<>>) = Start /\ <<>> \in Texts
  BY ReadEmpty, EmptyIsText
<1>2. Start.mode = "plain" /\ Start.line = <<>> /\ Start.values = NoValues
  BY DEF Start
<1> QED
  BY <1>1, <1>2 DEF HasRead, Between, NoValues

\* Each line Save writes adds its name to the names read, with its value.
LEMMA LineRead ==
  ASSUME NEW text, NEW values, NEW names, HasRead(text, values, names),
         NEW name \in Names, NEW v \in Texts, \A i \in 1..Len(v) : v[i] # "nl",
         ~ Opens(Trim(v)), Content(Trim(v)) = ValuesRead(values)[name]
  PROVE  HasRead(text \o Line(name, v), values, names \cup {name})
<1> DEFINE after == text \o Line(name, v)
<1>1. text \in Texts /\ Between(text)
  BY DEF HasRead
<1>2. OneMoreLine(after, text, name, v)
  BY DEF Line, OneMoreLine
<1> HIDE DEF after
<1>3. /\ after \in Texts /\ Between(after)
      /\ \A n \in Names : Read(after).values[n] = IF n = name THEN Content(Trim(v))
                                                  ELSE Read(text).values[n]
  BY <1>1, <1>2, WholeLine
<1>4. \A n \in Names : Read(text).values[n] = IF n \in names THEN ValuesRead(values)[n] ELSE <<>>
  BY DEF HasRead
<1>5. HasRead(after, values, names \cup {name})
  BY <1>3, <1>4 DEF HasRead
<1> QED
  BY <1>5 DEF after

\* The lines of Save, one more at a time
FirstLine(values) == <<>> \o Line("PORT", PortText(values))
TwoLines(values) == FirstLine(values) \o Line("DEVICE_ID", DeviceText(values))
ThreeLines(values) ==
  TwoLines(values) \o Line("PUBLIC_KEY", InQuotes(WrittenKey(values["PUBLIC_KEY"])))
FourLines(values) == ThreeLines(values) \o Line("CLOCK_SKEW_SECONDS", SkewText(values))
FiveLines(values) == FourLines(values) \o Line("MAX_BODY_BYTES", SizeText(values))
AllLines(values) == FiveLines(values) \o Line("ENABLE_NOTIFICATIONS", NotifyText(values))

\* A line Save writes is a text.
LEMMA LineIsText ==
  ASSUME NEW name \in Names, NEW v \in Texts
  PROVE  Line(name, v) \in Texts
<1>1. name \in Tokens /\ "=" \in Tokens /\ "nl" \in Tokens
  BY MarksAreTokens
<1>2. <<name, "=">> \in Texts
  BY <1>1 DEF Texts
<1>3. <<"nl">> \in Texts
  BY <1>1, WordIsText
<1>4. <<name, "=">> \o v \in Texts
  BY <1>2, JoinIs
<1> QED
  BY <1>3, <1>4, JoinIs DEF Line

\* Save writes its lines in this order.
LEMMA SaveIs ==
  ASSUME NEW values \in Values
  PROVE  Save(values) = AllLines(values)
<1> DEFINE a == Line("PORT", PortText(values))
    b == Line("DEVICE_ID", DeviceText(values))
    c == Line("PUBLIC_KEY", InQuotes(WrittenKey(values["PUBLIC_KEY"])))
    d == Line("CLOCK_SKEW_SECONDS", SkewText(values))
    e == Line("MAX_BODY_BYTES", SizeText(values))
    f == Line("ENABLE_NOTIFICATIONS", NotifyText(values))
<1>1. {"PORT", "DEVICE_ID", "PUBLIC_KEY", "CLOCK_SKEW_SECONDS", "MAX_BODY_BYTES",
       "ENABLE_NOTIFICATIONS"} \subseteq Names
  BY DEF Names
<1>2. InQuotes(WrittenKey(values["PUBLIC_KEY"])) \in Texts
  <2>1. WrittenKey(values["PUBLIC_KEY"]) \in Texts
    BY SavedTexts, RereadIs
  <2> QED
    BY <2>1, InQuotesIs
<1>3. a \in Texts /\ b \in Texts /\ c \in Texts /\ d \in Texts /\ e \in Texts /\ f \in Texts
  BY <1>1, <1>2, SavedTexts, LineIsText
<1>4. Save(values) = a \o b \o c \o (d \o e \o f)
  BY DEF Save, PortLine, DeviceLine, KeyLine, OtherLines, OneLine, PortText, DeviceText,
         SkewText, SizeText, NotifyText, InQuotes, WrittenKey
<1>5. AllLines(values) = <<>> \o a \o b \o c \o d \o e \o f
  BY DEF AllLines, FiveLines, FourLines, ThreeLines, TwoLines, FirstLine
<1> HIDE DEF a, b, c, d, e, f
<1>6. <<>> \o a = a
  BY <1>3 DEF Texts
<1>7. a \o b \o c \in Texts /\ d \o e \in Texts
  BY <1>3, JoinIs
<1>8. Joined(a \o b \o c, d \o e, f) /\ Joined(a \o b \o c, d, e)
  BY <1>3, <1>7, JoinedAlways
<1>9. a \o b \o c \o (d \o e \o f) = a \o b \o c \o d \o e \o f
  BY <1>8 DEF Joined
<1> QED
  BY <1>4, <1>5, <1>6, <1>9

\* What has been read after each line
LEMMA LinesRead ==
  ASSUME NEW values \in Values, Clean(values)
  PROVE  /\ HasRead(FirstLine(values), values, {"PORT"})
         /\ HasRead(TwoLines(values), values, {"PORT", "DEVICE_ID"})
         /\ HasRead(ThreeLines(values), values, {"PORT", "DEVICE_ID", "PUBLIC_KEY"})
         /\ HasRead(FourLines(values), values,
                    {"PORT", "DEVICE_ID", "PUBLIC_KEY", "CLOCK_SKEW_SECONDS"})
         /\ HasRead(FiveLines(values), values,
                    {"PORT", "DEVICE_ID", "PUBLIC_KEY", "CLOCK_SKEW_SECONDS", "MAX_BODY_BYTES"})
         /\ HasRead(AllLines(values), values,
                    {"PORT", "DEVICE_ID", "PUBLIC_KEY", "CLOCK_SKEW_SECONDS", "MAX_BODY_BYTES",
                     "ENABLE_NOTIFICATIONS"})
<1> DEFINE key == values["PUBLIC_KEY"]
<1>1. {"PORT", "DEVICE_ID", "PUBLIC_KEY", "CLOCK_SKEW_SECONDS", "MAX_BODY_BYTES",
       "ENABLE_NOTIFICATIONS"} \subseteq Names
  BY DEF Names
<1>2. /\ ValuesRead(values)["PORT"] = Trim(PortText(values))
      /\ ValuesRead(values)["DEVICE_ID"] = Trim(DeviceText(values))
      /\ ValuesRead(values)["PUBLIC_KEY"] = Reread(key)
      /\ ValuesRead(values)["CLOCK_SKEW_SECONDS"] = Trim(SkewText(values))
      /\ ValuesRead(values)["MAX_BODY_BYTES"] = Trim(SizeText(values))
      /\ ValuesRead(values)["ENABLE_NOTIFICATIONS"] = Trim(NotifyText(values))
  BY <1>1 DEF ValuesRead, NoValues
<1>3. HasRead(FirstLine(values), values, {"PORT"})
  <2>1. /\ \A i \in 1..Len(PortText(values)) : PortText(values)[i] # "nl"
        /\ ~ Opens(Trim(PortText(values)))
        /\ Content(Trim(PortText(values))) = Trim(PortText(values))
    BY SavedTexts, PlainIs DEF Clean
  <2>2. HasRead(<<>>, values, {})
    BY NothingRead
  <2>3. HasRead(<<>> \o Line("PORT", PortText(values)), values, {} \cup {"PORT"})
    BY <1>1, <1>2, <2>1, <2>2, SavedTexts, LineRead
  <2>4. {} \cup {"PORT"} = {"PORT"}
    OBVIOUS
  <2> QED
    BY <2>3, <2>4 DEF FirstLine
<1>4. HasRead(TwoLines(values), values, {"PORT", "DEVICE_ID"})
  <2>1. /\ \A i \in 1..Len(DeviceText(values)) : DeviceText(values)[i] # "nl"
        /\ ~ Opens(Trim(DeviceText(values)))
        /\ Content(Trim(DeviceText(values))) = Trim(DeviceText(values))
    BY SavedTexts, PlainIs DEF Clean
  <2>2. HasRead(TwoLines(values), values, {"PORT"} \cup {"DEVICE_ID"})
    BY <1>1, <1>2, <1>3, <2>1, SavedTexts, LineRead DEF TwoLines
  <2>3. {"PORT"} \cup {"DEVICE_ID"} = {"PORT", "DEVICE_ID"}
    OBVIOUS
  <2> QED
    BY <2>2, <2>3
<1>5. HasRead(ThreeLines(values), values, {"PORT", "DEVICE_ID", "PUBLIC_KEY"})
  <2> DEFINE w == WrittenKey(key)
      v == InQuotes(w)
  <2>1. key \in Texts /\ w \in Texts /\ v \in Texts /\ \A i \in 1..Len(w) : w[i] # "nl"
    BY SavedTexts, RereadIs, RereadPlain, InQuotesIs
  <2>2. /\ \A i \in 1..Len(v) : v[i] # "nl"
        /\ ~ Opens(Trim(v)) /\ Content(Trim(v)) = Reread(key)
    BY <2>1, InQuotesRead DEF Reread
  <2>3. ThreeLines(values) = TwoLines(values) \o Line("PUBLIC_KEY", v)
    BY DEF ThreeLines
  <2> HIDE DEF w, v
  <2>4. HasRead(ThreeLines(values), values, {"PORT", "DEVICE_ID"} \cup {"PUBLIC_KEY"})
    BY <1>1, <1>2, <1>4, <2>1, <2>2, <2>3, LineRead
  <2>5. {"PORT", "DEVICE_ID"} \cup {"PUBLIC_KEY"} = {"PORT", "DEVICE_ID", "PUBLIC_KEY"}
    OBVIOUS
  <2> QED
    BY <2>4, <2>5
<1>6. HasRead(FourLines(values), values,
              {"PORT", "DEVICE_ID", "PUBLIC_KEY", "CLOCK_SKEW_SECONDS"})
  <2>1. /\ \A i \in 1..Len(SkewText(values)) : SkewText(values)[i] # "nl"
        /\ ~ Opens(Trim(SkewText(values)))
        /\ Content(Trim(SkewText(values))) = Trim(SkewText(values))
    BY SavedTexts, PlainIs DEF Clean
  <2>2. HasRead(FourLines(values), values,
                {"PORT", "DEVICE_ID", "PUBLIC_KEY"} \cup {"CLOCK_SKEW_SECONDS"})
    BY <1>1, <1>2, <1>5, <2>1, SavedTexts, LineRead DEF FourLines
  <2>3. {"PORT", "DEVICE_ID", "PUBLIC_KEY"} \cup {"CLOCK_SKEW_SECONDS"} =
          {"PORT", "DEVICE_ID", "PUBLIC_KEY", "CLOCK_SKEW_SECONDS"}
    OBVIOUS
  <2> QED
    BY <2>2, <2>3
<1>7. HasRead(FiveLines(values), values,
              {"PORT", "DEVICE_ID", "PUBLIC_KEY", "CLOCK_SKEW_SECONDS", "MAX_BODY_BYTES"})
  <2>1. /\ \A i \in 1..Len(SizeText(values)) : SizeText(values)[i] # "nl"
        /\ ~ Opens(Trim(SizeText(values)))
        /\ Content(Trim(SizeText(values))) = Trim(SizeText(values))
    BY SavedTexts, PlainIs DEF Clean
  <2>2. HasRead(FiveLines(values), values,
                {"PORT", "DEVICE_ID", "PUBLIC_KEY", "CLOCK_SKEW_SECONDS"} \cup {"MAX_BODY_BYTES"})
    BY <1>1, <1>2, <1>6, <2>1, SavedTexts, LineRead DEF FiveLines
  <2>3. {"PORT", "DEVICE_ID", "PUBLIC_KEY", "CLOCK_SKEW_SECONDS"} \cup {"MAX_BODY_BYTES"} =
          {"PORT", "DEVICE_ID", "PUBLIC_KEY", "CLOCK_SKEW_SECONDS", "MAX_BODY_BYTES"}
    OBVIOUS
  <2> QED
    BY <2>2, <2>3
<1>8. HasRead(AllLines(values), values,
              {"PORT", "DEVICE_ID", "PUBLIC_KEY", "CLOCK_SKEW_SECONDS", "MAX_BODY_BYTES",
               "ENABLE_NOTIFICATIONS"})
  <2>1. /\ \A i \in 1..Len(NotifyText(values)) : NotifyText(values)[i] # "nl"
        /\ ~ Opens(Trim(NotifyText(values)))
        /\ Content(Trim(NotifyText(values))) = Trim(NotifyText(values))
    BY SavedTexts, PlainIs DEF Clean
  <2>2. HasRead(AllLines(values), values,
                {"PORT", "DEVICE_ID", "PUBLIC_KEY", "CLOCK_SKEW_SECONDS", "MAX_BODY_BYTES"}
                  \cup {"ENABLE_NOTIFICATIONS"})
    BY <1>1, <1>2, <1>7, <2>1, SavedTexts, LineRead DEF AllLines
  <2>3. {"PORT", "DEVICE_ID", "PUBLIC_KEY", "CLOCK_SKEW_SECONDS", "MAX_BODY_BYTES"}
          \cup {"ENABLE_NOTIFICATIONS"} =
          {"PORT", "DEVICE_ID", "PUBLIC_KEY", "CLOCK_SKEW_SECONDS", "MAX_BODY_BYTES",
           "ENABLE_NOTIFICATIONS"}
    OBVIOUS
  <2> QED
    BY <2>2, <2>3
<1> QED
  BY <1>3, <1>4, <1>5, <1>6, <1>7, <1>8

\* What parseDotEnv reads of what Save wrote
LEMMA SavedParses ==
  ASSUME NEW values \in Values, Clean(values)
  PROVE  /\ Save(values) \in Texts /\ Parse(Save(values)) \in Values
         /\ Parse(Save(values)) = ValuesRead(values)
<1> DEFINE text == AllLines(values)
    parsed == Parse(text)
    names == {"PORT", "DEVICE_ID", "PUBLIC_KEY", "CLOCK_SKEW_SECONDS", "MAX_BODY_BYTES",
              "ENABLE_NOTIFICATIONS"}
<1>1. Save(values) = text
  BY SaveIs
<1>2. HasRead(text, values, names)
  BY LinesRead
<1> HIDE DEF text
<1>3. /\ text \in Texts /\ Between(text)
      /\ \A n \in Names : Read(text).values[n] = IF n \in names THEN ValuesRead(values)[n] ELSE <<>>
  BY <1>2 DEF HasRead
<1>4. parsed = Read(text).values /\ parsed \in Values
  BY <1>3, NoLine
<1>5. \A n \in Names \ names : ValuesRead(values)[n] = <<>>
  BY DEF ValuesRead, NoValues
<1>6. \A n \in Names : parsed[n] = ValuesRead(values)[n]
  BY <1>3, <1>4, <1>5
<1> HIDE DEF parsed
<1>7. ValuesRead(values) = [n \in Names |-> ValuesRead(values)[n]]
  BY DEF ValuesRead, NoValues
<1>8. parsed = ValuesRead(values)
  BY <1>4, <1>6, <1>7 DEF Values
<1> QED
  BY <1>1, <1>3, <1>4, <1>8 DEF parsed

-----------------------------------------------------------------------------
\* The beginning of two texts joined is one of the first, if it is no longer.
LEMMA BeginningOfJoin ==
  ASSUME NEW s \in Texts, NEW t \in Texts, NEW n \in 0..Len(s)
  PROVE  SubSeq(s \o t, 1, n) = SubSeq(s, 1, n)
<1> DEFINE w == s \o t
    u == SubSeq(w, 1, n)
    v == SubSeq(s, 1, n)
<1>1. Len(s) \in Nat /\ Len(t) \in Nat
  BY TextFacts
<1>2. /\ w \in Texts /\ Len(w) = Len(s) + Len(t)
      /\ \A i \in 1..Len(s) + Len(t) : w[i] = IF i <= Len(s) THEN s[i] ELSE t[i - Len(s)]
  BY JoinIs
<1>3. 1 \in Nat /\ n \in Int /\ 1 >= 1 /\ n <= Len(s)
  BY <1>1
<1> HIDE DEF w
<1>4. n <= Len(w)
  BY <1>1, <1>2
<1>5. /\ u \in Texts /\ Len(u) = IF 1 <= n THEN n - 1 + 1 ELSE 0
      /\ \A i \in 1..n - 1 + 1 : u[i] = w[1 + i - 1]
  BY <1>2, <1>3, <1>4, PartIs
<1>6. /\ v \in Texts /\ Len(v) = IF 1 <= n THEN n - 1 + 1 ELSE 0
      /\ \A i \in 1..n - 1 + 1 : v[i] = s[1 + i - 1]
  BY <1>3, PartIs
<1> HIDE DEF u, v
<1>7. Len(u) = n /\ Len(v) = n
  BY <1>1, <1>5, <1>6
<1>8. ASSUME NEW i \in 1..n PROVE u[i] = v[i]
  <2>1. i \in 1..n - 1 + 1 /\ 1 + i - 1 = i /\ i \in 1..Len(s) + Len(t) /\ i <= Len(s)
    BY <1>1
  <2> QED
    BY <1>2, <1>5, <1>6, <2>1
<1>9. u = v
  BY <1>5, <1>6, <1>7, <1>8, SameText
<1> QED
  BY <1>9 DEF u, v, w

\* The beginning of two texts joined that holds the first
LEMMA BeginningAfter ==
  ASSUME NEW s \in Texts, NEW t \in Texts, NEW n \in 0..Len(t)
  PROVE  SubSeq(s \o t, 1, Len(s) + n) = s \o SubSeq(t, 1, n)
<1> DEFINE w == s \o t
    m == Len(s) + n
    u == SubSeq(w, 1, m)
    p == SubSeq(t, 1, n)
    v == s \o p
<1>1. Len(s) \in Nat /\ Len(t) \in Nat
  BY TextFacts
<1>2. /\ w \in Texts /\ Len(w) = Len(s) + Len(t)
      /\ \A i \in 1..Len(s) + Len(t) : w[i] = IF i <= Len(s) THEN s[i] ELSE t[i - Len(s)]
  BY JoinIs
<1>3. 1 \in Nat /\ m \in Nat /\ m \in Int /\ 1 >= 1 /\ n \in Int /\ n <= Len(t) /\ n \in Nat
  BY <1>1
<1> HIDE DEF w
<1>4. m <= Len(w)
  BY <1>1, <1>2
<1>5. m = Len(s) + n
  OBVIOUS
<1> HIDE DEF m
<1>6. /\ u \in Texts /\ Len(u) = IF 1 <= m THEN m - 1 + 1 ELSE 0
      /\ \A i \in 1..m - 1 + 1 : u[i] = w[1 + i - 1]
  BY <1>2, <1>3, <1>4, PartIs
<1>7. /\ p \in Texts /\ Len(p) = IF 1 <= n THEN n - 1 + 1 ELSE 0
      /\ \A i \in 1..n - 1 + 1 : p[i] = t[1 + i - 1]
  BY <1>3, PartIs
<1> HIDE DEF u, p
<1>8. Len(u) = m /\ Len(p) = n
  BY <1>3, <1>6, <1>7
<1>9. /\ v \in Texts /\ Len(v) = Len(s) + Len(p)
      /\ \A i \in 1..Len(s) + Len(p) : v[i] = IF i <= Len(s) THEN s[i] ELSE p[i - Len(s)]
  BY <1>7, JoinIs
<1> HIDE DEF v
<1>10. ASSUME NEW i \in 1..m PROVE u[i] = v[i]
  <2>1. /\ i \in 1..m - 1 + 1 /\ 1 + i - 1 = i /\ i \in 1..Len(s) + Len(t)
        /\ i \in 1..Len(s) + Len(p)
    BY <1>1, <1>3, <1>5, <1>8
  <2>2. u[i] = w[i]
    BY <1>6, <2>1
  <2>3. CASE i <= Len(s)
    BY <1>2, <1>9, <2>1, <2>2, <2>3
  <2>4. CASE ~ (i <= Len(s))
    <3>1. i - Len(s) \in 1..n - 1 + 1 /\ 1 + (i - Len(s)) - 1 = i - Len(s)
      BY <1>1, <1>5, <2>4
    <3>2. p[i - Len(s)] = t[i - Len(s)]
      BY <1>7, <3>1
    <3> QED
      BY <1>2, <1>9, <2>1, <2>2, <2>4, <3>2
  <2> QED
    BY <2>3, <2>4
<1>11. Len(v) = m
  BY <1>5, <1>8, <1>9
<1>12. u = v
  BY <1>6, <1>8, <1>9, <1>10, <1>11, SameText
<1> QED
  BY <1>12 DEF u, v, w, p, m

\* A text is cut short in its last line.
CutInLine(z, base, name, v) ==
  \/ z = base
  \/ z = base \o <<name>>
  \/ \E j \in 0..Len(v), w \in Texts : PartOf(w, v, 1, j) /\ z = base \o (<<name, "=">> \o w)

\* A beginning of the file that stops within its last line.
LEMMA CutIsInLine ==
  ASSUME NEW base \in Texts, NEW name \in Names, NEW v \in Texts,
         NEW n \in Len(base)..Len(base \o Line(name, v)) - 1
  PROVE  CutInLine(SubSeq(base \o Line(name, v), 1, n), base, name, v)
<1> DEFINE h == <<name, "=">>
    e == <<"nl">>
    line == Line(name, v)
    k == n - Len(base)
    p == SubSeq(line, 1, k)
<1>1. name \in Tokens /\ "=" \in Tokens /\ "nl" \in Tokens
  BY MarksAreTokens
<1>2. h \in Texts /\ Len(h) = 2 /\ h[1] = name
  BY <1>1 DEF Texts
<1>3. e \in Texts /\ Len(e) = 1
  BY <1>1, WordIsText
<1>4. Len(base) \in Nat /\ Len(v) \in Nat
  BY TextFacts
<1>5. line = (h \o v) \o e /\ line \in Texts
  BY LineIsText DEF Line
<1> HIDE DEF h, e, line
<1>6. h \o v \in Texts /\ Len(h \o v) = Len(h) + Len(v)
  BY <1>2, JoinIs
<1>7. Len(line) = Len(v) + 3
  <2>1. Len((h \o v) \o e) = Len(h \o v) + Len(e)
    BY <1>3, <1>6, JoinIs
  <2> QED
    BY <1>2, <1>3, <1>4, <1>5, <1>6, <2>1
<1>8. Len(base \o line) = Len(base) + Len(line)
  BY <1>5, JoinIs
<1>9. k \in 0..Len(v) + 2 /\ k \in 0..Len(line) /\ n = Len(base) + k
  BY <1>4, <1>7, <1>8 DEF line
<1> HIDE DEF k
<1>10. SubSeq(base \o line, 1, n) = base \o p
  BY <1>5, <1>9, BeginningAfter
<1>11. p = SubSeq(h \o v, 1, k)
  <2>1. k \in 0..Len(h \o v)
    BY <1>2, <1>4, <1>6, <1>9
  <2> QED
    BY <1>3, <1>5, <1>6, <2>1, BeginningOfJoin
<1> HIDE DEF p
<1>12. CASE k = 0
  <2>1. p = <<>>
    BY <1>11, <1>12
  <2>2. base \o p = base
    BY <2>1 DEF Texts
  <2> QED
    BY <1>10, <2>2 DEF CutInLine, line
<1>13. CASE k = 1
  <2>1. 1 \in 0..Len(h)
    BY <1>2
  <2>2. p = SubSeq(h, 1, 1)
    BY <1>2, <1>11, <1>13, <2>1, BeginningOfJoin
  <2>3. SubSeq(h, 1, 1) = <<name>>
    <3> DEFINE g == SubSeq(h, 1, 1)
        c == <<name>>
    <3>1. 1 \in Nat /\ 1 \in Int /\ 1 >= 1 /\ 1 <= Len(h)
      BY <1>2
    <3>2. /\ g \in Texts /\ Len(g) = IF 1 <= 1 THEN 1 - 1 + 1 ELSE 0
          /\ \A i \in 1..1 - 1 + 1 : g[i] = h[1 + i - 1]
      BY <1>2, <3>1, PartIs
    <3>3. c \in Texts /\ Len(c) = 1 /\ c[1] = name
      BY <1>1, WordIsText
    <3> HIDE DEF g, c
    <3>4. Len(g) = 1 /\ g[1] = h[1]
      BY <3>2
    <3>5. \A i \in 1..Len(g) : g[i] = c[i]
      BY <1>2, <3>3, <3>4
    <3>6. g = c
      BY <3>2, <3>3, <3>4, <3>5, SameText
    <3> QED
      BY <3>6 DEF g, c
  <2> QED
    BY <1>10, <2>2, <2>3 DEF CutInLine, line
<1>14. CASE k >= 2
  <2> DEFINE j == k - 2
      w == SubSeq(v, 1, j)
  <2>1. j \in 0..Len(v) /\ k = Len(h) + j
    BY <1>2, <1>4, <1>9, <1>14
  <2>2. j \in Nat /\ 1 \in Nat /\ 1 >= 1 /\ j <= Len(v) /\ j \in Int
    BY <1>4, <2>1
  <2> HIDE DEF j
  <2>3. p = h \o w
    BY <1>2, <1>11, <2>1, BeginningAfter
  <2>4. w \in Texts
    BY <2>2, PartIs
  <2>5. PartOf(w, v, 1, j)
    BY <2>2 DEF PartOf
  <2> HIDE DEF w
  <2> QED
    BY <1>10, <2>1, <2>3, <2>4, <2>5 DEF CutInLine, line, h
<1> QED
  BY <1>9, <1>12, <1>13, <1>14

\* What parseDotEnv makes of it
CutRead(parsed, values, names, name, v) ==
  \/ parsed = Broken
  \/ /\ parsed \in Values
     /\ \A n \in Names \ {name} : parsed[n] = IF n \in names THEN ValuesRead(values)[n] ELSE <<>>
     /\ \/ parsed[name] = <<>>
        \/ \E j \in 0..Len(v), w \in Texts :
             PartOf(w, v, 1, j) /\ ~ Opens(Trim(w)) /\ parsed[name] = Content(Trim(w))

\* What is read of such a beginning: the lines before, and of the last one an error,
\* nothing, or a beginning of its value.
LEMMA CutIsRead ==
  ASSUME NEW base, NEW values, NEW names, HasRead(base, values, names),
         NEW name \in Names \ names, NEW v \in Texts, \A i \in 1..Len(v) : v[i] # "nl",
         NEW z, CutInLine(z, base, name, v)
  PROVE  CutRead(Parse(z), values, names, name, v)
<1>1. base \in Texts /\ Between(base)
  BY DEF HasRead
<1>2. \A n \in Names : Read(base).values[n] = IF n \in names THEN ValuesRead(values)[n] ELSE <<>>
  BY DEF HasRead
<1>3. CASE z = base
  <2>1. Parse(z) = Read(base).values /\ Parse(z) \in Values
    BY <1>1, <1>3, NoLine
  <2> QED
    BY <1>2, <2>1 DEF CutRead
<1>4. CASE z = base \o <<name>>
  <2>1. Parse(z) = Broken
    BY <1>1, <1>4, NameOnly
  <2> QED
    BY <2>1 DEF CutRead
<1>5. ASSUME NEW j \in 0..Len(v), NEW w \in Texts, PartOf(w, v, 1, j),
             z = base \o (<<name, "=">> \o w)
      PROVE  CutRead(Parse(z), values, names, name, v)
  <2> DEFINE parsed == Parse(z)
  <2>1. \A i \in 1..Len(w) : w[i] # "nl"
    <3>1. Len(v) \in Nat /\ 1 \in Nat /\ 1 >= 1 /\ j \in Int /\ j <= Len(v) /\ w = SubSeq(v, 1, j)
      BY <1>5, TextFacts DEF PartOf
    <3>2. /\ Len(w) = IF 1 <= j THEN j - 1 + 1 ELSE 0
          /\ \A i \in 1..j - 1 + 1 : w[i] = v[1 + i - 1]
      BY <3>1, PartIs
    <3>3. \A i \in 1..Len(w) : i \in 1..Len(v) /\ w[i] = v[i]
      BY <3>1, <3>2
    <3> QED
      BY <3>3
  <2>2. parsed = Parse(base \o (<<name, "=">> \o w))
    BY <1>5
  <2> HIDE DEF parsed
  <2>3. /\ Opens(Trim(w)) => parsed = Broken
        /\ ~ Opens(Trim(w)) =>
             /\ parsed \in Values
             /\ \A n \in Names : parsed[n] = IF n = name THEN Content(Trim(w))
                                             ELSE Read(base).values[n]
    BY <1>1, <2>1, <2>2, PartLine
  <2>4. CASE Opens(Trim(w))
    BY <2>3, <2>4 DEF CutRead, parsed
  <2>5. CASE ~ Opens(Trim(w))
    <3>1. parsed \in Values /\ parsed[name] = Content(Trim(w))
      BY <2>3, <2>5
    <3>2. \A n \in Names \ {name} : parsed[n] = IF n \in names THEN ValuesRead(values)[n] ELSE <<>>
      BY <1>2, <2>3, <2>5
    <3>3. CutRead(parsed, values, names, name, v)
      BY <1>5, <2>5, <3>1, <3>2 DEF CutRead
    <3> QED
      BY <3>3 DEF parsed
  <2> QED
    BY <2>4, <2>5
<1> QED
  BY <1>3, <1>4, <1>5 DEF CutInLine

\* What parseDotEnv makes of a save that was cut short: there is no key, or the
\* lines before it are read, and a beginning of it at least.
TornRead(parsed, values) ==
  \/ parsed = Broken
  \/ /\ parsed \in Values
     /\ \/ parsed["PUBLIC_KEY"] = <<>>
        \/ /\ parsed["PORT"] = Trim(PortText(values))
           /\ parsed["DEVICE_ID"] = Trim(DeviceText(values))
           /\ \E i \in 0..Len(Reread(values["PUBLIC_KEY"])) :
                parsed["PUBLIC_KEY"] = SubSeq(Reread(values["PUBLIC_KEY"]), 1, i)

\* Before the line of the key there is no key.
LEMMA TornBeforeKey ==
  ASSUME NEW parsed, NEW values, NEW names, NEW name \in Names, NEW v,
         CutRead(parsed, values, names, name, v),
         "PUBLIC_KEY" \notin names, name # "PUBLIC_KEY"
  PROVE  TornRead(parsed, values)
<1>1. "PUBLIC_KEY" \in Names \ {name}
  BY DEF Names
<1> QED
  BY <1>1 DEF CutRead, TornRead

\* After it there is the key.
LEMMA TornAfterKey ==
  ASSUME NEW parsed, NEW values \in Values, NEW names, NEW name \in Names, NEW v,
         CutRead(parsed, values, names, name, v),
         {"PORT", "DEVICE_ID", "PUBLIC_KEY"} \subseteq names, name \notin names
  PROVE  TornRead(parsed, values)
<1> DEFINE Y == Reread(values["PUBLIC_KEY"])
<1>1. {"PORT", "DEVICE_ID", "PUBLIC_KEY"} \subseteq Names \ {name}
  BY DEF Names
<1>2. /\ ValuesRead(values)["PORT"] = Trim(PortText(values))
      /\ ValuesRead(values)["DEVICE_ID"] = Trim(DeviceText(values))
      /\ ValuesRead(values)["PUBLIC_KEY"] = Y
  BY <1>1 DEF ValuesRead, NoValues
<1>3. Y \in Texts
  BY SavedTexts, RereadIs
<1> HIDE DEF Y
<1>4. Len(Y) \in 0..Len(Y) /\ SubSeq(Y, 1, Len(Y)) = Y
  BY <1>3, TextFacts DEF Texts
<1>5. CASE parsed # Broken
  <2>1. /\ parsed \in Values
        /\ parsed["PORT"] = Trim(PortText(values))
        /\ parsed["DEVICE_ID"] = Trim(DeviceText(values))
        /\ parsed["PUBLIC_KEY"] = Y
    BY <1>1, <1>2, <1>5 DEF CutRead
  <2> QED
    BY <1>4, <2>1 DEF TornRead, Y
<1> QED
  BY <1>5 DEF TornRead

\* In it there is a beginning of the key.
LEMMA TornInKey ==
  ASSUME NEW parsed, NEW values \in Values,
         CutRead(parsed, values, {"PORT", "DEVICE_ID"}, "PUBLIC_KEY",
                 InQuotes(WrittenKey(values["PUBLIC_KEY"])))
  PROVE  TornRead(parsed, values)
<1> DEFINE X == WrittenKey(values["PUBLIC_KEY"])
    Y == Reread(values["PUBLIC_KEY"])
<1>1. X \in Texts /\ Y = Unescape(X)
  BY SavedTexts, RereadIs DEF Reread
<1>2. {"PORT", "DEVICE_ID"} \subseteq Names \ {"PUBLIC_KEY"} /\ "PUBLIC_KEY" \in Names
  BY DEF Names
<1>3. /\ ValuesRead(values)["PORT"] = Trim(PortText(values))
      /\ ValuesRead(values)["DEVICE_ID"] = Trim(DeviceText(values))
  BY <1>2 DEF ValuesRead, NoValues
<1>4. Len(InQuotes(X)) = Len(X) + 2 /\ Len(Y) = Len(X)
  BY <1>1, InQuotesIs, UnescapeIs
<1> HIDE DEF X, Y
<1>5. CASE parsed # Broken /\ parsed["PUBLIC_KEY"] # <<>>
  <2>1. /\ parsed \in Values
        /\ parsed["PORT"] = Trim(PortText(values))
        /\ parsed["DEVICE_ID"] = Trim(DeviceText(values))
    BY <1>2, <1>3, <1>5 DEF CutRead
  <2>2. PICK j \in 0..Len(InQuotes(X)), w \in Texts :
          PartOf(w, InQuotes(X), 1, j) /\ ~ Opens(Trim(w)) /\ parsed["PUBLIC_KEY"] = Content(Trim(w))
    BY <1>5 DEF CutRead, X
  <2>3. j \in 0..Len(X) + 2
    BY <1>4, <2>2
  <2>4. PICK i \in 0..Len(X) : Content(Trim(w)) = Unescape(SubSeq(X, 1, i))
    BY <1>1, <1>5, <2>2, <2>3, InQuotesPart
  <2>5. parsed["PUBLIC_KEY"] = SubSeq(Y, 1, i) /\ i \in 0..Len(Y)
    BY <1>1, <1>4, <2>2, <2>4, UnescapePart
  <2> QED
    BY <2>1, <2>5 DEF TornRead, Y
<1>6. CASE parsed # Broken /\ parsed["PUBLIC_KEY"] = <<>>
  <2>1. parsed \in Values
    BY <1>6 DEF CutRead
  <2> QED
    BY <1>6, <2>1 DEF TornRead
<1> QED
  BY <1>5, <1>6 DEF TornRead

\* What is read of any proper beginning of a saved file.
LEMMA TornParses ==
  ASSUME NEW values \in Values, Clean(values), NEW n \in 0..Len(Save(values)) - 1
  PROVE  TornRead(Parse(SubSeq(Save(values), 1, n)), values)
<1> DEFINE key == InQuotes(WrittenKey(values["PUBLIC_KEY"]))
    Torn(text) == TornRead(Parse(SubSeq(text, 1, n)), values)
<1>1. {"PORT", "DEVICE_ID", "PUBLIC_KEY", "CLOCK_SKEW_SECONDS", "MAX_BODY_BYTES",
       "ENABLE_NOTIFICATIONS"} \subseteq Names
  BY DEF Names
<1>2. key \in Texts /\ \A i \in 1..Len(key) : key[i] # "nl"
  BY SavedTexts, RereadIs, RereadPlain, InQuotesIs, InQuotesRead
<1>3. /\ \A i \in 1..Len(PortText(values)) : PortText(values)[i] # "nl"
      /\ \A i \in 1..Len(DeviceText(values)) : DeviceText(values)[i] # "nl"
      /\ \A i \in 1..Len(SkewText(values)) : SkewText(values)[i] # "nl"
      /\ \A i \in 1..Len(SizeText(values)) : SizeText(values)[i] # "nl"
      /\ \A i \in 1..Len(NotifyText(values)) : NotifyText(values)[i] # "nl"
  BY SavedTexts, PlainIs DEF Clean
<1>4. /\ FirstLine(values) \in Texts /\ TwoLines(values) \in Texts
      /\ ThreeLines(values) \in Texts /\ FourLines(values) \in Texts
      /\ FiveLines(values) \in Texts
  BY LinesRead DEF HasRead
<1>5. <<>> \in Texts /\ Len(<<>>) = 0
  BY EmptyIsText
<1>6. /\ Line("PORT", PortText(values)) \in Texts
      /\ Line("DEVICE_ID", DeviceText(values)) \in Texts
      /\ Line("PUBLIC_KEY", key) \in Texts
      /\ Line("CLOCK_SKEW_SECONDS", SkewText(values)) \in Texts
      /\ Line("MAX_BODY_BYTES", SizeText(values)) \in Texts
      /\ Line("ENABLE_NOTIFICATIONS", NotifyText(values)) \in Texts
  BY <1>1, <1>2, SavedTexts, LineIsText
<1>7. n \in Nat
  BY TextFacts
<1>8. Len(FirstLine(values)) \in Nat /\ Len(TwoLines(values)) \in Nat
      /\ Len(ThreeLines(values)) \in Nat /\ Len(FourLines(values)) \in Nat
      /\ Len(FiveLines(values)) \in Nat
  BY <1>4, TextFacts
<1> HIDE DEF key, Torn
<1>9. n < Len(FirstLine(values)) => Torn(FirstLine(values))
  <2> SUFFICES ASSUME n < Len(FirstLine(values)) PROVE Torn(FirstLine(values))
    OBVIOUS
  <2>1. n \in Len(<<>>)..Len(<<>> \o Line("PORT", PortText(values))) - 1
    BY <1>5, <1>7, <1>8 DEF FirstLine
  <2>2. CutInLine(SubSeq(FirstLine(values), 1, n), <<>>, "PORT", PortText(values))
    BY <1>1, <1>5, <2>1, SavedTexts, CutIsInLine DEF FirstLine
  <2>3. HasRead(<<>>, values, {})
    BY NothingRead
  <2>4. CutRead(Parse(SubSeq(FirstLine(values), 1, n)), values, {}, "PORT", PortText(values))
    BY <1>1, <1>3, <2>2, <2>3, SavedTexts, CutIsRead
  <2> QED
    BY <1>1, <2>4, TornBeforeKey DEF Torn
<1>10. n < Len(TwoLines(values)) => Torn(TwoLines(values))
  <2>1. CASE n < Len(FirstLine(values))
    <3>1. n \in 0..Len(FirstLine(values))
      BY <1>7, <1>8, <2>1
    <3>2. SubSeq(TwoLines(values), 1, n) = SubSeq(FirstLine(values), 1, n)
      BY <1>4, <1>6, <3>1, BeginningOfJoin DEF TwoLines
    <3> QED
      BY <1>9, <2>1, <3>2 DEF Torn
  <2>2. ASSUME n >= Len(FirstLine(values)), n < Len(TwoLines(values)) PROVE Torn(TwoLines(values))
    <3>1. n \in Len(FirstLine(values))..Len(TwoLines(values)) - 1
      BY <1>7, <1>8, <2>2
    <3>2. CutInLine(SubSeq(TwoLines(values), 1, n), FirstLine(values), "DEVICE_ID", DeviceText(values))
      BY <1>1, <1>4, <3>1, SavedTexts, CutIsInLine DEF TwoLines
    <3>3. HasRead(FirstLine(values), values, {"PORT"}) /\ "DEVICE_ID" \notin {"PORT"}
      BY LinesRead
    <3>4. CutRead(Parse(SubSeq(TwoLines(values), 1, n)), values, {"PORT"}, "DEVICE_ID",
                  DeviceText(values))
      BY <1>1, <1>3, <3>2, <3>3, SavedTexts, CutIsRead
    <3> QED
      BY <1>1, <3>4, TornBeforeKey DEF Torn
  <2> QED
    BY <1>7, <1>8, <2>1, <2>2
<1>11. n < Len(ThreeLines(values)) => Torn(ThreeLines(values))
  <2>1. CASE n < Len(TwoLines(values))
    <3>1. n \in 0..Len(TwoLines(values))
      BY <1>7, <1>8, <2>1
    <3>2. SubSeq(ThreeLines(values), 1, n) = SubSeq(TwoLines(values), 1, n)
      BY <1>4, <1>6, <3>1, BeginningOfJoin DEF ThreeLines, key
    <3> QED
      BY <1>10, <2>1, <3>2 DEF Torn
  <2>2. ASSUME n >= Len(TwoLines(values)), n < Len(ThreeLines(values)) PROVE Torn(ThreeLines(values))
    <3>1. n \in Len(TwoLines(values))..Len(ThreeLines(values)) - 1
      BY <1>7, <1>8, <2>2
    <3>2. ThreeLines(values) = TwoLines(values) \o Line("PUBLIC_KEY", key)
      BY DEF ThreeLines, key
    <3>3. CutInLine(SubSeq(ThreeLines(values), 1, n), TwoLines(values), "PUBLIC_KEY", key)
      BY <1>1, <1>2, <1>4, <3>1, <3>2, CutIsInLine
    <3>4. HasRead(TwoLines(values), values, {"PORT", "DEVICE_ID"})
          /\ "PUBLIC_KEY" \in Names \ {"PORT", "DEVICE_ID"}
      BY <1>1, LinesRead
    <3>5. CutRead(Parse(SubSeq(ThreeLines(values), 1, n)), values, {"PORT", "DEVICE_ID"},
                  "PUBLIC_KEY", key)
      BY <1>2, <3>3, <3>4, CutIsRead
    <3> QED
      BY <3>5, TornInKey DEF Torn, key
  <2> QED
    BY <1>7, <1>8, <2>1, <2>2
<1>12. n < Len(FourLines(values)) => Torn(FourLines(values))
  <2> DEFINE names == {"PORT", "DEVICE_ID", "PUBLIC_KEY"}
  <2>1. CASE n < Len(ThreeLines(values))
    <3>1. n \in 0..Len(ThreeLines(values))
      BY <1>7, <1>8, <2>1
    <3>2. SubSeq(FourLines(values), 1, n) = SubSeq(ThreeLines(values), 1, n)
      BY <1>4, <1>6, <3>1, BeginningOfJoin DEF FourLines
    <3> QED
      BY <1>11, <2>1, <3>2 DEF Torn
  <2>2. ASSUME n >= Len(ThreeLines(values)), n < Len(FourLines(values)) PROVE Torn(FourLines(values))
    <3>1. n \in Len(ThreeLines(values))..Len(FourLines(values)) - 1
      BY <1>7, <1>8, <2>2
    <3>2. CutInLine(SubSeq(FourLines(values), 1, n), ThreeLines(values), "CLOCK_SKEW_SECONDS",
                    SkewText(values))
      BY <1>1, <1>4, <3>1, SavedTexts, CutIsInLine DEF FourLines
    <3>3. HasRead(ThreeLines(values), values, names)
          /\ "CLOCK_SKEW_SECONDS" \in Names \ names
          /\ {"PORT", "DEVICE_ID", "PUBLIC_KEY"} \subseteq names
      BY <1>1, LinesRead
    <3> HIDE DEF names
    <3>4. CutRead(Parse(SubSeq(FourLines(values), 1, n)), values, names, "CLOCK_SKEW_SECONDS",
                  SkewText(values))
      BY <1>3, <3>2, <3>3, SavedTexts, CutIsRead
    <3> QED
      BY <3>3, <3>4, TornAfterKey DEF Torn
  <2> QED
    BY <1>7, <1>8, <2>1, <2>2
<1>13. n < Len(FiveLines(values)) => Torn(FiveLines(values))
  <2> DEFINE names == {"PORT", "DEVICE_ID", "PUBLIC_KEY", "CLOCK_SKEW_SECONDS"}
  <2>1. CASE n < Len(FourLines(values))
    <3>1. n \in 0..Len(FourLines(values))
      BY <1>7, <1>8, <2>1
    <3>2. SubSeq(FiveLines(values), 1, n) = SubSeq(FourLines(values), 1, n)
      BY <1>4, <1>6, <3>1, BeginningOfJoin DEF FiveLines
    <3> QED
      BY <1>12, <2>1, <3>2 DEF Torn
  <2>2. ASSUME n >= Len(FourLines(values)), n < Len(FiveLines(values)) PROVE Torn(FiveLines(values))
    <3>1. n \in Len(FourLines(values))..Len(FiveLines(values)) - 1
      BY <1>7, <1>8, <2>2
    <3>2. CutInLine(SubSeq(FiveLines(values), 1, n), FourLines(values), "MAX_BODY_BYTES",
                    SizeText(values))
      BY <1>1, <1>4, <3>1, SavedTexts, CutIsInLine DEF FiveLines
    <3>3. HasRead(FourLines(values), values, names)
          /\ "MAX_BODY_BYTES" \in Names \ names
          /\ {"PORT", "DEVICE_ID", "PUBLIC_KEY"} \subseteq names
      BY <1>1, LinesRead
    <3> HIDE DEF names
    <3>4. CutRead(Parse(SubSeq(FiveLines(values), 1, n)), values, names, "MAX_BODY_BYTES",
                  SizeText(values))
      BY <1>3, <3>2, <3>3, SavedTexts, CutIsRead
    <3> QED
      BY <3>3, <3>4, TornAfterKey DEF Torn
  <2> QED
    BY <1>7, <1>8, <2>1, <2>2
<1>14. Torn(AllLines(values))
  <2> DEFINE names == {"PORT", "DEVICE_ID", "PUBLIC_KEY", "CLOCK_SKEW_SECONDS", "MAX_BODY_BYTES"}
  <2>1. CASE n < Len(FiveLines(values))
    <3>1. n \in 0..Len(FiveLines(values))
      BY <1>7, <1>8, <2>1
    <3>2. SubSeq(AllLines(values), 1, n) = SubSeq(FiveLines(values), 1, n)
      BY <1>4, <1>6, <3>1, BeginningOfJoin DEF AllLines
    <3> QED
      BY <1>13, <2>1, <3>2 DEF Torn
  <2>2. CASE n >= Len(FiveLines(values))
    <3>1. n \in Len(FiveLines(values))..Len(AllLines(values)) - 1
      BY <1>7, <1>8, <2>2, SaveIs
    <3>2. CutInLine(SubSeq(AllLines(values), 1, n), FiveLines(values), "ENABLE_NOTIFICATIONS",
                    NotifyText(values))
      BY <1>1, <1>4, <3>1, SavedTexts, CutIsInLine DEF AllLines
    <3>3. HasRead(FiveLines(values), values, names)
          /\ "ENABLE_NOTIFICATIONS" \in Names \ names
          /\ {"PORT", "DEVICE_ID", "PUBLIC_KEY"} \subseteq names
      BY <1>1, LinesRead
    <3> HIDE DEF names
    <3>4. CutRead(Parse(SubSeq(AllLines(values), 1, n)), values, names, "ENABLE_NOTIFICATIONS",
                  NotifyText(values))
      BY <1>3, <3>2, <3>3, SavedTexts, CutIsRead
    <3> QED
      BY <3>3, <3>4, TornAfterKey DEF Torn
  <2> QED
    BY <1>7, <1>8, <2>1, <2>2
<1> QED
  BY <1>14, SaveIs DEF Torn

-----------------------------------------------------------------------------
\* The key InspectPublicKey finds is the first word of a block.
LEMMA InspectAfter ==
  ASSUME NEW raw \in Texts, \A i \in 1..Len(raw) : raw[i] # "esc", OneBlock(raw),
         InspectPublicKey(raw) \in PublicKeys
  PROVE  After(raw, InspectPublicKey(raw))
<1> DEFINE T == Trim(raw)
    u == Stripped(T)
    k == InspectPublicKey(raw)
<1>1. k # NoKey /\ k # Panics
  BY OutcomesAssumption
<1>2. T # <<>> /\ u # Panics /\ k = Pem(u, PublicKeys)
  BY <1>1, InspectPlain
<1>3. PICK p, q : Cut(u, raw, p, q)
  BY <1>2, StrippedTrimmed
<1>4. u \in Texts /\ OneBlock(u)
  BY <1>3, CutTyped, OneBlockCut
<1>5. p \in Nat /\ q \in Nat /\ p >= 1 /\ q <= Len(raw) /\ u = SubSeq(raw, p, q)
  BY <1>3 DEF Cut
<1> HIDE DEF T, u, k
<1>6. PICK a, b, c : KeyAt(u, PublicKeys, a, b, c) /\ Pem(u, PublicKeys) = u[b]
  BY <1>1, <1>2, <1>4, PemFound
<1>7. After(raw, u[b])
  BY <1>5, <1>6, KeyIsAfter
<1> QED
  BY <1>2, <1>6, <1>7 DEF k

\* A key in a beginning of the text that is read is the key that was written.
LEMMA TornKey ==
  ASSUME NEW key \in Texts, Regular(Trim(key)), InspectPublicKey(key) \in PublicKeys,
         NEW i \in 0..Len(Reread(key)), NEW z, z = SubSeq(Reread(key), 1, i),
         InspectPublicKey(z) \in PublicKeys
  PROVE  InspectPublicKey(z) = InspectPublicKey(key)
<1> DEFINE Y == Reread(key)
<1>1. Y \in Texts /\ Regular(Y) /\ \A j \in 1..Len(Y) : Y[j] # "esc"
  BY RereadIs, RegularReread, RereadPlain
<1>2. InspectPublicKey(Y) = InspectPublicKey(key)
  BY KeyReread
<1>3. OneBlock(Y)
  BY <1>1, RegularIs
<1>4. Len(Y) \in Nat /\ 1 \in Nat /\ 1 >= 1 /\ i \in Int /\ i \in Nat /\ i <= Len(Y)
  BY <1>1, TextFacts
<1>5. z = SubSeq(Y, 1, i)
  OBVIOUS
<1> HIDE DEF Y
<1>6. z \in Texts /\ Len(z) = i /\ \A j \in 1..i : z[j] = Y[j]
  <2> DEFINE w == SubSeq(Y, 1, i)
  <2>1. /\ w \in Texts /\ Len(w) = IF 1 <= i THEN i - 1 + 1 ELSE 0
        /\ \A j \in 1..i - 1 + 1 : w[j] = Y[1 + j - 1]
    BY <1>1, <1>4, PartIs
  <2> HIDE DEF w
  <2>2. w \in Texts /\ Len(w) = i /\ \A j \in 1..i : w[j] = Y[j]
    BY <1>4, <2>1
  <2> QED
    BY <1>5, <2>2 DEF w
<1>7. \A j \in 1..Len(z) : j \in 1..Len(Y) /\ z[j] = Y[j]
  BY <1>4, <1>6
<1>8. OneBlock(z) /\ \A j \in 1..Len(z) : z[j] # "esc"
  BY <1>1, <1>3, <1>7 DEF OneBlock
<1>9. After(z, InspectPublicKey(z))
  BY <1>6, <1>8, InspectAfter
<1>10. PICK a, b \in 1..Len(z) :
         /\ a < b /\ z[a] \in Begins /\ z[b] = InspectPublicKey(z)
         /\ \A j \in a + 1..b - 1 : z[j] \in Blanks
  BY <1>9 DEF After
<1>11. \A j \in a + 1..b - 1 : j \in 1..Len(z)
  BY <1>6, <1>10
<1>12. After(Y, InspectPublicKey(z))
  <2>1. a \in 1..Len(Y) /\ b \in 1..Len(Y) /\ Y[a] = z[a] /\ Y[b] = z[b]
    BY <1>7, <1>10
  <2>2. \A j \in a + 1..b - 1 : Y[j] \in Blanks
    BY <1>7, <1>10, <1>11
  <2> QED
    BY <1>10, <2>1, <2>2 DEF After
<1>13. After(Y, InspectPublicKey(key))
  BY <1>1, <1>2, <1>3, InspectAfter
<1>14. \A k \in PublicKeys : k \notin Blanks
  BY WordsAssumption, MarksDiffer
<1> QED
  BY <1>1, <1>3, <1>12, <1>13, <1>14, OneAfter

\* A key whose ends are written as they are does not become a lone quote.
LEMMA RereadNoPanic ==
  ASSUME NEW key \in Texts, InspectPublicKey(key) # Panics,
         Trim(key) # <<>> => {Head(Trim(key)), Last(Trim(key))} \cap {"esc", "escr"} = {}
  PROVE  InspectPublicKey(Reread(key)) # Panics
<1> DEFINE K == Trim(key)
    U == Unescape(K)
    Y == Reread(key)
<1>1. K \in Texts /\ Y \in Texts /\ Len(Y) \in Nat /\ Len(K) \in Nat
  BY TrimShape, RereadIs, TextFacts
<1>2. \A i \in 1..Len(Y) : Y[i] # "esc"
  BY RereadPlain
<1>3. SUFFICES ASSUME Trim(Y) # <<>> PROVE Stripped(Trim(Y)) # Panics
  <2>1. CASE Trim(Y) = <<>>
    BY <1>1, <1>2, <2>1, InspectPlain, OutcomesAssumption
  <2>2. CASE Trim(Y) # <<>> /\ Stripped(Trim(Y)) # Panics
    <3>1. Trim(Y) \in Texts
      BY <1>1, TrimShape
    <3>2. Stripped(Trim(Y)) \in Texts
      BY <2>2, <3>1, StrippedIs
    <3>3. Pem(Stripped(Trim(Y)), PublicKeys) \in PublicKeys \cup {NoKey}
      BY <3>2, PemTyped
    <3>4. InspectPublicKey(Y) = Pem(Stripped(Trim(Y)), PublicKeys)
      BY <1>1, <1>2, <2>2, InspectPlain
    <3> QED
      BY <3>3, <3>4, OutcomesAssumption
  <2> QED
    BY <2>1, <2>2
<1>4. PICK m : RereadFrom(m, key)
  BY RereadIs
<1>5. \A i \in 1..Len(Y) : m[i] \in 1..Len(K) /\ Y[i] = U[m[i]]
  BY <1>4 DEF RereadFrom
<1>6. K # <<>>
  <2> SUFFICES ASSUME K = <<>> PROVE FALSE
    OBVIOUS
  <2>1. Len(K) = 0
    BY <1>1, TextFacts
  <2>2. Len(Y) = 0
    BY <1>1, <1>5, <2>1
  <2>3. Trim(Y) = <<>>
    BY <1>1, <2>2, TrimOfBlanks
  <2> QED
    BY <1>3, <2>3
<1>7. Len(Y) >= 1 /\ Len(K) >= 1 /\ m[1] = 1 /\ m[Len(Y)] = Len(K)
  BY <1>4, <1>6, RereadEnds
<1>8. K[1] \notin Blanks /\ K[Len(K)] \notin Blanks
  BY <1>6, TrimEnds
<1>9. {K[1], K[Len(K)]} \cap {"esc", "escr"} = {}
  BY <1>1, <1>6, InnerIs
<1>10. /\ Len(U) = Len(K)
       /\ \A i \in 1..Len(K) : U[i] = CASE K[i] = "esc" -> "nl" [] K[i] = "escr" -> "cr"
                                        [] OTHER -> K[i]
  BY <1>1, UnescapeIs
<1>11. InspectPublicKey(key) = Panics <=> Stripped(K) = Panics
  <2>1. CASE Stripped(K) = Panics
    BY <1>6, <2>1 DEF InspectPublicKey
  <2>2. CASE Stripped(K) # Panics
    BY <2>2, InspectPublicKey(key) # Panics
  <2> QED
    BY <2>1, <2>2
<1>12. ~ (Len(K) = 1 /\ K[1] \in Quotes)
  BY <1>1, <1>11, StrippedIs
<1> HIDE DEF K, U, Y
<1>13. 1 \in 1..Len(K) /\ Len(K) \in 1..Len(K) /\ 1 \in 1..Len(Y) /\ Len(Y) \in 1..Len(Y)
  BY <1>1, <1>7
<1>14. Y[1] = K[1] /\ Y[Len(Y)] = K[Len(K)]
  <2>1. Y[1] = U[1] /\ Y[Len(Y)] = U[Len(K)]
    BY <1>5, <1>7, <1>13
  <2>2. K[1] # "esc" /\ K[1] # "escr" /\ K[Len(K)] # "esc" /\ K[Len(K)] # "escr"
    BY <1>9
  <2>3. U[1] = K[1]
    BY <1>10, <1>13, <2>2
  <2>4. U[Len(K)] = K[Len(K)]
    BY <1>10, <1>13, <2>2
  <2> QED
    BY <2>1, <2>3, <2>4
<1>15. Trim(Y) = Y
  <2>1. Y # <<>>
    BY <1>1, <1>7, TextFacts
  <2> QED
    BY <1>1, <1>8, <1>14, <2>1, TrimKeeps
<1>16. ~ (Len(Y) = 1 /\ Y[1] \in Quotes)
  BY <1>7, <1>12, <1>14
<1> QED
  BY <1>1, <1>15, <1>16, StrippedIs

-----------------------------------------------------------------------------
\* One word of a set of words is plain.
LEMMA OneIsPlain ==
  ASSUME NEW text \in Texts, NEW words, words \subseteq Words, IsOne(text, words)
  PROVE  text = <<text[1]>> /\ text[1] \in words /\ Trim(text) = text /\ Plain(text) /\ text # <<>>
<1>1. Len(text) = 1 /\ text[1] \in words /\ text[1] \in Words
  BY DEF IsOne
<1>2. <<text[1]>> \in Texts /\ Trim(<<text[1]>>) = <<text[1]>> /\ Plain(<<text[1]>>)
  BY <1>1, PlainWord
<1>3. Len(<<text[1]>>) = 1 /\ <<text[1]>>[1] = text[1]
  BY <1>1, WordIsText DEF Words
<1>4. text = <<text[1]>>
  BY <1>1, <1>2, <1>3, SameText
<1>5. text # <<>>
  BY <1>1, TextFacts
<1> QED
  BY <1>1, <1>2, <1>4, <1>5

\* A single word of a set is One of it.
LEMMA WordIsOne ==
  ASSUME NEW words, NEW x \in words, words \subseteq Words
  PROVE  IsOne(<<x>>, words) /\ <<x>>[1] = x /\ <<x>> \in Texts /\ <<x>> # <<>>
BY WordIsText DEF IsOne, Words

\* A plain text is plain without the blanks around it.
LEMMA PlainTrimmed ==
  ASSUME NEW text \in Texts, Plain(text)
  PROVE  Plain(Trim(text))
<1> DEFINE T == Trim(text)
<1>1. T \in Texts /\ Trim(T) = T
  BY TrimShape, TrimTwice
<1>2. \A i \in DOMAIN text : text[i] \notin {"nl", "cr"}
  BY DEF Plain
<1>3. \A i \in 1..Len(T) : T[i] \notin {"nl", "cr"}
  <2>1. CASE T = <<>>
    BY <2>1, EmptyIsText
  <2>2. CASE T # <<>>
    <3>1. PICK a, b \in 1..Len(text) :
            /\ a <= b /\ Len(T) = b - a + 1
            /\ \A i \in 1..b - a + 1 : T[i] = text[a + i - 1]
      BY <2>2, TrimShape
    <3>2. Len(text) \in Nat /\ DOMAIN text = 1..Len(text)
      BY TextFacts
    <3> HIDE DEF T
    <3>3. \A i \in 1..Len(T) : a + i - 1 \in 1..Len(text) /\ T[i] = text[a + i - 1]
      BY <3>1, <3>2
    <3> QED
      BY <1>2, <3>2, <3>3
  <2> QED
    BY <2>1, <2>2
<1>4. DOMAIN T = 1..Len(T)
  BY <1>1, TextFacts
<1>5. /\ \A i \in 2..Len(T) : T[i] = "#" => T[i - 1] # "sp"
      /\ T # <<>> => Head(T) \notin Quotes
  BY DEF Plain
<1> HIDE DEF T
<1>6. Plain(T)
  BY <1>1, <1>3, <1>4, <1>5 DEF Plain
<1> QED
  BY <1>6 DEF T

\* A file that can be read
LEMMA LoadIs ==
  ASSUME NEW text \in Texts
  PROVE  /\ Parse(text) = Broken => Load(text) = NoConfig
         /\ Parse(text) \in Values => Load(text) = LoadValues(Parse(text))
BY FileAssumption DEF Load
=============================================================================
