--------------------------- MODULE EnvFileProofs ---------------------------
(***************************************************************************)
(* What the parser of .env files does with every text: the positions of    *)
(* trimmed, joined, replaced and cut texts, the types of the parser, what  *)
(* a line or a run of lines makes it read, which names it leaves alone,    *)
(* and the key a text holds.  Read, Without and Joined are functions       *)
(* defined by recursion; what each of them yields is proved by induction   *)
(* on the length of the text (SetInduction), for sets of lengths.          *)
(***************************************************************************)
EXTENDS EnvFile, SequenceTheorems, WellFoundedInduction, TLAPS

\* Induction over the numbers, for a set and not for a predicate.
LEMMA SetInduction ==
  ASSUME NEW S, 0 \in S, \A n \in Nat : n \in S => n + 1 \in S
  PROVE  Nat \subseteq S
<1> SUFFICES ASSUME ~ Nat \subseteq S PROVE FALSE
  OBVIOUS
<1> DEFINE T == {n \in Nat : n \notin S}
<1>1. PICK m \in T : \A k \in T : ~ (<<k, m>> \in OpToRel(<, Nat))
  BY NatLessThanWellFounded, WFMin
<1>2. \A k \in T : ~ (k < m)
  BY <1>1 DEF OpToRel
<1>3. m \in Nat /\ m \notin S
  OBVIOUS
<1>4. m # 0 /\ m - 1 \in Nat /\ m - 1 < m
  BY <1>3
<1>5. m - 1 \in S
  BY <1>2, <1>4
<1> QED
  BY <1>3, <1>4, <1>5

\* A nonempty set of numbers has a least one.
LEMMA LeastIs ==
  ASSUME NEW S, S \subseteq Nat, S # {}
  PROVE  Min(S) \in S /\ \A y \in S : Min(S) <= y
<1>1. PICK m \in S : \A k \in S : ~ (<<k, m>> \in OpToRel(<, Nat))
  BY NatLessThanWellFounded, WFMin
<1>2. \A k \in S : k \in Nat /\ m \in Nat
  OBVIOUS
<1>3. \A k \in S : ~ (k < m)
  BY <1>1, <1>2 DEF OpToRel
<1>4. \A k \in S : m <= k
  BY <1>2, <1>3
<1> QED
  BY <1>4 DEF Min

\* A nonempty set of bounded numbers has a greatest one.
LEMMA GreatestIs ==
  ASSUME NEW n \in Nat, NEW S, S \subseteq 1..n, S # {}
  PROVE  Max(S) \in S /\ \A y \in S : y <= Max(S)
<1> DEFINE T == {y \in 0..n : n - y \in S}
<1>1. PICK y \in S : TRUE
  OBVIOUS
<1>2. y \in 1..n
  OBVIOUS
<1>3. n - y \in 0..n /\ n - (n - y) \in S
  BY <1>2
<1>4. T \subseteq Nat /\ T # {}
  <2>1. n - y \in T
    BY <1>3
  <2>2. T \subseteq Nat
    OBVIOUS
  <2> HIDE DEF T
  <2> QED
    BY <2>1, <2>2
<1>5. Min(T) \in T /\ \A z \in T : Min(T) <= z
  BY <1>4, LeastIs
<1>6. \A z \in S : n - z \in T
  <2> TAKE z \in S
  <2>1. z \in 1..n
    OBVIOUS
  <2>2. n - z \in 0..n /\ n - (n - z) \in S
    BY <2>1
  <2> QED
    BY <2>2
<1>7. n - Min(T) \in S /\ \A z \in S : z <= n - Min(T)
  BY <1>5, <1>6
<1> QED
  BY <1>7 DEF Max

\* The tokens the parser tells apart.
LEMMA MarksAreTokens ==
  /\ Blanks \subseteq Tokens /\ Quotes \subseteq Tokens /\ Begins \subseteq Tokens
  /\ {"sp", "cr", "nl", "dq", "sq", "begin", "beginPriv", "end", "endPriv",
      "#", "=", "esc", "escr"} \subseteq Tokens
  /\ Names \subseteq Tokens
BY FileAssumption DEF Marks, Blanks, Quotes, Begins

\* A function defined from its value one before: G[n] is the n-th step.
Iteration(f, V, v, N, G) ==
  f \in [0..N -> V] /\ f[0] = v /\ \A n \in 1..N : f[n] = G[n][f[n - 1]]

\* It exists, if the steps keep to V.
LEMMA Iterates ==
  ASSUME NEW V, NEW v \in V, NEW N \in Nat, NEW G,
         \A n \in 1..N : \A x \in V : G[n][x] \in V
  PROVE  \E f : Iteration(f, V, v, N, G)
<1> DEFINE Goes(n) ==
      \E f \in [0..n -> V] : f[0] = v /\ \A k \in 1..n : f[k] = G[k][f[k - 1]]
    S == {n \in Nat : n <= N => Goes(n)}
<1>1. 0 \in S
  <2> DEFINE f == [k \in 0..0 |-> v]
  <2>1. f \in [0..0 -> V] /\ f[0] = v
    OBVIOUS
  <2>2. \A k \in 1..0 : f[k] = G[k][f[k - 1]]
    OBVIOUS
  <2> HIDE DEF f
  <2>3. Goes(0)
    BY <2>1, <2>2
  <2> QED
    BY <2>3
<1>2. ASSUME NEW n \in Nat, n \in S PROVE n + 1 \in S
  <2> SUFFICES ASSUME n + 1 <= N PROVE Goes(n + 1)
    OBVIOUS
  <2>1. Goes(n)
    BY <1>2
  <2>2. PICK f \in [0..n -> V] : f[0] = v /\ \A k \in 1..n : f[k] = G[k][f[k - 1]]
    BY <2>1
  <2> DEFINE g == [k \in 0..n + 1 |-> IF k = n + 1 THEN G[n + 1][f[n]] ELSE f[k]]
  <2>3. n + 1 \in 1..N /\ f[n] \in V
    OBVIOUS
  <2>5. G[n + 1][f[n]] \in V
    BY <2>3
  <2>6. g \in [0..n + 1 -> V]
    BY <2>5
  <2>7. g[0] = v
    BY <2>2
  <2>8. ASSUME NEW k \in 1..n + 1 PROVE g[k] = G[k][g[k - 1]]
    <3>1. CASE k = n + 1
      BY <3>1
    <3>2. CASE k # n + 1
      BY <3>2, <2>2
    <3> QED
      BY <3>1, <3>2
  <2> QED
    BY <2>6, <2>7, <2>8
<1>3. N \in S
  BY <1>1, <1>2, SetInduction
<1> QED
  BY <1>3 DEF Iteration

\* And there is one only.
LEMMA IteratesOnce ==
  ASSUME NEW N \in Nat, NEW f, NEW g, f[0] = g[0],
         \A n \in 1..N : f[n - 1] = g[n - 1] => f[n] = g[n]
  PROVE  \A n \in 0..N : f[n] = g[n]
<1> DEFINE S == {n \in Nat : n <= N => f[n] = g[n]}
<1>1. 0 \in S
  OBVIOUS
<1>2. ASSUME NEW n \in Nat, n \in S PROVE n + 1 \in S
  <2> SUFFICES ASSUME n + 1 <= N PROVE f[n + 1] = g[n + 1]
    OBVIOUS
  <2>1. n + 1 \in 1..N /\ (n + 1) - 1 = n /\ f[n] = g[n]
    BY <1>2
  <2> QED
    BY <2>1
<1>3. Nat \subseteq S
  BY <1>1, <1>2, SetInduction
<1> QED
  BY <1>3

-----------------------------------------------------------------------------
\* Trim keeps what lies between the first and the last token that is no blank.
LEMMA TrimIs ==
  ASSUME NEW text \in Texts, NEW a \in 1..Len(text), NEW b \in 1..Len(text),
         text[a] \notin Blanks, text[b] \notin Blanks,
         \A i \in 1..Len(text) : text[i] \notin Blanks => a <= i /\ i <= b
  PROVE  Trim(text) = SubSeq(text, a, b)
<1> DEFINE kept == {i \in DOMAIN text : text[i] \notin Blanks}
<1>1. Len(text) \in Nat /\ DOMAIN text = 1..Len(text)
  BY DEF Texts
<1>2. a \in kept /\ b \in kept /\ kept \subseteq 1..Len(text) /\ kept \subseteq Nat
  BY <1>1
<1>3. Min(kept) \in kept /\ \A y \in kept : Min(kept) <= y
  BY <1>2, LeastIs
<1>4. Max(kept) \in kept /\ \A y \in kept : y <= Max(kept)
  BY <1>1, <1>2, GreatestIs
<1>5. Min(kept) \in 1..Len(text) /\ Max(kept) \in 1..Len(text)
  BY <1>1, <1>3, <1>4
<1>6. a <= Min(kept) /\ Max(kept) <= b
  BY <1>3, <1>4, <1>5
<1>7. Min(kept) <= a /\ b <= Max(kept)
  BY <1>2, <1>3, <1>4
<1>8. Min(kept) = a /\ Max(kept) = b
  BY <1>1, <1>5, <1>6, <1>7
<1> QED
  BY <1>2, <1>8 DEF Trim

\* Of a text of blanks TrimSpace leaves nothing.
LEMMA TrimOfBlanks ==
  ASSUME NEW text \in Texts, \A i \in 1..Len(text) : text[i] \in Blanks
  PROVE  Trim(text) = <<>>
  BY DEF Trim, Texts

\* There are such two tokens, unless all are blanks.
LEMMA TrimBounds ==
  ASSUME NEW text \in Texts, NEW j \in 1..Len(text), text[j] \notin Blanks
  PROVE  \E a, b \in 1..Len(text) :
           /\ text[a] \notin Blanks /\ text[b] \notin Blanks
           /\ \A i \in 1..Len(text) : text[i] \notin Blanks => a <= i /\ i <= b
           /\ a <= b
<1> DEFINE kept == {i \in 1..Len(text) : text[i] \notin Blanks}
<1>1. Len(text) \in Nat
  BY DEF Texts
<1>2. j \in kept /\ kept \subseteq 1..Len(text) /\ kept \subseteq Nat
  BY <1>1
<1>3. Min(kept) \in kept /\ \A y \in kept : Min(kept) <= y
  BY <1>2, LeastIs
<1>4. Max(kept) \in kept /\ \A y \in kept : y <= Max(kept)
  BY <1>1, <1>2, GreatestIs
<1>5. \A i \in 1..Len(text) : text[i] \notin Blanks => Min(kept) <= i /\ i <= Max(kept)
  BY <1>3, <1>4
<1>6. Min(kept) <= Max(kept)
  BY <1>2, <1>3, <1>4
<1>7. /\ Min(kept) \in 1..Len(text) /\ Max(kept) \in 1..Len(text)
      /\ text[Min(kept)] \notin Blanks /\ text[Max(kept)] \notin Blanks
  BY <1>3, <1>4
<1> HIDE DEF kept
<1> QED
  BY <1>5, <1>6, <1>7

\* The shape of a trimmed text: nothing, or a part with no blank at its ends.
LEMMA TrimShape ==
  ASSUME NEW text \in Texts
  PROVE  /\ Trim(text) \in Texts
         /\ Trim(text) = <<>> <=> \A i \in 1..Len(text) : text[i] \in Blanks
         /\ Trim(text) # <<>> =>
              \E a, b \in 1..Len(text) :
                /\ a <= b /\ Trim(text) = SubSeq(text, a, b)
                /\ text[a] \notin Blanks /\ text[b] \notin Blanks
                /\ \A i \in 1..Len(text) : text[i] \notin Blanks => a <= i /\ i <= b
                /\ Len(Trim(text)) = b - a + 1
                /\ \A i \in 1..b - a + 1 : Trim(text)[i] = text[a + i - 1]
<1>1. CASE \A i \in 1..Len(text) : text[i] \in Blanks
  <2>1. Trim(text) = <<>> /\ <<>> \in Texts
    BY <1>1, TrimOfBlanks DEF Texts
  <2> QED
    BY <1>1, <2>1
<1>2. ASSUME NEW j \in 1..Len(text), text[j] \notin Blanks
      PROVE  /\ Trim(text) \in Texts /\ Trim(text) # <<>>
             /\ \E a, b \in 1..Len(text) :
                /\ a <= b /\ Trim(text) = SubSeq(text, a, b)
                /\ text[a] \notin Blanks /\ text[b] \notin Blanks
                /\ \A i \in 1..Len(text) : text[i] \notin Blanks => a <= i /\ i <= b
                /\ Len(Trim(text)) = b - a + 1
                /\ \A i \in 1..b - a + 1 : Trim(text)[i] = text[a + i - 1]
  <2>1. PICK a, b \in 1..Len(text) :
           /\ text[a] \notin Blanks /\ text[b] \notin Blanks
           /\ \A i \in 1..Len(text) : text[i] \notin Blanks => a <= i /\ i <= b
           /\ a <= b
    BY <1>2, TrimBounds
  <2>2. Trim(text) = SubSeq(text, a, b)
    BY <2>1, TrimIs
  <2>3. \A i \in a..b : text[i] \in Tokens
    BY <2>1 DEF Texts
  <2>4. /\ SubSeq(text, a, b) \in Seq(Tokens)
        /\ Len(SubSeq(text, a, b)) = b - a + 1
        /\ \A i \in 1..b - a + 1 : SubSeq(text, a, b)[i] = text[a + i - 1]
    BY <2>1, <2>3, SubSeqProperties
  <2>5. SubSeq(text, a, b) # <<>>
    BY <2>1, <2>4
  <2> QED
    BY <2>1, <2>2, <2>4, <2>5 DEF Texts
<1> QED
  BY <1>1, <1>2

\* A text with no blank at its ends is trimmed.
LEMMA TrimKeeps ==
  ASSUME NEW text \in Texts, text # <<>>,
         text[1] \notin Blanks, text[Len(text)] \notin Blanks
  PROVE  Trim(text) = text
<1>1. Len(text) \in Nat /\ Len(text) >= 1
  BY DEF Texts
<1>2. 1 \in 1..Len(text) /\ Len(text) \in 1..Len(text)
  BY <1>1
<1>3. \A i \in 1..Len(text) : 1 <= i /\ i <= Len(text)
  BY <1>1
<1>4. Trim(text) = SubSeq(text, 1, Len(text))
  BY <1>2, <1>3, TrimIs
<1> QED
  BY <1>4, SubSeqFull DEF Texts

\* Its ends, and that there is nothing more to trim.
LEMMA TrimEnds ==
  ASSUME NEW text \in Texts, Trim(text) # <<>>
  PROVE  /\ Trim(text)[1] \notin Blanks
         /\ Trim(text)[Len(Trim(text))] \notin Blanks
         /\ Len(Trim(text)) \in Nat /\ Len(Trim(text)) >= 1
<1>1. PICK a, b \in 1..Len(text) :
        /\ a <= b /\ text[a] \notin Blanks /\ text[b] \notin Blanks
        /\ Len(Trim(text)) = b - a + 1
        /\ \A i \in 1..b - a + 1 : Trim(text)[i] = text[a + i - 1]
  BY TrimShape
<1>2. Len(text) \in Nat
  BY DEF Texts
<1>3. 1 \in 1..b - a + 1 /\ b - a + 1 \in 1..b - a + 1
  BY <1>1, <1>2
<1>4. a + 1 - 1 = a /\ a + (b - a + 1) - 1 = b
  BY <1>2
<1>5. Trim(text)[1] = text[a] /\ Trim(text)[b - a + 1] = text[b]
  BY <1>1, <1>3, <1>4
<1> QED
  BY <1>1, <1>2, <1>5

\* Trimming twice is trimming once.
LEMMA TrimTwice ==
  ASSUME NEW text \in Texts
  PROVE  Trim(Trim(text)) = Trim(text)
<1>1. CASE Trim(text) = <<>>
  <2>1. <<>> \in Texts /\ Len(<<>>) = 0
    BY DEF Texts
  <2>2. Trim(<<>>) = <<>>
    BY <2>1, TrimOfBlanks
  <2> QED
    BY <1>1, <2>2
<1>2. CASE Trim(text) # <<>>
  <2>1. Trim(text) \in Texts
    BY TrimShape
  <2> QED
    BY <1>2, <2>1, TrimEnds, TrimKeeps
<1> QED
  BY <1>1, <1>2

-----------------------------------------------------------------------------
\* Parts of texts, and texts joined.
LEMMA PartIs ==
  ASSUME NEW text \in Texts, NEW m \in Nat, NEW n \in Int, m >= 1, n <= Len(text)
  PROVE  /\ SubSeq(text, m, n) \in Texts
         /\ Len(SubSeq(text, m, n)) = IF m <= n THEN n - m + 1 ELSE 0
         /\ \A i \in 1..n - m + 1 : SubSeq(text, m, n)[i] = text[m + i - 1]
<1>1. \A i \in m..n : text[i] \in Tokens
  BY DEF Texts
<1> QED
  BY <1>1, SubSeqProperties DEF Texts

\* The positions of two texts put together: those of the first, then those of the second.
LEMMA JoinIs ==
  ASSUME NEW s \in Texts, NEW t \in Texts
  PROVE  /\ s \o t \in Texts /\ Len(s \o t) = Len(s) + Len(t)
         /\ \A i \in 1..Len(s) + Len(t) :
              (s \o t)[i] = IF i <= Len(s) THEN s[i] ELSE t[i - Len(s)]
  BY ConcatProperties DEF Texts

\* Putting texts together is associative.
LEMMA JoinAssociates ==
  ASSUME NEW s \in Texts, NEW t \in Texts, NEW u \in Texts
  PROVE  (s \o t) \o u = s \o (t \o u)
  BY ConcatAssociative DEF Texts

(***************************************************************************)
(* Three texts may be joined in either order; Joined keeps the provers     *)
(* from rewriting one order to the other and back.                         *)
(***************************************************************************)
Joined(s, t, u) == s \o (t \o u) = (s \o t) \o u

\* It holds of all texts.
LEMMA JoinedAlways ==
  ASSUME NEW s \in Texts, NEW t \in Texts, NEW u \in Texts
  PROVE  Joined(s, t, u)
BY JoinAssociates DEF Joined

\* Texts of the same length with the same tokens are the same.
LEMMA SameText ==
  ASSUME NEW s \in Texts, NEW t \in Texts, Len(s) = Len(t),
         \A i \in 1..Len(s) : s[i] = t[i]
  PROVE  s = t
  BY SeqEqual DEF Texts

\* What lies between the first and the last token.
LEMMA InnerIs ==
  ASSUME NEW text \in Texts, text # <<>>
  PROVE  /\ Head(text) = text[1] /\ Last(text) = text[Len(text)]
         /\ Tail(text) \in Texts /\ Front(Tail(text)) \in Texts
         /\ Len(text) >= 2 => /\ Len(Front(Tail(text))) = Len(text) - 2
                              /\ \A i \in 1..Len(text) - 2 : Front(Tail(text))[i] = text[i + 1]
                              /\ Front(Tail(text)) = SubSeq(text, 2, Len(text) - 1)
<1>1. /\ Len(text) \in Nat /\ Len(text) >= 1
      /\ Head(text) = text[1] /\ Last(text) = text[Len(text)]
  BY DEF Texts, Last
<1> DEFINE n == Len(text)
    rest == Tail(text)
<1>2. /\ rest \in Texts /\ Len(rest) = n - 1
      /\ \A i \in 1..n - 1 : rest[i] = text[i + 1]
  BY HeadTailProperties DEF Texts
<1> HIDE DEF rest
<1> DEFINE
    u == SubSeq(rest, 1, n - 2)
    w == SubSeq(text, 2, n - 1)
<1>3. /\ u \in Texts
      /\ Len(u) = IF 1 <= n - 2 THEN (n - 2) - 1 + 1 ELSE 0
      /\ \A i \in 1..(n - 2) - 1 + 1 : u[i] = rest[1 + i - 1]
  BY <1>1, <1>2, PartIs
<1>4. /\ w \in Texts
      /\ Len(w) = IF 2 <= n - 1 THEN (n - 1) - 2 + 1 ELSE 0
      /\ \A i \in 1..(n - 1) - 2 + 1 : w[i] = text[2 + i - 1]
  BY <1>1, PartIs
<1>5. Front(rest) = u
  BY <1>1, <1>2 DEF Front
<1>6. ASSUME n >= 2
      PROVE  Len(u) = n - 2 /\ (\A i \in 1..n - 2 : u[i] = text[i + 1]) /\ u = w
  <2> HIDE DEF u, w
  <2>1. n \in Nat
    BY <1>1
  <2> HIDE DEF n
  <2>2. Len(u) = n - 2 /\ Len(w) = n - 2
    BY <1>3, <1>4, <1>6, <2>1
  <2>3. ASSUME NEW i \in 1..n - 2 PROVE u[i] = text[i + 1] /\ w[i] = text[i + 1]
    <3>1. /\ i \in 1..(n - 2) - 1 + 1 /\ i \in 1..(n - 1) - 2 + 1
          /\ 1 + i - 1 = i /\ 2 + i - 1 = i + 1 /\ i \in 1..n - 1
      BY <2>1
    <3>2. u[i] = rest[i] /\ w[i] = text[i + 1]
      BY <1>3, <1>4, <3>1
    <3>3. rest[i] = text[i + 1]
      BY <1>2, <3>1 DEF n
    <3> QED
      BY <3>2, <3>3
  <2> QED
    BY <1>3, <1>4, <2>2, <2>3, SameText
<1> HIDE DEF u, w
<1> QED
  BY <1>1, <1>2, <1>3, <1>5, <1>6 DEF w, rest

\* The first of some tokens.
LEMMA IndexIs ==
  ASSUME NEW text \in Texts, NEW tokens
  PROVE  /\ IndexOf(text, tokens) \in 0..Len(text)
         /\ IndexOf(text, tokens) = 0 <=> \A i \in 1..Len(text) : text[i] \notin tokens
         /\ IndexOf(text, tokens) # 0 =>
              /\ text[IndexOf(text, tokens)] \in tokens
              /\ \A i \in 1..Len(text) : text[i] \in tokens => IndexOf(text, tokens) <= i
<1> DEFINE found == {i \in DOMAIN text : text[i] \in tokens}
<1>1. Len(text) \in Nat /\ DOMAIN text = 1..Len(text)
  BY DEF Texts
<1>2. CASE found = {}
  <2>1. IndexOf(text, tokens) = 0
    BY <1>2 DEF IndexOf
  <2> QED
    BY <1>1, <1>2, <2>1
<1>3. CASE found # {}
  <2>1. found \subseteq Nat
    BY <1>1
  <2>2. Min(found) \in found /\ \A y \in found : Min(found) <= y
    BY <1>3, <2>1, LeastIs
  <2>3. IndexOf(text, tokens) = Min(found)
    BY <1>3 DEF IndexOf
  <2> QED
    BY <1>1, <2>2, <2>3
<1> QED
  BY <1>2, <1>3

\* A function on the first n positions with tokens for values is a text.
LEMMA FunctionIsText ==
  ASSUME NEW n \in Nat, NEW f \in [1..n -> Tokens]
  PROVE  f \in Texts /\ Len(f) = n
<1>1. f \in Seq(Tokens)
  BY SeqDef
<1>2. DOMAIN f = 1..Len(f) /\ Len(f) \in Nat /\ DOMAIN f = 1..n
  BY <1>1, LenProperties
<1>3. Len(f) = n
  BY <1>2
<1> QED
  BY <1>1, <1>3 DEF Texts

\* Replace puts one token for another at every position and leaves the rest.
LEMMA ReplaceIs ==
  ASSUME NEW text \in Texts, NEW from \in Tokens, NEW to \in Tokens
  PROVE  /\ Replace(text, from, to) \in Texts /\ Len(Replace(text, from, to)) = Len(text)
         /\ \A i \in 1..Len(text) :
              Replace(text, from, to)[i] = IF text[i] = from THEN to ELSE text[i]
<1>1. /\ Len(text) \in Nat /\ DOMAIN text = 1..Len(text)
      /\ \A i \in 1..Len(text) : text[i] \in Tokens
  BY DEF Texts
<1>2. /\ Replace(text, from, to) \in [1..Len(text) -> Tokens]
      /\ \A i \in 1..Len(text) :
           Replace(text, from, to)[i] = IF text[i] = from THEN to ELSE text[i]
  BY <1>1 DEF Replace
<1> QED
  BY <1>1, <1>2, FunctionIsText

\* Unescape works token by token.
LEMMA UnescapeIs ==
  ASSUME NEW text \in Texts
  PROVE  /\ Unescape(text) \in Texts /\ Len(Unescape(text)) = Len(text)
         /\ \A i \in 1..Len(text) :
              Unescape(text)[i] = CASE text[i] = "esc" -> "nl" [] text[i] = "escr" -> "cr"
                                    [] OTHER -> text[i]
<1> DEFINE u == Replace(text, "esc", "nl")
<1> "esc" \in Tokens /\ "nl" \in Tokens /\ "escr" \in Tokens /\ "cr" \in Tokens
  BY MarksAreTokens
<1>1. /\ u \in Texts /\ Len(u) = Len(text)
      /\ \A i \in 1..Len(text) : u[i] = IF text[i] = "esc" THEN "nl" ELSE text[i]
  BY ReplaceIs
<1>2. Unescape(text) = Replace(u, "escr", "cr")
  BY DEF Unescape
<1> HIDE DEF u
<1>3. /\ Replace(u, "escr", "cr") \in Texts /\ Len(Replace(u, "escr", "cr")) = Len(u)
      /\ \A i \in 1..Len(u) :
           Replace(u, "escr", "cr")[i] = IF u[i] = "escr" THEN "cr" ELSE u[i]
  <2>1. u \in Texts
    BY <1>1
  <2> QED
    BY <2>1, ReplaceIs
<1>4. ASSUME NEW i \in 1..Len(text)
      PROVE  Unescape(text)[i] = CASE text[i] = "esc" -> "nl" [] text[i] = "escr" -> "cr"
                                   [] OTHER -> text[i]
  <2>1. /\ Unescape(text)[i] = IF u[i] = "escr" THEN "cr" ELSE u[i]
        /\ u[i] = IF text[i] = "esc" THEN "nl" ELSE text[i]
    BY <1>1, <1>2, <1>3
  <2> QED
    BY <2>1
<1> QED
  BY <1>1, <1>2, <1>3, <1>4

\* What is left of a value once its comment is cut off is a text.
LEMMA UncommentedTyped ==
  ASSUME NEW text \in Texts
  PROVE  Uncommented(text) \in Texts
<1> DEFINE starts == {i \in 1..Len(text) - 1 : text[i] = "sp" /\ text[i + 1] = "#"}
<1>1. CASE starts = {}
  BY <1>1 DEF Uncommented
<1>2. CASE starts # {}
  <2>1. Len(text) \in Nat
    BY DEF Texts
  <2>2. starts \subseteq Nat
    BY <2>1
  <2>3. Min(starts) \in starts
    BY <1>2, <2>2, LeastIs
  <2>4. Min(starts) - 1 \in Int /\ Min(starts) - 1 <= Len(text)
    BY <2>1, <2>3
  <2>5. SubSeq(text, 1, Min(starts) - 1) \in Texts
    BY <2>4, PartIs
  <2>6. Trim(SubSeq(text, 1, Min(starts) - 1)) \in Texts
    BY <2>5, TrimShape
  <2> QED
    BY <1>2, <2>6 DEF Uncommented
<1> QED
  BY <1>1, <1>2

-----------------------------------------------------------------------------
\* What the parser's record holds.
Parsers == [values : Values, mode : {"plain", "quoted", "broken"}, name : Texts,
            quote : Quotes, text : Texts, line : Texts]

\* The empty text is one.
LEMMA EmptyIsText == <<>> \in Texts /\ Len(<<>>) = 0
  BY DEF Texts

\* One token is a text.
LEMMA WordIsText ==
  ASSUME NEW x \in Tokens
  PROVE  <<x>> \in Texts /\ Len(<<x>>) = 1 /\ <<x>>[1] = x
  BY DEF Texts

\* A text's length, positions and tokens.
LEMMA TextFacts ==
  ASSUME NEW text \in Texts
  PROVE  /\ Len(text) \in Nat /\ DOMAIN text = 1..Len(text)
         /\ \A i \in 1..Len(text) : text[i] \in Tokens
         /\ text = <<>> <=> Len(text) = 0
  BY DEF Texts

\* The parser stays one when it sets a name, and changes that name's value alone.
LEMMA SetTyped ==
  ASSUME NEW parser \in Parsers, NEW name, NEW value \in Texts
  PROVE  /\ Set(parser, name, value) \in Parsers
         /\ Set(parser, name, value).mode = "plain"
         /\ Set(parser, name, value).line = parser.line
         /\ \A n \in Names : Set(parser, name, value).values[n] =
                               IF name = <<n>> THEN value ELSE parser.values[n]
<1> DEFINE values == [n \in Names |-> IF name = <<n>> THEN value ELSE parser.values[n]]
<1>1. \A n \in Names : parser.values[n] \in Texts
  BY DEF Parsers, Values
<1>2. values \in Values /\ \A n \in Names : values[n] = IF name = <<n>> THEN value
                                                          ELSE parser.values[n]
  BY <1>1 DEF Values
<1>3. Set(parser, name, value) = [parser EXCEPT !.values = values, !.mode = "plain"]
  BY DEF Set, Parsers
<1> HIDE DEF values
<1>4. /\ [parser EXCEPT !.values = values, !.mode = "plain"] \in Parsers
      /\ [parser EXCEPT !.values = values, !.mode = "plain"].values = values
      /\ [parser EXCEPT !.values = values, !.mode = "plain"].mode = "plain"
      /\ [parser EXCEPT !.values = values, !.mode = "plain"].line = parser.line
  BY <1>2 DEF Parsers
<1> QED
  BY <1>2, <1>3, <1>4

\* The value a line gives is a text.
LEMMA ContentTyped ==
  ASSUME NEW value \in Texts
  PROVE  Content(value) \in Texts
<1>1. CASE value # <<>> /\ Head(value) \in Quotes
  <2>1. Front(Tail(value)) \in Texts
    BY <1>1, InnerIs
  <2>2. Unescape(Front(Tail(value))) \in Texts
    BY <2>1, UnescapeIs
  <2> QED
    BY <1>1, <2>1, <2>2 DEF Content, Unquoted
<1>2. CASE ~ (value # <<>> /\ Head(value) \in Quotes)
  BY <1>2, UncommentedTyped DEF Content
<1> QED
  BY <1>1, <1>2

\* A line between values leaves the parser a parser.
LEMMA AssignTyped ==
  ASSUME NEW parser \in Parsers, NEW line \in Texts
  PROVE  Assign(parser, line) \in Parsers
<1> DEFINE at == IndexOf(line, {"="})
    name == Trim(SubSeq(line, 1, at - 1))
    value == Trim(SubSeq(line, at + 1, Len(line)))
<1>1. at \in 0..Len(line) /\ Len(line) \in Nat
  BY IndexIs, TextFacts
<1>2. SubSeq(line, 1, at - 1) \in Texts
  BY <1>1, PartIs
<1>3. SubSeq(line, at + 1, Len(line)) \in Texts
  BY <1>1, PartIs
<1>4. name \in Texts /\ value \in Texts
  BY <1>2, <1>3, TrimShape
<1> HIDE DEF name, value
<1>5. CASE line = <<>> \/ Head(line) = "#"
  BY <1>5 DEF Assign
<1>6. CASE ~ (line = <<>> \/ Head(line) = "#") /\ at = 0
  <2>1. Assign(parser, line) = [parser EXCEPT !.mode = "broken"]
    BY <1>6 DEF Assign
  <2> QED
    BY <2>1 DEF Parsers
<1>7. CASE ~ (line = <<>> \/ Head(line) = "#") /\ at # 0 /\ Opens(value)
  <2>1. Assign(parser, line) = [parser EXCEPT !.mode = "quoted", !.name = name,
                                  !.quote = Head(value), !.text = Tail(value)]
    BY <1>7 DEF Assign, name, value
  <2>2. value # <<>> /\ Head(value) \in Quotes
    BY <1>7 DEF Opens
  <2>3. Tail(value) \in Texts
    BY <1>4, <2>2, InnerIs
  <2> QED
    BY <1>4, <2>1, <2>2, <2>3 DEF Parsers
<1>8. CASE ~ (line = <<>> \/ Head(line) = "#") /\ at # 0 /\ ~ Opens(value)
  <2>1. Assign(parser, line) = Set(parser, name, Content(value))
    BY <1>8 DEF Assign, name, value
  <2> QED
    BY <1>4, <2>1, ContentTyped, SetTyped
<1> QED
  BY <1>5, <1>6, <1>7, <1>8

\* So does a line inside a quoted value.
LEMMA ContinueTyped ==
  ASSUME NEW parser \in Parsers, NEW line \in Texts
  PROVE  Continue(parser, line) \in Parsers
<1> DEFINE trimmed == Trim(line)
    kept == IF line # <<>> /\ Last(line) = "cr" THEN Front(line) ELSE line
<1>1. trimmed \in Texts /\ parser.text \in Texts /\ <<"nl">> \in Texts
  BY TrimShape, MarksAreTokens, WordIsText DEF Parsers
<1>2. parser.text \o <<"nl">> \in Texts
  BY <1>1, JoinIs
<1>3. \A t \in Texts : Front(t) \in Texts
  <2> TAKE t \in Texts
  <2>1. Len(t) \in Nat
    BY TextFacts
  <2>2. SubSeq(t, 1, Len(t) - 1) \in Texts
    BY <2>1, PartIs
  <2> QED
    BY <2>2 DEF Front
<1>4. kept \in Texts
  BY <1>3
<1>5. \A t \in Texts : parser.text \o <<"nl">> \o t \in Texts
  BY <1>2, JoinIs
<1> HIDE DEF kept
<1>6. CASE trimmed # <<>> /\ Last(trimmed) = parser.quote
  <2> DEFINE whole == parser.text \o <<"nl">> \o Front(trimmed)
  <2>1. whole \in Texts
    BY <1>1, <1>3, <1>5
  <2>2. Unquoted(parser.quote, whole) \in Texts
    BY <2>1, UnescapeIs DEF Unquoted
  <2>3. Continue(parser, line) = Set(parser, parser.name, Unquoted(parser.quote, whole))
    BY <1>6 DEF Continue
  <2> QED
    BY <2>2, <2>3, SetTyped
<1>7. CASE ~ (trimmed # <<>> /\ Last(trimmed) = parser.quote)
  <2>1. Continue(parser, line) = [parser EXCEPT !.text = parser.text \o <<"nl">> \o kept]
    BY <1>7 DEF Continue, kept, Parsers
  <2>2. parser.text \o <<"nl">> \o kept \in Texts
    BY <1>4, <1>5
  <2> QED
    BY <2>1, <2>2 DEF Parsers
<1> QED
  BY <1>6, <1>7

\* So does the end of a line, and it leaves no line begun.
LEMMA EndLineTyped ==
  ASSUME NEW parser \in Parsers
  PROVE  EndLine(parser) \in Parsers /\ EndLine(parser).line = <<>>
<1> DEFINE next == CASE parser.mode = "plain" -> Assign(parser, Trim(parser.line))
                     [] parser.mode = "quoted" -> Continue(parser, parser.line)
                     [] OTHER -> parser
<1>1. parser.line \in Texts /\ Trim(parser.line) \in Texts
  BY TrimShape DEF Parsers
<1>2. Assign(parser, Trim(parser.line)) \in Parsers /\ Continue(parser, parser.line) \in Parsers
  BY <1>1, AssignTyped, ContinueTyped
<1>3. next \in Parsers
  BY <1>2
<1>4. EndLine(parser) = [next EXCEPT !.line = <<>>]
  BY DEF EndLine
<1> HIDE DEF next
<1> QED
  BY <1>3, <1>4, EmptyIsText DEF Parsers

\* The parser before its first token is one.
LEMMA StartTyped == Start \in Parsers
<1>1. NoValues \in Values
  BY EmptyIsText DEF NoValues, Values
<1> QED
  BY <1>1, EmptyIsText DEF Start, Parsers, Quotes

\* Each token leaves the parser a parser.
LEMMA ConsumeTyped ==
  ASSUME NEW parser \in Parsers, NEW token \in Tokens
  PROVE  Consume(parser, token) \in Parsers
<1>1. parser.line \in Seq(Tokens)
  BY DEF Parsers, Texts
<1>2. Append(parser.line, token) \in Texts
  BY <1>1, AppendProperties DEF Texts
<1>3. CASE token = "nl"
  BY <1>3, EndLineTyped DEF Consume
<1>4. CASE token # "nl"
  <2>1. Consume(parser, token) = [parser EXCEPT !.line = Append(parser.line, token)]
    BY <1>4 DEF Consume, Parsers
  <2> QED
    BY <1>2, <2>1 DEF Parsers
<1> QED
  BY <1>3, <1>4

\* The parser after each token of a text: Read's function exists.
LEMMA ReadTurns ==
  ASSUME NEW text \in Texts
  PROVE  \E f \in [0..Len(text) -> Parsers] :
           /\ f[0] = Start
           /\ \A n \in 1..Len(text) : f[n] = Consume(f[n - 1], text[n])
           /\ Read(text) = f[Len(text)]
<1> DEFINE N == Len(text)
    G == [n \in 1..N |-> [parser \in Parsers |-> Consume(parser, text[n])]]
    Goes(f) == f = [n \in 0..N |-> IF n = 0 THEN Start ELSE Consume(f[n - 1], text[n])]
    read == CHOOSE f : Goes(f)
<1>1. N \in Nat /\ \A n \in 1..N : text[n] \in Tokens
  BY TextFacts
<1>2. \A n \in 1..N : \A x \in Parsers : G[n][x] \in Parsers
  BY <1>1, ConsumeTyped
<1>3. PICK f : Iteration(f, Parsers, Start, N, G)
  <2>1. N \in Nat
    BY <1>1
  <2> HIDE DEF N, G, read, Goes
  <2> QED
    BY <1>2, <2>1, StartTyped, Iterates
<1>4. f \in [0..N -> Parsers] /\ f[0] = Start /\ \A n \in 1..N : f[n] = G[n][f[n - 1]]
  BY <1>3 DEF Iteration
<1>5. \A n \in 1..N : f[n] = Consume(f[n - 1], text[n])
  <2> TAKE n \in 1..N
  <2>1. f[n - 1] \in Parsers
    BY <1>1, <1>4
  <2> QED
    BY <1>4, <2>1
<1> HIDE DEF G
<1>6. Goes(f)
  BY <1>1, <1>4, <1>5
<1>7. Goes(read)
  BY <1>6
<1>8. Read(text) = read[N]
  BY DEF Read
<1> HIDE DEF read
<1>9. PICK g : g = read
  OBVIOUS
<1>10. g[0] = Start /\ \A n \in 1..N : g[n] = Consume(g[n - 1], text[n])
  BY <1>1, <1>7, <1>9
<1> HIDE DEF Goes
<1>11. \A n \in 0..N : f[n] = g[n]
  <2>1. f[0] = g[0]
    BY <1>10, <1>4
  <2>2. \A n \in 1..N : f[n - 1] = g[n - 1] => f[n] = g[n]
    BY <1>5, <1>10
  <2>3. N \in Nat
    BY <1>1
  <2> HIDE DEF N
  <2> QED
    BY <2>1, <2>2, <2>3, IteratesOnce
<1>12. Read(text) = f[N]
  BY <1>1, <1>8, <1>11, <1>9
<1> QED
  BY <1>5, <1>12, <1>4

\* What is read of a text is the state of a parser.
LEMMA ReadTyped ==
  ASSUME NEW text \in Texts
  PROVE  Read(text) \in Parsers
<1>1. Len(text) \in Nat
  BY TextFacts
<1> QED
  BY <1>1, ReadTurns

\* Read token by token.
LEMMA ReadEmpty == Read(<<>>) = Start
  BY ReadTurns, EmptyIsText

\* One token more at the end of a text is one Consume more.
LEMMA ReadAppend ==
  ASSUME NEW text \in Texts, NEW token \in Tokens
  PROVE  Read(Append(text, token)) = Consume(Read(text), token)
<1> DEFINE N == Len(text)
    more == Append(text, token)
<1>1. N \in Nat
  BY TextFacts
<1>2. /\ more \in Texts /\ Len(more) = N + 1
      /\ \A i \in 1..N : more[i] = text[i]
      /\ more[N + 1] = token
  BY AppendProperties DEF Texts
<1> HIDE DEF more
<1>3. PICK f : /\ f[0] = Start
               /\ \A n \in 1..N : f[n] = Consume(f[n - 1], text[n])
               /\ Read(text) = f[N]
  BY ReadTurns
<1>4. PICK g : /\ g[0] = Start
               /\ \A n \in 1..N + 1 : g[n] = Consume(g[n - 1], more[n])
               /\ Read(more) = g[N + 1]
  BY <1>2, ReadTurns
<1>5. \A n \in 1..N : f[n - 1] = g[n - 1] => f[n] = g[n]
  BY <1>1, <1>2, <1>3, <1>4
<1>6. f[N] = g[N]
  <2>1. f[0] = g[0]
    BY <1>3, <1>4
  <2> HIDE DEF N
  <2>2. \A n \in 0..N : f[n] = g[n]
    BY <1>1, <1>5, <2>1, IteratesOnce
  <2> QED
    BY <1>1, <2>2
<1>7. g[N + 1] = Consume(g[N], token)
  <2>1. N + 1 \in 1..N + 1 /\ (N + 1) - 1 = N
    BY <1>1
  <2> QED
    BY <1>2, <1>4, <2>1
<1> QED
  BY <1>3, <1>4, <1>6, <1>7 DEF more

\* What parseDotEnv returns.
LEMMA ParseTyped ==
  ASSUME NEW text \in Texts
  PROVE  Parse(text) \in Values \cup {Broken}
  BY ReadTyped, EndLineTyped DEF Parse, Parsers

-----------------------------------------------------------------------------
\* What is read of a line before its end.
LEMMA ReadMore ==
  ASSUME NEW text \in Texts, NEW more \in Texts,
         \A i \in 1..Len(more) : more[i] # "nl"
  PROVE  Read(text \o more) = [Read(text) EXCEPT !.line = Read(text).line \o more]
<1> DEFINE N == Len(more)
    part(n) == SubSeq(more, 1, n)
    Goes(n) == Read(text \o part(n)) = [Read(text) EXCEPT !.line = Read(text).line \o part(n)]
    S == {n \in Nat : n <= N => Goes(n)}
<1>1. N \in Nat /\ \A i \in 1..N : more[i] \in Tokens
  BY TextFacts
<1>2. Read(text) \in Parsers /\ Read(text).line \in Texts
  BY ReadTyped DEF Parsers
<1>3. \A n \in 0..N : part(n) \in Texts
  BY <1>1, PartIs
<1>4. 0 \in S
  <2>1. part(0) = <<>>
    BY SubSeqEmpty
  <2>2. text \o <<>> = text /\ Read(text).line \o <<>> = Read(text).line
    BY <1>2, ConcatEmptySeq DEF Texts
  <2>3. [Read(text) EXCEPT !.line = Read(text).line] = Read(text)
    BY <1>2 DEF Parsers
  <2>4. Goes(0)
    BY <2>1, <2>2, <2>3
  <2> QED
    BY <2>4
<1>5. ASSUME NEW n \in Nat, n \in S PROVE n + 1 \in S
  <2> SUFFICES ASSUME n + 1 <= N PROVE Goes(n + 1)
    OBVIOUS
  <2> DEFINE p == part(n)
      x == more[n + 1]
  <2>1. n + 1 \in 1..N /\ n \in 0..N /\ (n + 1) - 1 = n
    BY <1>1
  <2>2. p \in Texts /\ x \in Tokens /\ x # "nl"
    BY <1>1, <1>3, <2>1
  <2>3. part(n + 1) = p \o <<x>>
    <3>1. 1 \in 1..Len(more) /\ n + 1 \in 1..Len(more)
      BY <1>1, <2>1
    <3>2. SubSeq(more, 1, n + 1) = SubSeq(more, 1, (n + 1) - 1) \o <<more[n + 1]>>
      BY <3>1, SubSeqRecursiveSecond DEF Texts
    <3> QED
      BY <2>1, <3>2
  <2>4. <<x>> \in Texts
    BY <2>2, WordIsText
  <2> HIDE DEF p, x
  <2>5. text \o (p \o <<x>>) = Append(text \o p, x)
    <3>1. text \o p \in Texts
      BY <2>2, JoinIs
    <3>2. Append(text \o p, x) = (text \o p) \o <<x>>
      BY <2>2, <3>1, AppendIsConcat DEF Texts
    <3> QED
      BY <2>2, <2>4, <3>2, JoinAssociates
  <2>6. Read(text \o p) = [Read(text) EXCEPT !.line = Read(text).line \o p]
    BY <1>5, <2>1 DEF p
  <2>7. Read(Append(text \o p, x)) = [Read(text \o p) EXCEPT !.line = Append(@, x)]
    <3>1. text \o p \in Texts
      BY <2>2, JoinIs
    <3> QED
      BY <2>2, <3>1, ReadAppend DEF Consume
  <2>8. Append(Read(text).line \o p, x) = Read(text).line \o (p \o <<x>>)
    <3>1. Read(text).line \o p \in Texts
      BY <1>2, <2>2, JoinIs
    <3>2. Append(Read(text).line \o p, x) = (Read(text).line \o p) \o <<x>>
      BY <2>2, <3>1, AppendIsConcat DEF Texts
    <3> QED
      BY <1>2, <2>2, <2>4, <3>2, JoinAssociates
  <2>9. [Read(text \o p) EXCEPT !.line = Append(@, x)]
          = [Read(text) EXCEPT !.line = Read(text).line \o (p \o <<x>>)]
    BY <1>2, <2>6, <2>8 DEF Parsers
  <2> QED
    BY <2>3, <2>5, <2>7, <2>9
<1>6. N \in S
  BY <1>1, <1>4, <1>5, SetInduction
<1>7. Goes(N)
  BY <1>6
<1>8. part(N) = more
  BY SubSeqFull DEF Texts
<1> QED
  BY <1>7, <1>8

\* Between two lines, outside quotes.
Between(text) == Read(text).mode = "plain" /\ Read(text).line = <<>>

\* The parts of the line name=value that Assign takes it for.
LEMMA LineParts ==
  ASSUME NEW name \in Names, NEW v \in Texts, NEW line, line = Trim(<<name, "=">> \o v)
  PROVE  /\ line \in Texts /\ line # <<>> /\ Head(line) # "#"
         /\ IndexOf(line, {"="}) = 2
         /\ Trim(SubSeq(line, 1, 1)) = <<name>>
         /\ Trim(SubSeq(line, 3, Len(line))) = Trim(v)
<1> DEFINE whole == <<name, "=">> \o v
<1>1. /\ name \in Tokens /\ "=" \in Tokens /\ name \notin Blanks /\ "=" \notin Blanks
      /\ name # "=" /\ name # "#"
  BY MarksAreTokens DEF Names, Blanks
<1>2. <<name, "=">> \in Texts /\ Len(<<name, "=">>) = 2
  BY <1>1 DEF Texts
<1>3. Len(v) \in Nat
  BY TextFacts
<1>4. /\ whole \in Texts /\ Len(whole) = Len(v) + 2
      /\ whole[1] = name /\ whole[2] = "="
      /\ \A i \in 3..Len(v) + 2 : whole[i] = v[i - 2]
  <2>1. /\ whole \in Texts /\ Len(whole) = 2 + Len(v)
        /\ \A i \in 1..2 + Len(v) : whole[i] = IF i <= 2 THEN <<name, "=">>[i] ELSE v[i - 2]
    BY <1>2, JoinIs
  <2> HIDE DEF whole
  <2> QED
    BY <1>3, <2>1
<1> HIDE DEF whole
<1>5. PICK b \in 0..Len(v) :
        /\ \A i \in b + 1..Len(v) : v[i] \in Blanks
        /\ b # 0 => v[b] \notin Blanks
  <2>1. CASE \A i \in 1..Len(v) : v[i] \in Blanks
    <3>1. 0 \in 0..Len(v) /\ 0 + 1 = 1
      BY <1>3
    <3> QED
      BY <2>1, <3>1
  <2>2. ASSUME NEW j \in 1..Len(v), v[j] \notin Blanks
        PROVE  \E b \in 1..Len(v) : v[b] \notin Blanks /\ \A i \in b + 1..Len(v) : v[i] \in Blanks
    <3>1. PICK a, b \in 1..Len(v) :
            /\ v[b] \notin Blanks
            /\ \A i \in 1..Len(v) : v[i] \notin Blanks => a <= i /\ i <= b
      BY <2>2, TrimBounds
    <3>2. \A i \in b + 1..Len(v) : v[i] \in Blanks
      BY <1>3, <3>1
    <3> QED
      BY <3>1, <3>2
  <2> QED
    BY <1>3, <2>1, <2>2
<1>6. line = SubSeq(whole, 1, b + 2)
  <2>1. 1 \in 1..Len(whole) /\ b + 2 \in 1..Len(whole)
    BY <1>3, <1>4
  <2>2. whole[1] \notin Blanks /\ whole[b + 2] \notin Blanks
    <3>1. CASE b = 0
      BY <1>1, <1>4, <3>1
    <3>2. CASE b # 0
      <4>1. b + 2 \in 3..Len(v) + 2 /\ (b + 2) - 2 = b
        BY <1>3, <3>2
      <4> QED
        BY <1>1, <1>4, <1>5, <3>2, <4>1
    <3> QED
      BY <3>1, <3>2
  <2>3. ASSUME NEW i \in 1..Len(whole), whole[i] \notin Blanks PROVE 1 <= i /\ i <= b + 2
    <3> SUFFICES ASSUME i > b + 2 PROVE FALSE
      BY <1>3, <1>4
    <3>1. i \in 3..Len(v) + 2 /\ i - 2 \in b + 1..Len(v)
      BY <1>3, <1>4
    <3>2. whole[i] = v[i - 2] /\ v[i - 2] \in Blanks
      BY <1>4, <1>5, <3>1
    <3> QED
      BY <2>3, <3>2
  <2>4. line = Trim(whole)
    BY DEF whole
  <2> QED
    BY <1>4, <2>1, <2>2, <2>3, <2>4, TrimIs
<1>7. /\ line \in Texts /\ Len(line) = b + 2
      /\ \A i \in 1..b + 2 : line[i] = whole[i]
  <2>1. 1 \in Nat /\ b + 2 \in Int /\ b + 2 <= Len(whole) /\ 1 <= b + 2
    BY <1>3, <1>4
  <2> DEFINE l == SubSeq(whole, 1, b + 2)
  <2>2. /\ l \in Texts /\ Len(l) = IF 1 <= b + 2 THEN (b + 2) - 1 + 1 ELSE 0
        /\ \A i \in 1..(b + 2) - 1 + 1 : l[i] = whole[1 + i - 1]
    BY <1>4, <2>1, PartIs
  <2>3. line = l
    BY <1>6
  <2> HIDE DEF l
  <2>4. Len(l) = b + 2
    BY <1>3, <2>1, <2>2
  <2>5. \A i \in 1..b + 2 : l[i] = whole[i]
    BY <1>3, <2>1, <2>2
  <2> QED
    BY <2>2, <2>3, <2>4, <2>5
<1>8. line[1] = name /\ line[2] = "=" /\ line # <<>> /\ Head(line) = name
  <2>1. 1 \in 1..b + 2 /\ 2 \in 1..b + 2
    BY <1>3
  <2>2. line[1] = name /\ line[2] = "=" /\ line # <<>>
    BY <1>3, <1>4, <1>7, <2>1, EmptyIsText
  <2> QED
    BY <1>7, <2>2, InnerIs
<1>9. IndexOf(line, {"="}) = 2
  <2>1. 1 \in 1..Len(line) /\ 2 \in 1..Len(line)
    BY <1>3, <1>7
  <2>2. IndexOf(line, {"="}) # 0
    BY <1>7, <1>8, <2>1, IndexIs
  <2>3. /\ IndexOf(line, {"="}) \in 0..Len(line) /\ IndexOf(line, {"="}) <= 2
        /\ line[IndexOf(line, {"="})] = "="
    BY <1>7, <1>8, <2>1, <2>2, IndexIs
  <2> QED
    BY <1>1, <1>7, <1>8, <2>2, <2>3
<1>10. Trim(SubSeq(line, 1, 1)) = <<name>>
  <2>1. <<name>> \in Texts /\ Len(<<name>>) = 1 /\ <<name>>[1] = name /\ <<name>> # <<>>
    BY <1>1, WordIsText
  <2>2. SubSeq(line, 1, 1) = <<name>>
    <3>1. 1 \in Nat /\ 1 \in Int /\ 1 <= Len(line)
      BY <1>3, <1>7
    <3>2. /\ SubSeq(line, 1, 1) \in Texts /\ Len(SubSeq(line, 1, 1)) = 1
          /\ SubSeq(line, 1, 1)[1] = line[1]
      BY <1>7, <3>1, PartIs
    <3>3. \A i \in 1..1 : SubSeq(line, 1, 1)[i] = <<name>>[i]
      BY <1>8, <2>1, <3>2
    <3> QED
      BY <2>1, <3>2, <3>3, SameText
  <2> QED
    BY <1>1, <2>1, <2>2, TrimKeeps
<1> DEFINE rest == SubSeq(line, 3, Len(line))
<1>11. rest \in Texts /\ Len(rest) = b /\ \A i \in 1..b : rest[i] = v[i]
  <2>1. 3 \in Nat /\ Len(line) \in Int /\ 3 >= 1 /\ Len(line) <= Len(line)
    BY <1>3, <1>7
  <2>2. /\ rest \in Texts /\ Len(rest) = IF 3 <= Len(line) THEN Len(line) - 3 + 1 ELSE 0
        /\ \A i \in 1..Len(line) - 3 + 1 : rest[i] = line[3 + i - 1]
    BY <1>7, <2>1, PartIs
  <2> HIDE DEF rest
  <2>3. Len(rest) = b
    BY <1>3, <1>7, <2>2
  <2>4. ASSUME NEW i \in 1..b PROVE rest[i] = v[i]
    <3>1. /\ i \in 1..Len(line) - 3 + 1 /\ 3 + i - 1 = i + 2
          /\ i + 2 \in 3..Len(v) + 2 /\ i + 2 \in 1..b + 2 /\ (i + 2) - 2 = i
      BY <1>3, <1>7
    <3> QED
      BY <1>4, <1>7, <2>2, <3>1
  <2> QED
    BY <2>2, <2>3, <2>4
<1> HIDE DEF rest
<1>12. Trim(rest) = Trim(v)
  <2>1. CASE b = 0
    <3>1. \A i \in 1..Len(v) : v[i] \in Blanks
      BY <1>3, <1>5, <2>1
    <3>2. \A i \in 1..Len(rest) : rest[i] \in Blanks
      BY <1>11, <2>1
    <3> QED
      BY <1>11, <3>1, <3>2, TrimOfBlanks
  <2>2. CASE b # 0
    <3>1. b \in 1..Len(v) /\ v[b] \notin Blanks
      BY <1>3, <1>5, <2>2
    <3>2. PICK a, c \in 1..Len(v) :
            /\ v[a] \notin Blanks /\ v[c] \notin Blanks /\ a <= c
            /\ \A i \in 1..Len(v) : v[i] \notin Blanks => a <= i /\ i <= c
      BY <3>1, TrimBounds
    <3>3. c = b
      BY <1>3, <1>5, <3>1, <3>2
    <3>4. Trim(v) = SubSeq(v, a, b)
      BY <3>2, <3>3, TrimIs
    <3>5. a \in 1..Len(rest) /\ b \in 1..Len(rest)
      BY <1>3, <1>11, <3>2, <3>3
    <3>6. rest[a] \notin Blanks /\ rest[b] \notin Blanks
      BY <1>11, <3>2, <3>3, <3>5
    <3>7. \A i \in 1..Len(rest) : rest[i] \notin Blanks => a <= i /\ i <= b
      BY <1>3, <1>11, <3>2, <3>3
    <3>8. Trim(rest) = SubSeq(rest, a, b)
      BY <1>11, <3>5, <3>6, <3>7, TrimIs
    <3>9. SubSeq(rest, a, b) = SubSeq(v, a, b)
      <4> DEFINE r == SubSeq(rest, a, b)
          w == SubSeq(v, a, b)
      <4>1. a \in Nat /\ b \in Int /\ a >= 1 /\ b <= Len(rest) /\ b <= Len(v) /\ a <= b
        BY <1>3, <1>11, <3>2, <3>3
      <4>2. r \in Texts /\ Len(r) = b - a + 1 /\ \A i \in 1..b - a + 1 : r[i] = rest[a + i - 1]
        BY <1>11, <4>1, PartIs
      <4>3. w \in Texts /\ Len(w) = b - a + 1 /\ \A i \in 1..b - a + 1 : w[i] = v[a + i - 1]
        BY <4>1, PartIs
      <4> HIDE DEF r, w
      <4>4. \A i \in 1..b - a + 1 : a + i - 1 \in 1..b
        BY <4>1
      <4>5. \A i \in 1..b - a + 1 : r[i] = w[i]
        BY <1>11, <4>2, <4>3, <4>4
      <4>6. r = w
        BY <4>2, <4>3, <4>5, SameText
      <4> QED
        BY <4>6 DEF r, w
    <3> QED
      BY <3>4, <3>8, <3>9
  <2> QED
    BY <2>1, <2>2
<1> QED
  BY <1>1, <1>7, <1>8, <1>9, <1>10, <1>12 DEF rest

\* A line that begins with a name and "=" sets the name to the content of the rest,
\* or opens a quoted value.
LEMMA LineAssigned ==
  ASSUME NEW parser \in Parsers, NEW name \in Names, NEW v \in Texts,
         NEW line, line = Trim(<<name, "=">> \o v)
  PROVE  /\ Opens(Trim(v)) => Assign(parser, line).mode = "quoted"
         /\ ~ Opens(Trim(v)) => Assign(parser, line) = Set(parser, <<name>>, Content(Trim(v)))
<1> DEFINE key == Trim(SubSeq(line, 1, IndexOf(line, {"="}) - 1))
    value == Trim(SubSeq(line, IndexOf(line, {"="}) + 1, Len(line)))
<1>1. line # <<>> /\ Head(line) # "#" /\ IndexOf(line, {"="}) = 2
  BY LineParts
<1>2. key = <<name>> /\ value = Trim(v)
  <2>1. 2 - 1 = 1 /\ 2 + 1 = 3
    OBVIOUS
  <2> QED
    BY <1>1, <2>1, LineParts
<1>3. Assign(parser, line) =
        IF Opens(value)
        THEN [parser EXCEPT !.mode = "quoted", !.name = key,
                            !.quote = Head(value), !.text = Tail(value)]
        ELSE Set(parser, key, Content(value))
  BY <1>1 DEF Assign
<1> HIDE DEF key, value
<1>4. [parser EXCEPT !.mode = "quoted", !.name = key,
                     !.quote = Head(value), !.text = Tail(value)].mode = "quoted"
  BY DEF Parsers
<1> QED
  BY <1>2, <1>3, <1>4

\* The line so far, of a parser that stood between two lines.
LEMMA ReadPart ==
  ASSUME NEW text \in Texts, Between(text), NEW part \in Texts,
         \A i \in 1..Len(part) : part[i] # "nl"
  PROVE  Read(text \o part) = [Read(text) EXCEPT !.line = part]
<1>1. Read(text).line \o part = part
  BY ConcatEmptySeq DEF Between, Texts
<1> QED
  BY <1>1, ReadMore

\* The beginning of an assignment holds no line end if its value holds none.
LEMMA NamePartIs ==
  ASSUME NEW name \in Names, NEW v \in Texts, \A i \in 1..Len(v) : v[i] # "nl"
  PROVE  /\ <<name, "=">> \o v \in Texts
         /\ \A i \in 1..Len(<<name, "=">> \o v) : (<<name, "=">> \o v)[i] # "nl"
<1>1. <<name, "=">> \in Texts /\ Len(<<name, "=">>) = 2 /\ name # "nl"
  BY MarksAreTokens DEF Texts, Names
<1> DEFINE whole == <<name, "=">> \o v
<1>2. /\ whole \in Texts /\ Len(whole) = 2 + Len(v)
      /\ \A i \in 1..2 + Len(v) : whole[i] = IF i <= 2 THEN <<name, "=">>[i] ELSE v[i - 2]
  BY <1>1, JoinIs
<1>3. Len(v) \in Nat
  BY TextFacts
<1> HIDE DEF whole
<1>4. ASSUME NEW i \in 1..Len(whole) PROVE whole[i] # "nl"
  <2>1. CASE i <= 2
    <3>1. i = 1 \/ i = 2
      BY <1>2, <1>3, <2>1
    <3> QED
      BY <1>1, <1>2, <1>3, <3>1
  <2>2. CASE i > 2
    <3>1. i \in 1..2 + Len(v) /\ i - 2 \in 1..Len(v) /\ ~ (i <= 2)
      BY <1>2, <1>3, <2>2
    <3> QED
      BY <1>2, <3>1
  <2> QED
    BY <1>2, <1>3, <2>1, <2>2
<1> QED
  BY <1>2, <1>4 DEF whole

\* The end of the line name=v: the value is set, or its quote stays open.
LEMMA LineEnds ==
  ASSUME NEW text \in Texts, Between(text), NEW name \in Names, NEW v \in Texts,
         \A i \in 1..Len(v) : v[i] # "nl", NEW after,
         after = EndLine(Read(text \o (<<name, "=">> \o v)))
  PROVE  /\ after \in Parsers /\ after.line = <<>>
         /\ Opens(Trim(v)) => after.mode = "quoted"
         /\ ~ Opens(Trim(v)) =>
              /\ after.mode = "plain"
              /\ \A n \in Names : after.values[n] = IF n = name THEN Content(Trim(v))
                                                    ELSE Read(text).values[n]
<1> DEFINE part == <<name, "=">> \o v
    parser == [Read(text) EXCEPT !.line = part]
<1>1. part \in Texts /\ \A i \in 1..Len(part) : part[i] # "nl"
  BY NamePartIs
<1>2. Read(text) \in Parsers
  BY ReadTyped
<1>3. Read(text \o part) = parser
  BY <1>1, ReadPart
<1>4. /\ parser \in Parsers /\ parser.mode = "plain" /\ parser.line = part
      /\ parser.values = Read(text).values
  BY <1>1, <1>2 DEF Between, Parsers
<1> DEFINE line == Trim(part)
<1>5. /\ Opens(Trim(v)) => Assign(parser, line).mode = "quoted"
      /\ ~ Opens(Trim(v)) => Assign(parser, line) = Set(parser, <<name>>, Content(Trim(v)))
  BY <1>4, LineAssigned
<1>6. after = [Assign(parser, line) EXCEPT !.line = <<>>]
  BY <1>3, <1>4 DEF EndLine
<1>7. Assign(parser, line) \in Parsers
  BY <1>1, <1>4, AssignTyped, TrimShape
<1> HIDE DEF parser, line, part
<1>8. /\ after \in Parsers /\ after.line = <<>>
      /\ after.mode = Assign(parser, line).mode
      /\ after.values = Assign(parser, line).values
  BY <1>6, <1>7, EmptyIsText DEF Parsers
<1>9. ASSUME ~ Opens(Trim(v))
      PROVE  /\ after.mode = "plain"
             /\ \A n \in Names : after.values[n] = IF n = name THEN Content(Trim(v))
                                                   ELSE Read(text).values[n]
  <2>1. Content(Trim(v)) \in Texts
    BY TrimShape, ContentTyped
  <2>2. \A n \in Names : <<name>> = <<n>> <=> n = name
    OBVIOUS
  <2>3. /\ Set(parser, <<name>>, Content(Trim(v))).mode = "plain"
        /\ \A n \in Names : Set(parser, <<name>>, Content(Trim(v))).values[n] =
                              IF <<name>> = <<n>> THEN Content(Trim(v)) ELSE parser.values[n]
    BY <1>4, <2>1, SetTyped
  <2> QED
    BY <1>4, <1>5, <1>8, <1>9, <2>2, <2>3
<1> QED
  BY <1>5, <1>8, <1>9

\* A text has one more line than another one.
OneMoreLine(after, text, name, v) == after = text \o (<<name, "=">> \o v \o <<"nl">>)

\* A whole line gives its name a value.
LEMMA WholeLine ==
  ASSUME NEW text \in Texts, Between(text), NEW name \in Names, NEW v \in Texts,
         \A i \in 1..Len(v) : v[i] # "nl", ~ Opens(Trim(v)), NEW after,
         OneMoreLine(after, text, name, v)
  PROVE  /\ after \in Texts /\ Between(after)
         /\ \A n \in Names : Read(after).values[n] = IF n = name THEN Content(Trim(v))
                                                     ELSE Read(text).values[n]
<1> DEFINE part == <<name, "=">> \o v
<1>1. part \in Texts /\ "nl" \in Tokens /\ <<"nl">> \in Texts
  BY NamePartIs, MarksAreTokens, WordIsText
<1>2. text \o part \in Texts
  BY <1>1, JoinIs
<1> HIDE DEF part
<1>3. after = Append(text \o part, "nl")
  <2>1. after = text \o (part \o <<"nl">>)
    BY DEF part, OneMoreLine
  <2>2. after = (text \o part) \o <<"nl">>
    BY <1>1, <2>1, JoinAssociates
  <2> QED
    BY <1>1, <1>2, <2>2, AppendIsConcat DEF Texts
<1>4. after \in Texts
  BY <1>1, <1>2, <1>3, AppendProperties DEF Texts
<1>5. Read(after) = EndLine(Read(text \o part))
  BY <1>1, <1>2, <1>3, ReadAppend DEF Consume
<1> DEFINE ended == EndLine(Read(text \o part))
<1>6. /\ ended.mode = "plain" /\ ended.line = <<>>
      /\ \A n \in Names : ended.values[n] = IF n = name THEN Content(Trim(v))
                                            ELSE Read(text).values[n]
  BY LineEnds DEF part
<1> HIDE DEF ended
<1>7. Read(after) = ended
  BY <1>5 DEF ended
<1> QED
  BY <1>4, <1>6, <1>7 DEF Between

\* A line with no end of line yet, at the end of the file.
LEMMA PartLine ==
  ASSUME NEW text \in Texts, Between(text), NEW name \in Names, NEW v \in Texts,
         \A i \in 1..Len(v) : v[i] # "nl", NEW parsed,
         parsed = Parse(text \o (<<name, "=">> \o v))
  PROVE  /\ Opens(Trim(v)) => parsed = Broken
         /\ ~ Opens(Trim(v)) =>
              /\ parsed \in Values
              /\ \A n \in Names : parsed[n] = IF n = name THEN Content(Trim(v))
                                              ELSE Read(text).values[n]
<1> DEFINE after == EndLine(Read(text \o (<<name, "=">> \o v)))
<1>1. parsed = IF after.mode = "plain" THEN after.values ELSE Broken
  BY DEF Parse
<1>2. /\ after \in Parsers
      /\ Opens(Trim(v)) => after.mode = "quoted"
      /\ ~ Opens(Trim(v)) =>
           /\ after.mode = "plain"
           /\ \A n \in Names : after.values[n] = IF n = name THEN Content(Trim(v))
                                                 ELSE Read(text).values[n]
  BY LineEnds
<1> HIDE DEF after
<1> QED
  BY <1>1, <1>2 DEF Parsers

\* A name with no "=" after it, at the end of the file, breaks the parse.
LEMMA NameOnly ==
  ASSUME NEW text \in Texts, Between(text), NEW name \in Names
  PROVE  Parse(text \o <<name>>) = Broken
<1>1. /\ name \in Tokens /\ name \notin Blanks /\ name # "nl" /\ name # "#" /\ name # "="
  BY MarksAreTokens DEF Names, Blanks
<1> DEFINE part == <<name>>
<1>2. part \in Texts /\ Len(part) = 1 /\ part[1] = name
  BY <1>1, WordIsText
<1> HIDE DEF part
<1>3. \A i \in 1..Len(part) : part[i] # "nl" /\ part[i] # "="
  BY <1>1, <1>2
<1>4. Read(text \o part) = [Read(text) EXCEPT !.line = part]
  BY <1>2, <1>3, ReadPart
<1> DEFINE parser == [Read(text) EXCEPT !.line = part]
<1>5. parser.mode = "plain" /\ parser.line = part /\ parser \in Parsers
  BY <1>2, ReadTyped DEF Between, Parsers
<1>6. Trim(part) = part /\ part # <<>> /\ Head(part) = name
  <2>1. part # <<>>
    BY <1>2, EmptyIsText
  <2>2. Trim(part) = part
    BY <1>1, <1>2, <2>1, TrimKeeps
  <2> QED
    BY <1>2, <2>1, <2>2, InnerIs
<1>7. IndexOf(part, {"="}) = 0
  BY <1>2, <1>3, IndexIs
<1> HIDE DEF parser
<1>8. Assign(parser, part) = [parser EXCEPT !.mode = "broken"]
  BY <1>1, <1>6, <1>7 DEF Assign
<1>9. EndLine(parser) = [[parser EXCEPT !.mode = "broken"] EXCEPT !.line = <<>>]
  BY <1>5, <1>6, <1>8 DEF EndLine
<1>10. EndLine(parser).mode = "broken"
  BY <1>5, <1>9 DEF Parsers
<1> QED
  BY <1>4, <1>10 DEF Parse, parser, part

\* No line at all.
LEMMA NoLine ==
  ASSUME NEW text \in Texts, Between(text)
  PROVE  Parse(text) = Read(text).values /\ Parse(text) \in Values
<1> DEFINE parser == Read(text)
<1>1. parser \in Parsers /\ parser.mode = "plain" /\ parser.line = <<>>
  BY ReadTyped DEF Between
<1>2. Trim(<<>>) = <<>>
  BY EmptyIsText, TrimOfBlanks
<1> HIDE DEF parser
<1>3. EndLine(parser) = [parser EXCEPT !.line = <<>>]
  BY <1>1, <1>2 DEF EndLine, Assign
<1>4. EndLine(parser).mode = "plain" /\ EndLine(parser).values = parser.values
  BY <1>1, <1>3 DEF Parsers
<1> QED
  BY <1>1, <1>4 DEF Parse, Parsers, parser

-----------------------------------------------------------------------------
\* w is what a text's first n tokens are without one of them; m gives the
\* place each of its tokens had.
Kept(m, w, text, n, token) ==
  /\ w \in Texts
  /\ \A i \in 1..Len(w) : m[i] \in 1..n /\ w[i] = text[m[i]] /\ w[i] # token
  /\ \A i, j \in 1..Len(w) : i < j => m[i] < m[j]
  /\ \A k \in 1..n : text[k] # token => \E i \in 1..Len(w) : m[i] = k

\* Thinning has kept nothing of the first 0 positions.
LEMMA KeptNone ==
  ASSUME NEW text, NEW token
  PROVE  Kept(<<>>, <<>>, text, 0, token)
<1>1. <<>> \in Texts /\ \A i \in 1..Len(<<>>) : FALSE
  BY EmptyIsText
<1> QED
  BY <1>1 DEF Kept

\* A position that does not hold the token dropped is kept.
LEMMA KeptOneMore ==
  ASSUME NEW text \in Texts, NEW token, NEW n \in Nat, n + 1 \in 1..Len(text),
         NEW m, NEW w, Kept(m, w, text, n, token), text[n + 1] # token
  PROVE  \E p : Kept(p, Append(w, text[n + 1]), text, n + 1, token)
<1> DEFINE L == Len(w)
    x == text[n + 1]
    v == Append(w, x)
    p == [i \in 1..L + 1 |-> IF i = L + 1 THEN n + 1 ELSE m[i]]
<1>1. x \in Tokens /\ w \in Texts /\ L \in Nat
  BY TextFacts DEF Kept
<1>2. /\ v \in Texts /\ Len(v) = L + 1
      /\ (\A i \in 1..L : v[i] = w[i]) /\ v[L + 1] = x
  BY <1>1, AppendProperties DEF Texts
<1>3. (\A i \in 1..L : p[i] = m[i]) /\ p[L + 1] = n + 1
  BY <1>1
<1> HIDE DEF v, p
<1>4. ASSUME NEW i \in 1..L + 1
      PROVE  p[i] \in 1..n + 1 /\ v[i] = text[p[i]] /\ v[i] # token
  <2>1. CASE i = L + 1
    BY <1>2, <1>3, <2>1
  <2>2. CASE i # L + 1
    <3>1. i \in 1..L
      BY <1>1, <2>2
    <3>2. m[i] \in 1..n /\ w[i] = text[m[i]] /\ w[i] # token
      BY <3>1 DEF Kept
    <3> QED
      BY <1>2, <1>3, <3>1, <3>2
  <2> QED
    BY <2>1, <2>2
<1>5. ASSUME NEW i \in 1..L + 1, NEW j \in 1..L + 1, i < j
      PROVE  p[i] < p[j]
  <2>1. i \in 1..L
    BY <1>1, <1>5
  <2>2. CASE j = L + 1
    <3>1. p[i] = m[i] /\ m[i] \in 1..n
      BY <1>3, <2>1 DEF Kept
    <3> QED
      BY <1>3, <2>2, <3>1
  <2>3. CASE j # L + 1
    <3>1. j \in 1..L
      BY <1>1, <2>3
    <3>2. m[i] < m[j]
      BY <1>5, <2>1, <3>1 DEF Kept
    <3> QED
      BY <1>3, <2>1, <3>1, <3>2
  <2> QED
    BY <2>2, <2>3
<1>6. ASSUME NEW k \in 1..n + 1, text[k] # token
      PROVE  \E i \in 1..L + 1 : p[i] = k
  <2>1. CASE k = n + 1
    <3>1. L + 1 \in 1..L + 1
      BY <1>1
    <3> QED
      BY <1>3, <2>1, <3>1
  <2>2. CASE k # n + 1
    <3>1. k \in 1..n
      BY <2>2
    <3>2. PICK i \in 1..L : m[i] = k
      BY <1>6, <3>1 DEF Kept
    <3>3. i \in 1..L + 1 /\ p[i] = k
      BY <1>1, <1>3, <3>2
    <3> QED
      BY <3>3
  <2> QED
    BY <2>1, <2>2
<1>7. Kept(p, v, text, n + 1, token)
  BY <1>2, <1>4, <1>5, <1>6 DEF Kept
<1> QED
  BY <1>7 DEF v

\* A position that holds the token dropped changes nothing of what was kept.
LEMMA KeptSame ==
  ASSUME NEW text, NEW token, NEW n \in Nat,
         NEW m, NEW w, Kept(m, w, text, n, token), text[n + 1] = token
  PROVE  Kept(m, w, text, n + 1, token)
<1>1. \A i \in 1..Len(w) : m[i] \in 1..n + 1 /\ w[i] = text[m[i]] /\ w[i] # token
  BY DEF Kept
<1>2. ASSUME NEW k \in 1..n + 1, text[k] # token PROVE \E i \in 1..Len(w) : m[i] = k
  <2>1. k \in 1..n
    BY <1>2
  <2> QED
    BY <1>2, <2>1 DEF Kept
<1> QED
  BY <1>1, <1>2 DEF Kept

\* What Without keeps, and where it was.
LEMMA WithoutIs ==
  ASSUME NEW text \in Texts, NEW token
  PROVE  /\ Without(text, token) \in Texts
         /\ \E m : Kept(m, Without(text, token), text, Len(text), token)
<1> DEFINE N == Len(text)
    Step(w, n) == IF text[n] = token THEN w ELSE Append(w, text[n])
    G == [n \in 1..N |-> [w \in Texts |-> Step(w, n)]]
    Goes(f) == f = [n \in 0..N |-> IF n = 0 THEN <<>> ELSE Step(f[n - 1], n)]
    without == CHOOSE f : Goes(f)
<1>1. N \in Nat /\ \A n \in 1..N : text[n] \in Tokens
  BY TextFacts
<1>2. ASSUME NEW n \in 1..N, NEW w \in Texts PROVE Step(w, n) \in Texts
  <2>1. Append(w, text[n]) \in Texts
    BY <1>1, AppendProperties DEF Texts
  <2> QED
    BY <2>1
<1>3. \A n \in 1..N : \A x \in Texts : G[n][x] \in Texts
  <2> HIDE DEF Step
  <2> QED
    BY <1>2
<1>4. PICK f : Iteration(f, Texts, <<>>, N, G)
  <2>1. N \in Nat
    BY <1>1
  <2> HIDE DEF N, G, without, Goes
  <2> QED
    BY <1>3, <2>1, EmptyIsText, Iterates
<1>5. f \in [0..N -> Texts] /\ f[0] = <<>> /\ \A n \in 1..N : f[n] = G[n][f[n - 1]]
  BY <1>4 DEF Iteration
<1>6. \A n \in 1..N : f[n] = Step(f[n - 1], n)
  <2> TAKE n \in 1..N
  <2>1. f[n - 1] \in Texts
    BY <1>1, <1>5
  <2> QED
    BY <1>5, <2>1
<1> HIDE DEF G
<1>7. Without(text, token) = without[N]
  BY DEF Without
<1> HIDE DEF Step
<1>8. Goes(f)
  BY <1>1, <1>5, <1>6
<1>9. Goes(without)
  BY <1>8
<1> HIDE DEF without
<1>10. PICK g : g = without
  OBVIOUS
<1>11. g[0] = <<>> /\ \A n \in 1..N : g[n] = Step(g[n - 1], n)
  BY <1>1, <1>9, <1>10
<1> USE DEF Step
<1> DEFINE S == {n \in Nat : n <= N => \E m : Kept(m, g[n], text, n, token)}
<1>12. 0 \in S
  <2>1. Kept(<<>>, g[0], text, 0, token)
    BY <1>11, KeptNone
  <2> QED
    BY <2>1
<1>13. ASSUME NEW n \in Nat, n \in S PROVE n + 1 \in S
  <2> SUFFICES ASSUME n + 1 <= N PROVE \E m : Kept(m, g[n + 1], text, n + 1, token)
    OBVIOUS
  <2>1. n + 1 \in 1..N /\ (n + 1) - 1 = n
    BY <1>1
  <2>2. PICK m : Kept(m, g[n], text, n, token)
    BY <1>13, <2>1
  <2>3. g[n + 1] = Step(g[n], n + 1)
    BY <1>11, <2>1
  <2>4. CASE text[n + 1] = token
    BY <2>2, <2>3, <2>4, KeptSame
  <2>5. CASE text[n + 1] # token
    BY <2>1, <2>2, <2>3, <2>5, KeptOneMore
  <2> QED
    BY <2>4, <2>5
<1>14. N \in S
  BY <1>1, <1>12, <1>13, SetInduction
<1>15. \E m : Kept(m, g[N], text, N, token)
  BY <1>1, <1>14
<1> QED
  BY <1>7, <1>10, <1>15 DEF Kept

-----------------------------------------------------------------------------
\* A text has one block at most.
OneBlock(text) == \A i, j \in 1..Len(text) : text[i] \in Begins /\ text[j] \in Begins => i = j

\* The one block of a text begins at a and ends at c, and b is where its key is.
KeyAt(text, keys, a, b, c) ==
  /\ a \in 1..Len(text) /\ b \in 1..Len(text) /\ c \in 1..Len(text) /\ a < b /\ b < c
  /\ text[a] \in Begins /\ OwnLine(text, a) /\ OneBlock(text)
  /\ text[c] = Ending(text[a]) /\ OwnLine(text, c)
  /\ \A i \in a + 1..c - 1 : i # b => text[i] \in Blanks
  /\ text[b] \in keys

\* The tokens the parser and the key check tell apart are different ones.
LEMMA MarksDiffer ==
  /\ \A x \in Begins : x \notin Blanks /\ x \notin Quotes /\ Ending(x) \notin Blanks
                       /\ Ending(x) \notin Quotes /\ Ending(x) \notin Begins
                       /\ x # "cr" /\ Ending(x) # "cr"
  /\ \A x \in Words : x \notin Blanks /\ x \notin Quotes /\ x \notin Begins /\ x # "cr"
                      /\ x # "end" /\ x # "endPriv" /\ x # "esc" /\ x # "escr" /\ x # "#"
  /\ "cr" \in Blanks /\ "nl" \in Blanks
BY DEF Words, Marks, Begins, Blanks, Quotes, Ending

\* pem.Decode finds such a key.
LEMMA PemFinds ==
  ASSUME NEW text \in Texts, NEW keys, keys \subseteq Words,
         NEW a, NEW b, NEW c, KeyAt(text, keys, a, b, c)
  PROVE  Pem(text, keys) = text[b]
<1> DEFINE bodies == Bodies(text)
<1>1. Len(text) \in Nat /\ DOMAIN text = 1..Len(text)
  BY TextFacts
<1>2. /\ a \in 1..Len(text) /\ b \in 1..Len(text) /\ c \in 1..Len(text) /\ a < b /\ b < c
      /\ text[a] \in Begins /\ OwnLine(text, a)
      /\ \A i \in 1..Len(text) : text[i] \in Begins => i = a
      /\ text[c] = Ending(text[a]) /\ OwnLine(text, c)
      /\ \A i \in a + 1..c - 1 : i # b => text[i] \in Blanks
      /\ text[b] \in keys /\ text[b] \in Words
  BY DEF KeyAt, OneBlock
<1>3. b \in bodies
  <2>1. a \in 1..b - 1 /\ c \in b + 1..Len(text)
    BY <1>1, <1>2
  <2>2. \A i \in a + 1..b - 1 : text[i] \in Blanks
    BY <1>1, <1>2
  <2>3. \A i \in b + 1..c - 1 : text[i] \in Blanks
    BY <1>1, <1>2
  <2> QED
    BY <1>1, <1>2, <2>1, <2>2, <2>3 DEF Bodies
<1>4. ASSUME NEW d \in bodies PROVE d = b
  <2>1. d \in 1..Len(text) /\ text[d] \in Words
    BY <1>1 DEF Bodies
  <2>2. PICK f \in 1..d - 1 : text[f] \in Begins /\ \A i \in f + 1..d - 1 : text[i] \in Blanks
    BY DEF Bodies
  <2>3. f = a
    BY <1>1, <1>2, <2>1, <2>2
  <2>4. text[d] \notin Blanks /\ text[b] \notin Blanks
    BY <1>2, <2>1, MarksDiffer
  <2>5. ~ (b < d)
    BY <1>1, <1>2, <2>1, <2>2, <2>3, <2>4
  <2>6. ~ (d < b)
    BY <1>1, <1>2, <2>1, <2>2, <2>3, <2>4
  <2> QED
    BY <1>1, <1>2, <2>1, <2>5, <2>6
<1> HIDE DEF bodies
<1>5. Min(bodies) = b
  <2>1. bodies \subseteq Nat /\ bodies # {}
    BY <1>1, <1>2, <1>3, <1>4
  <2> QED
    BY <1>4, <2>1, LeastIs
<1>6. Pem(text, keys) =
        IF bodies # {} /\ text[Min(bodies)] \in keys THEN text[Min(bodies)] ELSE NoKey
  BY DEF Pem, bodies
<1> QED
  BY <1>2, <1>3, <1>5, <1>6

\* pem.Decode and the parsers return a key or none; the key is the word of a block.
LEMMA PemTyped ==
  ASSUME NEW text \in Texts, NEW keys
  PROVE  /\ Pem(text, keys) \in keys \cup {NoKey}
         /\ Pem(text, keys) # NoKey =>
              \E b \in Bodies(text) : text[b] \in keys /\ Pem(text, keys) = text[b]
<1>1. Bodies(text) \subseteq Nat
  BY TextFacts DEF Bodies
<1>2. Bodies(text) # {} => Min(Bodies(text)) \in Bodies(text)
  BY <1>1, LeastIs
<1> QED
  BY <1>2 DEF Pem

\* And what it finds is one, if there is one block.
LEMMA PemFound ==
  ASSUME NEW text \in Texts, NEW keys, OneBlock(text), Pem(text, keys) # NoKey
  PROVE  \E a, b, c : KeyAt(text, keys, a, b, c) /\ Pem(text, keys) = text[b]
<1>1. Len(text) \in Nat /\ DOMAIN text = 1..Len(text)
  BY TextFacts
<1>2. PICK b \in Bodies(text) : text[b] \in keys /\ Pem(text, keys) = text[b]
  BY PemTyped
<1>3. b \in 1..Len(text)
  BY <1>1 DEF Bodies
<1>4. PICK a \in 1..b - 1 :
        /\ text[a] \in Begins /\ OwnLine(text, a)
        /\ \A i \in a + 1..b - 1 : text[i] \in Blanks
        /\ \E c \in b + 1..Len(text) :
             /\ text[c] = Ending(text[a]) /\ OwnLine(text, c)
             /\ \A i \in b + 1..c - 1 : text[i] \in Blanks
  BY DEF Bodies
<1>5. PICK c \in b + 1..Len(text) :
        /\ text[c] = Ending(text[a]) /\ OwnLine(text, c)
        /\ \A i \in b + 1..c - 1 : text[i] \in Blanks
  BY <1>4
<1>6. a \in 1..Len(text) /\ c \in 1..Len(text) /\ a < b /\ b < c
  BY <1>1, <1>3, <1>4, <1>5
<1>7. \A i \in a + 1..c - 1 : i # b => text[i] \in Blanks
  BY <1>1, <1>3, <1>4, <1>5, <1>6
<1>8. KeyAt(text, keys, a, b, c)
  BY <1>2, <1>3, <1>4, <1>5, <1>6, <1>7 DEF KeyAt
<1> QED
  BY <1>2, <1>8

\* A part of a text that has the block has its key.
LEMMA OwnLineCut ==
  ASSUME NEW text \in Texts, NEW p \in Nat, NEW q \in Nat, p >= 1, q <= Len(text),
         NEW u \in Texts, u = SubSeq(text, p, q), NEW i \in p..q, OwnLine(text, i)
  PROVE  OwnLine(u, i - p + 1)
<1>1. Len(text) \in Nat
  BY TextFacts
<1>2. /\ Len(u) = q - p + 1
      /\ \A j \in 1..q - p + 1 : u[j] = text[p + j - 1]
  <2>1. q \in Int /\ p <= q
    BY <1>1
  <2>2. /\ Len(u) = IF p <= q THEN q - p + 1 ELSE 0
        /\ \A j \in 1..q - p + 1 : u[j] = text[p + j - 1]
    BY <2>1, PartIs
  <2> QED
    BY <2>1, <2>2
<1> DEFINE e == i - p + 1
<1>3. e = 1 \/ u[e - 1] = "nl"
  <2> SUFFICES ASSUME i # p PROVE u[i - p] = "nl"
    BY <1>1
  <2>1. text[i - 1] = "nl"
    BY <1>1 DEF OwnLine
  <2>2. i - p \in 1..q - p + 1 /\ p + (i - p) - 1 = i - 1
    BY <1>1
  <2> QED
    BY <1>2, <2>1, <2>2
<1>4. ASSUME NEW j \in e + 1..Len(u)
      PROVE  u[j] \in Blanks \/ \E k \in e + 1..j - 1 : u[k] = "nl"
  <2>1. /\ j \in 1..q - p + 1 /\ p + j - 1 \in i + 1..Len(text)
        /\ u[j] = text[p + j - 1]
    BY <1>1, <1>2
  <2>2. CASE text[p + j - 1] \in Blanks
    BY <2>1, <2>2
  <2>3. ASSUME NEW k \in i + 1..p + j - 1 - 1, text[k] = "nl"
        PROVE  \E n \in e + 1..j - 1 : u[n] = "nl"
    <3>1. k - p + 1 \in e + 1..j - 1 /\ k - p + 1 \in 1..q - p + 1
          /\ p + (k - p + 1) - 1 = k
      BY <1>1, <2>1
    <3>2. u[k - p + 1] = text[k]
      BY <1>2, <3>1
    <3> HIDE DEF e
    <3> QED
      BY <2>3, <3>1, <3>2
  <2>4. text[p + j - 1] \in Blanks \/ \E k \in i + 1..p + j - 1 - 1 : text[k] = "nl"
    BY <2>1 DEF OwnLine
  <2> QED
    BY <2>2, <2>3, <2>4
<1> HIDE DEF e
<1>5. OwnLine(u, e)
  BY <1>3, <1>4 DEF OwnLine
<1> QED
  BY <1>5 DEF e

\* u is a part of a text, from one place to another.
PartOf(u, text, p, q) ==
  p \in Nat /\ q \in Nat /\ p >= 1 /\ q <= Len(text) /\ u = SubSeq(text, p, q)

\* A part of a text that reaches around the key in it holds the key.
LEMMA KeyCut ==
  ASSUME NEW text \in Texts, NEW keys, NEW a, NEW b, NEW c, KeyAt(text, keys, a, b, c),
         NEW p, NEW q, NEW u, PartOf(u, text, p, q), p <= a, c <= q
  PROVE  u \in Texts /\ \E d, e, f : KeyAt(u, keys, d, e, f) /\ u[e] = text[b]
<1> p \in Nat /\ q \in Nat /\ p >= 1 /\ q <= Len(text)
  BY DEF PartOf
<1>0. u = SubSeq(text, p, q)
  BY DEF PartOf
<1>1. Len(text) \in Nat
  BY TextFacts
<1>2. /\ a \in 1..Len(text) /\ b \in 1..Len(text) /\ c \in 1..Len(text) /\ a < b /\ b < c
      /\ text[a] \in Begins /\ OwnLine(text, a) /\ OneBlock(text)
      /\ text[c] = Ending(text[a]) /\ OwnLine(text, c)
      /\ \A i \in a + 1..c - 1 : i # b => text[i] \in Blanks
      /\ text[b] \in keys
  BY DEF KeyAt
<1>3. /\ u \in Texts /\ Len(u) = q - p + 1
      /\ \A j \in 1..q - p + 1 : u[j] = text[p + j - 1]
  <2>1. q \in Int /\ p <= q
    BY <1>1, <1>2
  <2>2. /\ u \in Texts /\ Len(u) = IF p <= q THEN q - p + 1 ELSE 0
        /\ \A j \in 1..q - p + 1 : u[j] = text[p + j - 1]
    BY <1>0, <2>1, PartIs
  <2> QED
    BY <2>1, <2>2
<1>4. \A i \in p..q : i - p + 1 \in 1..Len(u) /\ u[i - p + 1] = text[i]
  <2> TAKE i \in p..q
  <2>1. i - p + 1 \in 1..q - p + 1 /\ p + (i - p + 1) - 1 = i
    OBVIOUS
  <2> QED
    BY <1>3, <2>1
<1>5. a \in p..q /\ b \in p..q /\ c \in p..q
  BY <1>1, <1>2
<1>6. OwnLine(u, a - p + 1) /\ OwnLine(u, c - p + 1)
  BY <1>0, <1>2, <1>3, <1>5, OwnLineCut
<1>7. OneBlock(u)
  <2> SUFFICES ASSUME NEW i \in 1..Len(u), NEW j \in 1..Len(u), u[i] \in Begins, u[j] \in Begins
               PROVE  i = j
    BY DEF OneBlock
  <2>1. /\ p + i - 1 \in 1..Len(text) /\ u[i] = text[p + i - 1]
        /\ p + j - 1 \in 1..Len(text) /\ u[j] = text[p + j - 1]
    BY <1>1, <1>3
  <2>2. p + i - 1 = p + j - 1
    BY <1>2, <2>1 DEF OneBlock
  <2> QED
    BY <2>2
<1>8. ASSUME NEW i \in a - p + 1 + 1..c - p + 1 - 1, i # b - p + 1
      PROVE  u[i] \in Blanks
  <2>1. /\ i + p - 1 \in a + 1..c - 1 /\ i + p - 1 # b /\ i + p - 1 \in p..q
        /\ (i + p - 1) - p + 1 = i
    BY <1>2, <1>5, <1>8
  <2>2. u[i] = text[i + p - 1]
    BY <1>4, <2>1
  <2> QED
    BY <1>2, <2>1, <2>2
<1>9. a - p + 1 < b - p + 1 /\ b - p + 1 < c - p + 1
  BY <1>2, <1>5
<1>10. KeyAt(u, keys, a - p + 1, b - p + 1, c - p + 1)
  BY <1>2, <1>3, <1>4, <1>5, <1>6, <1>7, <1>8, <1>9 DEF KeyAt
<1> DEFINE d == a - p + 1
    e == b - p + 1
    f == c - p + 1
<1>11. KeyAt(u, keys, d, e, f) /\ u[e] = text[b] /\ u \in Texts
  BY <1>3, <1>4, <1>5, <1>10
<1> HIDE DEF d, e, f
<1> QED
  BY <1>11

-----------------------------------------------------------------------------
\* w is a text without some of its carriage returns; m says where its tokens were.
Thinned(m, w, text) ==
  /\ \A i \in 1..Len(w) : m[i] \in 1..Len(text) /\ w[i] = text[m[i]]
  /\ \A i, j \in 1..Len(w) : i < j => m[i] < m[j]
  /\ \A k \in 1..Len(text) : text[k] # "cr" => \E i \in 1..Len(w) : m[i] = k

\* Thinning keeps the order of the positions it keeps.
LEMMA ThinnedOrder ==
  ASSUME NEW w \in Texts, NEW text \in Texts, NEW m, Thinned(m, w, text),
         NEW i \in 1..Len(w), NEW j \in 1..Len(w)
  PROVE  /\ i < j <=> m[i] < m[j]
         /\ i = j <=> m[i] = m[j]
         /\ m[i] \in 1..Len(text) /\ w[i] = text[m[i]]
<1>1. Len(w) \in Nat /\ Len(text) \in Nat
  BY TextFacts
<1>2. m[i] \in 1..Len(text) /\ m[j] \in 1..Len(text) /\ w[i] = text[m[i]]
  BY DEF Thinned
<1>3. (i < j => m[i] < m[j]) /\ (j < i => m[j] < m[i])
  BY DEF Thinned
<1>4. i < j \/ i = j \/ j < i
  BY <1>1
<1> QED
  BY <1>1, <1>2, <1>3, <1>4

\* The token before one that is kept, if it is no carriage return, is before it still.
LEMMA ThinnedBefore ==
  ASSUME NEW w \in Texts, NEW text \in Texts, NEW m, Thinned(m, w, text),
         NEW i \in 1..Len(w), m[i] # 1, text[m[i] - 1] # "cr"
  PROVE  i # 1 /\ m[i - 1] = m[i] - 1 /\ w[i - 1] = text[m[i] - 1]
<1>1. Len(w) \in Nat /\ Len(text) \in Nat
  BY TextFacts
<1>2. m[i] \in 1..Len(text) /\ m[i] - 1 \in 1..Len(text)
  BY <1>1, ThinnedOrder
<1>3. PICK j \in 1..Len(w) : m[j] = m[i] - 1
  BY <1>2 DEF Thinned
<1>4. j < i
  BY <1>2, <1>3, ThinnedOrder
<1>5. i - 1 \in 1..Len(w) /\ i - 1 < i
  BY <1>1, <1>4
<1>6. m[i - 1] < m[i] /\ m[i - 1] \in 1..Len(text) /\ w[i - 1] = text[m[i - 1]]
  BY <1>5, ThinnedOrder
<1>7. ~ (j < i - 1)
  <2> SUFFICES ASSUME j < i - 1 PROVE FALSE
    OBVIOUS
  <2>1. m[j] < m[i - 1]
    BY <1>5, ThinnedOrder
  <2> QED
    BY <1>2, <1>3, <1>6, <2>1
<1>8. j = i - 1
  BY <1>1, <1>4, <1>7
<1> QED
  BY <1>3, <1>4, <1>6, <1>8

\* A token on a line of its own is on one when tokens are dropped.
LEMMA OwnLineThinned ==
  ASSUME NEW w \in Texts, NEW text \in Texts, NEW m, Thinned(m, w, text),
         NEW i \in 1..Len(w), OwnLine(text, m[i])
  PROVE  OwnLine(w, i)
<1>1. Len(w) \in Nat /\ Len(text) \in Nat
  BY TextFacts
<1>2. m[i] \in 1..Len(text)
  BY ThinnedOrder
<1>3. i = 1 \/ w[i - 1] = "nl"
  <2>1. CASE m[i] = 1
    <3> SUFFICES ASSUME i # 1 PROVE FALSE
      OBVIOUS
    <3>1. 1 \in 1..Len(w) /\ 1 < i
      BY <1>1
    <3>2. m[1] < m[i] /\ m[1] \in 1..Len(text)
      BY <3>1, ThinnedOrder
    <3> QED
      BY <1>1, <2>1, <3>2
  <2>2. CASE m[i] # 1
    <3>1. text[m[i] - 1] = "nl"
      BY <2>2 DEF OwnLine
    <3> QED
      BY <2>2, <3>1, ThinnedBefore
  <2> QED
    BY <2>1, <2>2
<1>4. ASSUME NEW j \in i + 1..Len(w)
      PROVE  w[j] \in Blanks \/ \E k \in i + 1..j - 1 : w[k] = "nl"
  <2>1. j \in 1..Len(w) /\ i < j
    BY <1>1
  <2>2. m[i] < m[j] /\ m[j] \in 1..Len(text) /\ w[j] = text[m[j]]
    BY <2>1, ThinnedOrder
  <2>3. m[j] \in m[i] + 1..Len(text)
    BY <1>1, <1>2, <2>2
  <2>4. CASE text[m[j]] \in Blanks
    BY <2>2, <2>4
  <2>5. ASSUME NEW k \in m[i] + 1..m[j] - 1, text[k] = "nl"
        PROVE  \E n \in i + 1..j - 1 : w[n] = "nl"
    <3>1. k \in 1..Len(text) /\ text[k] # "cr"
      BY <1>1, <1>2, <2>2, <2>5
    <3>2. PICK n \in 1..Len(w) : m[n] = k
      BY <3>1 DEF Thinned
    <3>3. m[i] < m[n] /\ m[n] < m[j]
      BY <1>1, <1>2, <2>2, <3>2
    <3>4. i < n /\ n < j
      BY <2>1, <3>3, ThinnedOrder
    <3>5. n \in i + 1..j - 1 /\ w[n] = "nl"
      BY <1>1, <2>1, <2>5, <3>2, <3>4, ThinnedOrder
    <3> QED
      BY <3>5
  <2> QED
    BY <2>3, <2>4, <2>5 DEF OwnLine
<1> QED
  BY <1>3, <1>4 DEF OwnLine

\* Such a text has the same key.
LEMMA KeyThinned ==
  ASSUME NEW w \in Texts, NEW text \in Texts, NEW m, Thinned(m, w, text),
         NEW keys, keys \subseteq Words, NEW a, NEW b, NEW c, KeyAt(text, keys, a, b, c)
  PROVE  \E d, e, f : KeyAt(w, keys, d, e, f) /\ w[e] = text[b]
<1>1. Len(w) \in Nat /\ Len(text) \in Nat
  BY TextFacts
<1>2. /\ a \in 1..Len(text) /\ b \in 1..Len(text) /\ c \in 1..Len(text) /\ a < b /\ b < c
      /\ text[a] \in Begins /\ OwnLine(text, a) /\ OneBlock(text)
      /\ text[c] = Ending(text[a]) /\ OwnLine(text, c)
      /\ \A i \in a + 1..c - 1 : i # b => text[i] \in Blanks
      /\ text[b] \in keys /\ text[b] \in Words
  BY DEF KeyAt
<1>3. text[a] # "cr" /\ text[b] # "cr" /\ text[c] # "cr"
  BY <1>2, MarksDiffer
<1>4. PICK d \in 1..Len(w) : m[d] = a
  BY <1>2, <1>3 DEF Thinned
<1>5. PICK e \in 1..Len(w) : m[e] = b
  BY <1>2, <1>3 DEF Thinned
<1>6. PICK f \in 1..Len(w) : m[f] = c
  BY <1>2, <1>3 DEF Thinned
<1>7. d < e /\ e < f
  BY <1>2, <1>4, <1>5, <1>6, ThinnedOrder
<1>8. w[d] = text[a] /\ w[e] = text[b] /\ w[f] = text[c]
  BY <1>4, <1>5, <1>6, ThinnedOrder
<1>9. OwnLine(w, d) /\ OwnLine(w, f)
  BY <1>2, <1>4, <1>6, OwnLineThinned
<1>10. OneBlock(w)
  <2> SUFFICES ASSUME NEW i \in 1..Len(w), NEW j \in 1..Len(w), w[i] \in Begins, w[j] \in Begins
               PROVE  i = j
    BY DEF OneBlock
  <2>1. /\ m[i] \in 1..Len(text) /\ w[i] = text[m[i]]
        /\ m[j] \in 1..Len(text) /\ w[j] = text[m[j]]
    BY ThinnedOrder
  <2>2. m[i] = m[j]
    BY <1>2, <2>1 DEF OneBlock
  <2> QED
    BY <2>2, ThinnedOrder
<1>11. ASSUME NEW i \in d + 1..f - 1, i # e PROVE w[i] \in Blanks
  <2>1. i \in 1..Len(w) /\ d < i /\ i < f
    BY <1>1
  <2>2. a < m[i] /\ m[i] < c /\ m[i] # b /\ m[i] \in 1..Len(text) /\ w[i] = text[m[i]]
    BY <1>4, <1>5, <1>6, <1>11, <2>1, ThinnedOrder
  <2>3. m[i] \in a + 1..c - 1
    BY <1>1, <1>2, <2>2
  <2> QED
    BY <1>2, <2>2, <2>3
<1>12. KeyAt(w, keys, d, e, f)
  BY <1>2, <1>7, <1>8, <1>9, <1>10, <1>11 DEF KeyAt
<1> QED
  BY <1>8, <1>12

-----------------------------------------------------------------------------
\* The first word after the beginning of a block
After(text, key) ==
  \E a, b \in 1..Len(text) :
    /\ a < b /\ text[a] \in Begins /\ text[b] = key
    /\ \A i \in a + 1..b - 1 : text[i] \in Blanks

\* A key in a part of a text is that word.
LEMMA KeyIsAfter ==
  ASSUME NEW text \in Texts, NEW keys, NEW a, NEW b, NEW c,
         NEW p \in Nat, NEW q \in Nat, p >= 1, q <= Len(text),
         NEW u, u = SubSeq(text, p, q), KeyAt(u, keys, a, b, c)
  PROVE  After(text, u[b])
<1>1. Len(text) \in Nat
  BY TextFacts
<1>2. /\ u \in Texts /\ Len(u) = IF p <= q THEN q - p + 1 ELSE 0
      /\ \A j \in 1..q - p + 1 : u[j] = text[p + j - 1]
  BY PartIs
<1>3. /\ a \in 1..Len(u) /\ b \in 1..Len(u) /\ c \in 1..Len(u) /\ a < b /\ b < c
      /\ u[a] \in Begins
      /\ \A i \in a + 1..c - 1 : i # b => u[i] \in Blanks
  BY DEF KeyAt
<1>4. p <= q
  BY <1>2, <1>3
<1>5. /\ a + p - 1 \in 1..Len(text) /\ u[a] = text[a + p - 1]
      /\ b + p - 1 \in 1..Len(text) /\ u[b] = text[b + p - 1]
      /\ a + p - 1 < b + p - 1
  <2>1. a \in 1..q - p + 1 /\ b \in 1..q - p + 1 /\ p + a - 1 = a + p - 1 /\ p + b - 1 = b + p - 1
    BY <1>2, <1>3, <1>4
  <2> QED
    BY <1>1, <1>2, <1>3, <2>1
<1>6. ASSUME NEW i \in a + p - 1 + 1..b + p - 1 - 1 PROVE text[i] \in Blanks
  <2>1. /\ i - p + 1 \in a + 1..c - 1 /\ i - p + 1 # b /\ i - p + 1 \in 1..q - p + 1
        /\ p + (i - p + 1) - 1 = i
    BY <1>2, <1>3, <1>4
  <2> QED
    BY <1>2, <1>3, <2>1
<1> DEFINE d == a + p - 1
    e == b + p - 1
<1>7. /\ d \in 1..Len(text) /\ e \in 1..Len(text) /\ d < e
      /\ text[d] \in Begins /\ text[e] = u[b] /\ \A i \in d + 1..e - 1 : text[i] \in Blanks
  BY <1>3, <1>5, <1>6
<1> HIDE DEF d, e
<1> QED
  BY <1>7 DEF After

\* There is one such word, if there is one block.
LEMMA OneAfter ==
  ASSUME NEW text \in Texts, OneBlock(text), NEW k, NEW n, k \notin Blanks, n \notin Blanks,
         After(text, k), After(text, n)
  PROVE  k = n
<1>1. Len(text) \in Nat
  BY TextFacts
<1>2. PICK a, b \in 1..Len(text) :
        /\ a < b /\ text[a] \in Begins /\ text[b] = k
        /\ \A i \in a + 1..b - 1 : text[i] \in Blanks
  BY DEF After
<1>3. PICK c, d \in 1..Len(text) :
        /\ c < d /\ text[c] \in Begins /\ text[d] = n
        /\ \A i \in c + 1..d - 1 : text[i] \in Blanks
  BY DEF After
<1>4. a = c
  BY <1>2, <1>3 DEF OneBlock
<1>5. ~ (b < d) /\ ~ (d < b)
  <2>1. b < d => b \in c + 1..d - 1
    BY <1>2, <1>3, <1>4
  <2>2. d < b => d \in a + 1..b - 1
    BY <1>2, <1>3, <1>4
  <2> QED
    BY <1>2, <1>3, <2>1, <2>2
<1> QED
  BY <1>2, <1>3, <1>5

-----------------------------------------------------------------------------
\* An empty value stands for itself.
LEMMA EmptyContent == Trim(<<>>) = <<>> /\ ~ Opens(<<>>) /\ Content(<<>>) = <<>>
<1>1. <<>> \in Texts /\ Len(<<>>) = 0
  BY EmptyIsText
<1>2. Trim(<<>>) = <<>>
  BY <1>1, TrimOfBlanks
<1>3. Uncommented(<<>>) = <<>>
  BY <1>1 DEF Uncommented
<1> QED
  BY <1>2, <1>3 DEF Opens, Content

\* A plain value is read as it is written, up to the blanks around it.
LEMMA PlainIs ==
  ASSUME NEW text \in Texts, Plain(text)
  PROVE  /\ \A i \in 1..Len(text) : text[i] # "nl"
         /\ ~ Opens(Trim(text)) /\ Content(Trim(text)) = Trim(text)
<1> DEFINE T == Trim(text)
<1>1. \A i \in 1..Len(text) : text[i] # "nl"
  BY TextFacts DEF Plain
<1>2. T \in Texts /\ Len(T) \in Nat
  BY TrimShape, TextFacts
<1>3. CASE T = <<>>
  BY <1>1, <1>3, EmptyContent
<1>4. CASE T # <<>>
  <2>1. Head(T) \notin Quotes
    BY <1>4 DEF Plain
  <2>2. \A i \in 2..Len(T) : T[i] = "#" => T[i - 1] # "sp"
    BY DEF Plain
  <2> HIDE DEF T
  <2>3. \A i \in 1..Len(T) - 1 : ~ (T[i] = "sp" /\ T[i + 1] = "#")
    <3> TAKE i \in 1..Len(T) - 1
    <3>1. i + 1 \in 2..Len(T) /\ i + 1 - 1 = i
      BY <1>2
    <3> QED
      BY <2>2, <3>1
  <2>4. Uncommented(T) = T
    BY <2>3 DEF Uncommented
  <2>5. ~ Opens(T) /\ Content(T) = T
    BY <2>1, <2>4 DEF Opens, Content
  <2> QED
    BY <1>1, <2>5 DEF T
<1> QED
  BY <1>3, <1>4

\* So is a word.
LEMMA PlainWord ==
  ASSUME NEW x \in Words
  PROVE  <<x>> \in Texts /\ Trim(<<x>>) = <<x>> /\ Plain(<<x>>)
<1>1. x \in Tokens
  BY DEF Words
<1>2. <<x>> \in Texts /\ Len(<<x>>) = 1 /\ <<x>>[1] = x /\ <<x>> # <<>>
  BY <1>1, WordIsText
<1>3. x \notin Blanks /\ x \notin Quotes
  BY MarksDiffer
<1>4. Trim(<<x>>) = <<x>>
  BY <1>2, <1>3, TrimKeeps
<1>5. Plain(<<x>>)
  <2>1. \A i \in DOMAIN <<x>> : <<x>>[i] \notin {"nl", "cr"}
    BY <1>3 DEF Blanks
  <2>2. \A i \in 2..Len(Trim(<<x>>)) : FALSE
    <3>1. Len(Trim(<<x>>)) = 1
      BY <1>2, <1>4
    <3> DEFINE n == Len(Trim(<<x>>))
    <3>2. n = 1
      BY <3>1
    <3> HIDE DEF n
    <3>3. \A i \in 2..n : FALSE
      BY <3>2
    <3> QED
      BY <3>3 DEF n
  <2>3. Head(<<x>>) \notin Quotes
    BY <1>3
  <2> QED
    BY <1>2, <1>4, <2>1, <2>2, <2>3 DEF Plain
<1> QED
  BY <1>2, <1>4, <1>5

\* What stands in double quotes on a line
InQuotes(text) == <<"dq">> \o text \o <<"dq">>

\* The positions of a text in double quotes.
LEMMA InQuotesIs ==
  ASSUME NEW text \in Texts
  PROVE  /\ InQuotes(text) \in Texts /\ Len(InQuotes(text)) = Len(text) + 2
         /\ InQuotes(text)[1] = "dq" /\ InQuotes(text)[Len(text) + 2] = "dq"
         /\ \A i \in 1..Len(text) : InQuotes(text)[i + 1] = text[i]
<1> DEFINE q == <<"dq">>
    s == q \o text
    t == s \o q
<1>1. q \in Texts /\ Len(q) = 1 /\ q[1] = "dq"
  BY MarksAreTokens, WordIsText
<1> HIDE DEF q
<1>2. /\ s \in Texts /\ Len(s) = 1 + Len(text)
      /\ \A i \in 1..1 + Len(text) : s[i] = IF i <= 1 THEN q[i] ELSE text[i - 1]
  <2>1. /\ s \in Texts /\ Len(s) = Len(q) + Len(text)
        /\ \A i \in 1..Len(q) + Len(text) : s[i] = IF i <= Len(q) THEN q[i] ELSE text[i - Len(q)]
    BY <1>1, JoinIs
  <2> HIDE DEF s
  <2> QED
    BY <1>1, <2>1
<1> HIDE DEF s
<1>3. /\ t \in Texts /\ Len(t) = Len(s) + 1
      /\ \A i \in 1..Len(s) + 1 : t[i] = IF i <= Len(s) THEN s[i] ELSE q[i - Len(s)]
  <2>1. /\ t \in Texts /\ Len(t) = Len(s) + Len(q)
        /\ \A i \in 1..Len(s) + Len(q) : t[i] = IF i <= Len(s) THEN s[i] ELSE q[i - Len(s)]
    BY <1>1, <1>2, JoinIs
  <2> HIDE DEF t
  <2> QED
    BY <1>1, <2>1
<1> HIDE DEF t
<1>4. Len(text) \in Nat
  BY TextFacts
<1>5. Len(t) = Len(text) + 2 /\ t[1] = "dq" /\ t[Len(text) + 2] = "dq"
  BY <1>1, <1>2, <1>3, <1>4
<1>6. ASSUME NEW i \in 1..Len(text) PROVE t[i + 1] = text[i]
  <2>1. i + 1 \in 1..Len(s) + 1 /\ i + 1 <= Len(s) /\ i + 1 \in 1..1 + Len(text)
        /\ ~ (i + 1 <= 1) /\ i + 1 - 1 = i
    BY <1>2, <1>4
  <2> QED
    BY <1>2, <1>3, <2>1
<1> QED
  BY <1>3, <1>5, <1>6 DEF InQuotes, q, s, t

\* A beginning of it that ends with a quote too has a beginning of the text in it.
LEMMA InQuotesClosed ==
  ASSUME NEW text \in Texts, NEW b \in Nat, b >= 1, b <= Len(text) + 2, NEW t \in Texts,
         Len(t) = b, \A i \in 1..b : t[i] = InQuotes(text)[i], ~ Opens(t)
  PROVE  /\ b >= 2 /\ b - 2 \in 0..Len(text)
         /\ Content(t) = Unescape(SubSeq(text, 1, b - 2))
<1>1. Len(text) \in Nat /\ t # <<>>
  BY TextFacts
<1>2. Head(t) = "dq" /\ Head(t) \in Quotes
  <2>1. t[1] = "dq"
    BY InQuotesIs
  <2> QED
    BY <1>1, <2>1, InnerIs DEF Quotes
<1>3. b >= 2
  <2>1. b # 1
    BY <1>1, <1>2 DEF Opens
  <2> QED
    BY <2>1
<1>4. Content(t) = Unescape(Front(Tail(t)))
  BY <1>1, <1>2 DEF Content, Unquoted
<1> DEFINE u == Front(Tail(t))
    w == SubSeq(text, 1, b - 2)
<1>5. /\ u \in Texts /\ Len(u) = b - 2
      /\ \A i \in 1..b - 2 : u[i] = t[i + 1]
  BY <1>1, <1>3, InnerIs
<1>6. 1 \in Nat /\ b - 2 \in Int /\ 1 >= 1 /\ b - 2 <= Len(text)
  BY <1>1, <1>3
<1>7. /\ w \in Texts /\ Len(w) = IF 1 <= b - 2 THEN b - 2 - 1 + 1 ELSE 0
      /\ \A i \in 1..b - 2 - 1 + 1 : w[i] = text[1 + i - 1]
  BY <1>6, PartIs
<1> HIDE DEF u, w
<1>8. Len(w) = b - 2
  BY <1>3, <1>7
<1>9. ASSUME NEW i \in 1..b - 2 PROVE u[i] = w[i]
  <2>1. i + 1 \in 1..b /\ i \in 1..Len(text) /\ i \in 1..b - 2 - 1 + 1 /\ 1 + i - 1 = i
    BY <1>1, <1>3
  <2>2. u[i] = InQuotes(text)[i + 1] /\ w[i] = text[i]
    BY <1>5, <1>7, <2>1
  <2> QED
    BY <2>1, <2>2, InQuotesIs
<1>10. u = w
  BY <1>5, <1>7, <1>8, <1>9, SameText
<1>11. b - 2 \in 0..Len(text)
  BY <1>1, <1>3
<1>12. Content(t) = Unescape(w)
  BY <1>4, <1>10 DEF u
<1> QED
  BY <1>3, <1>11, <1>12 DEF w

\* The whole is read as the text.
LEMMA InQuotesRead ==
  ASSUME NEW text \in Texts, \A i \in 1..Len(text) : text[i] # "nl"
  PROVE  /\ \A i \in 1..Len(InQuotes(text)) : InQuotes(text)[i] # "nl"
         /\ ~ Opens(Trim(InQuotes(text))) /\ Content(Trim(InQuotes(text))) = Unescape(text)
<1> DEFINE t == InQuotes(text)
    b == Len(text) + 2
<1>1. /\ t \in Texts /\ Len(t) = b /\ t[1] = "dq" /\ t[b] = "dq"
      /\ \A i \in 1..Len(text) : t[i + 1] = text[i]
  BY InQuotesIs
<1>2. Len(text) \in Nat
  BY TextFacts
<1> HIDE DEF t
<1>3. t # <<>> /\ t[1] \notin Blanks /\ t[Len(t)] \notin Blanks
  BY <1>1, <1>2, TextFacts DEF Blanks
<1>4. Trim(t) = t
  BY <1>1, <1>3, TrimKeeps
<1>5. ~ Opens(t)
  <2>1. Head(t) = "dq" /\ Last(t) = "dq"
    BY <1>1, <1>3, InnerIs
  <2> QED
    BY <1>1, <1>2, <2>1 DEF Opens
<1>6. b \in Nat /\ b >= 1 /\ b - 2 = Len(text)
  BY <1>2
<1>7. Content(t) = Unescape(SubSeq(text, 1, Len(text)))
  <2>1. Content(t) = Unescape(SubSeq(text, 1, b - 2))
    BY <1>1, <1>5, <1>6, InQuotesClosed DEF t
  <2> QED
    BY <1>6, <2>1
<1>8. SubSeq(text, 1, Len(text)) = text
  BY DEF Texts
<1>9. ASSUME NEW i \in 1..Len(t) PROVE t[i] # "nl"
  <2>1. CASE i = 1 \/ i = b
    BY <1>1, <2>1
  <2>2. CASE i # 1 /\ i # b
    <3>1. i - 1 \in 1..Len(text) /\ i - 1 + 1 = i
      BY <1>1, <1>2, <2>2
    <3>2. t[i - 1 + 1] = text[i - 1]
      BY <1>1, <3>1
    <3> QED
      BY <3>1, <3>2
  <2> QED
    BY <2>1, <2>2
<1> QED
  BY <1>4, <1>5, <1>7, <1>8, <1>9 DEF t

\* A beginning of it is nothing, is open, or is read as a beginning of the text.
LEMMA InQuotesPart ==
  ASSUME NEW text \in Texts, NEW j \in 0..Len(text) + 2,
         NEW v, PartOf(v, InQuotes(text), 1, j), ~ Opens(Trim(v))
  PROVE  /\ v \in Texts
         /\ \/ Content(Trim(v)) = <<>>
            \/ \E i \in 0..Len(text) : Content(Trim(v)) = Unescape(SubSeq(text, 1, i))
<1> DEFINE q == InQuotes(text)
    T == Trim(v)
<1>1. /\ q \in Texts /\ Len(q) = Len(text) + 2 /\ q[1] = "dq"
      /\ Len(text) \in Nat
  BY InQuotesIs, TextFacts
<1>2. /\ v \in Texts /\ Len(v) = IF 1 <= j THEN j - 1 + 1 ELSE 0
      /\ \A i \in 1..j - 1 + 1 : v[i] = q[1 + i - 1]
  <2>1. 1 \in Nat /\ j \in Int /\ 1 >= 1 /\ j <= Len(q)
    BY <1>1
  <2>2. v = SubSeq(q, 1, j)
    BY DEF PartOf
  <2> HIDE DEF q
  <2> DEFINE w == SubSeq(q, 1, j)
  <2>3. /\ w \in Texts /\ Len(w) = IF 1 <= j THEN j - 1 + 1 ELSE 0
        /\ \A i \in 1..j - 1 + 1 : w[i] = q[1 + i - 1]
    BY <1>1, <2>1, PartIs
  <2> QED
    BY <2>2, <2>3
<1> HIDE DEF q, T
<1>3. Len(v) = j /\ \A i \in 1..j : v[i] = q[i]
  BY <1>1, <1>2
<1>4. CASE j = 0
  <2>1. v = <<>>
    BY <1>2, <1>3, <1>4, TextFacts
  <2> QED
    BY <1>2, <2>1, EmptyContent
<1>5. CASE j # 0
  <2>1. 1 \in 1..Len(v) /\ v[1] = "dq" /\ v[1] \notin Blanks
    BY <1>1, <1>3, <1>5 DEF Blanks
  <2>2. T \in Texts /\ T # <<>>
    BY <1>2, <2>1, TrimShape DEF T
  <2>3. PICK a, b \in 1..Len(v) :
          /\ a <= b
          /\ \A i \in 1..Len(v) : v[i] \notin Blanks => a <= i /\ i <= b
          /\ Len(T) = b - a + 1
          /\ \A i \in 1..b - a + 1 : T[i] = v[a + i - 1]
    BY <1>2, <2>2, TrimShape DEF T
  <2>4. a = 1
    BY <1>1, <1>3, <2>1, <2>3
  <2>5. /\ b \in Nat /\ b >= 1 /\ b <= Len(text) + 2 /\ Len(T) = b
        /\ \A i \in 1..b : T[i] = q[i]
    BY <1>1, <1>3, <2>3, <2>4
  <2>6. ~ Opens(T)
    BY DEF T
  <2>7. b - 2 \in 0..Len(text) /\ Content(T) = Unescape(SubSeq(text, 1, b - 2))
    BY <2>2, <2>5, <2>6, InQuotesClosed DEF q
  <2> QED
    BY <1>2, <2>7 DEF T
<1> QED
  BY <1>4, <1>5

\* The beginning of a text, with its escapes resolved.
LEMMA UnescapePart ==
  ASSUME NEW text \in Texts, NEW i \in 0..Len(text)
  PROVE  Unescape(SubSeq(text, 1, i)) = SubSeq(Unescape(text), 1, i)
<1> DEFINE t == SubSeq(text, 1, i)
    u == Unescape(text)
    v == SubSeq(u, 1, i)
    F(x) == CASE x = "esc" -> "nl" [] x = "escr" -> "cr" [] OTHER -> x
<1>1. Len(text) \in Nat /\ 1 \in Nat /\ i \in Int /\ 1 >= 1 /\ i <= Len(text)
  BY TextFacts
<1>2. u \in Texts /\ Len(u) = Len(text) /\ \A k \in 1..Len(text) : u[k] = F(text[k])
  BY UnescapeIs
<1>3. /\ t \in Texts /\ Len(t) = IF 1 <= i THEN i - 1 + 1 ELSE 0
      /\ \A k \in 1..i - 1 + 1 : t[k] = text[1 + k - 1]
  BY <1>1, PartIs
<1> HIDE DEF u
<1>4. /\ v \in Texts /\ Len(v) = IF 1 <= i THEN i - 1 + 1 ELSE 0
      /\ \A k \in 1..i - 1 + 1 : v[k] = u[1 + k - 1]
  BY <1>1, <1>2, PartIs
<1> HIDE DEF t, v
<1>5. /\ Unescape(t) \in Texts /\ Len(Unescape(t)) = Len(t)
      /\ \A k \in 1..Len(t) : Unescape(t)[k] = F(t[k])
  BY <1>3, UnescapeIs
<1>6. Len(t) = i /\ Len(v) = i
  BY <1>1, <1>3, <1>4
<1> HIDE DEF F
<1>7. ASSUME NEW k \in 1..i PROVE Unescape(t)[k] = v[k]
  <2>1. k \in 1..i - 1 + 1 /\ 1 + k - 1 = k /\ k \in 1..Len(text)
    BY <1>1
  <2>2. t[k] = text[k] /\ v[k] = u[k] /\ u[k] = F(text[k])
    BY <1>2, <1>3, <1>4, <2>1
  <2> QED
    BY <1>5, <1>6, <2>2
<1>8. Unescape(t) = v
  BY <1>4, <1>5, <1>6, <1>7, SameText
<1> QED
  BY <1>8 DEF t, u, v

-----------------------------------------------------------------------------
\* A text without some token
Avoids(text, name) == \A i \in 1..Len(text) : text[i] # name

\* Neither do its parts have it, nor what is left when it is trimmed.
LEMMA PartAvoids ==
  ASSUME NEW text \in Texts, NEW name, Avoids(text, name),
         NEW m \in Nat, NEW n \in Int, m >= 1, n <= Len(text)
  PROVE  Avoids(SubSeq(text, m, n), name)
<1> DEFINE part == SubSeq(text, m, n)
<1>1. /\ part \in Texts /\ Len(part) = IF m <= n THEN n - m + 1 ELSE 0
      /\ \A i \in 1..n - m + 1 : part[i] = text[m + i - 1]
  BY PartIs
<1>2. Len(text) \in Nat
  BY TextFacts
<1> HIDE DEF part
<1>3. ASSUME NEW i \in 1..Len(part) PROVE part[i] # name
  <2>1. i \in 1..n - m + 1 /\ m + i - 1 \in 1..Len(text)
    BY <1>1, <1>2
  <2> QED
    BY <1>1, <2>1 DEF Avoids
<1> QED
  BY <1>3 DEF Avoids, part

\* Trimming a text that does not hold a name leaves one that does not.
LEMMA TrimAvoids ==
  ASSUME NEW text \in Texts, NEW name, Avoids(text, name)
  PROVE  Avoids(Trim(text), name)
<1>1. CASE Trim(text) = <<>>
  BY <1>1, EmptyIsText DEF Avoids
<1>2. CASE Trim(text) # <<>>
  <2>1. PICK a, b \in 1..Len(text) : Trim(text) = SubSeq(text, a, b)
    BY <1>2, TrimShape
  <2>2. a \in Nat /\ b \in Int /\ a >= 1 /\ b <= Len(text)
    BY <2>1, TextFacts
  <2> QED
    BY <2>1, <2>2, PartAvoids
<1> QED
  BY <1>1, <1>2

\* The parser has not met a name but for the value it had before: the name is
\* neither on the line being read nor that of the value whose quote is open.
Away(parser, name, value) ==
  /\ Avoids(parser.line, name) /\ parser.name # <<name>>
  /\ parser.values[name] = value

\* Another name's value is set.
LEMMA SetAway ==
  ASSUME NEW parser \in Parsers, NEW name \in Names, NEW other \in Texts, other # <<name>>,
         NEW value \in Texts, parser.name # <<name>>
  PROVE  /\ Set(parser, other, value).name # <<name>>
         /\ Set(parser, other, value).values[name] = parser.values[name]
<1>1. Set(parser, other, value).name = parser.name
  BY DEF Set, Parsers
<1> QED
  BY <1>1, SetTyped

\* A line that does not have the name does not give it a value, and neither
\* does the end of a quotation that was opened for another name.
LEMMA AssignAway ==
  ASSUME NEW parser \in Parsers, NEW name \in Names, parser.name # <<name>>,
         NEW line \in Texts, Avoids(line, name)
  PROVE  /\ Assign(parser, line).name # <<name>>
         /\ Assign(parser, line).values[name] = parser.values[name]
<1> DEFINE at == IndexOf(line, {"="})
    part == SubSeq(line, 1, at - 1)
    key == Trim(part)
    value == Trim(SubSeq(line, at + 1, Len(line)))
<1>1. at \in 0..Len(line) /\ Len(line) \in Nat
  BY IndexIs, TextFacts
<1>2. part \in Texts /\ Avoids(part, name)
  <2>1. 1 \in Nat /\ 1 >= 1 /\ at - 1 \in Int /\ at - 1 <= Len(line)
    BY <1>1
  <2> QED
    BY <2>1, PartIs, PartAvoids
<1>3. SubSeq(line, at + 1, Len(line)) \in Texts
  BY <1>1, PartIs
<1>4. value \in Texts
  BY <1>3, TrimShape
<1> HIDE DEF part
<1>5. key \in Texts /\ key # <<name>>
  <2>1. key \in Texts /\ Avoids(key, name)
    BY <1>2, TrimShape, TrimAvoids
  <2>2. Len(<<name>>) = 1 /\ <<name>>[1] = name
    OBVIOUS
  <2> QED
    BY <2>1, <2>2 DEF Avoids
<1>6. Assign(parser, line) =
        IF line = <<>> \/ Head(line) = "#" THEN parser
        ELSE IF at = 0 THEN [parser EXCEPT !.mode = "broken"]
        ELSE IF Opens(value)
        THEN [parser EXCEPT !.mode = "quoted", !.name = key,
                            !.quote = Head(value), !.text = Tail(value)]
        ELSE Set(parser, key, Content(value))
  BY DEF Assign, part
<1> HIDE DEF at, key, value
<1>7. [parser EXCEPT !.mode = "broken"].name = parser.name
        /\ [parser EXCEPT !.mode = "broken"].values = parser.values
  BY DEF Parsers
<1>8. /\ [parser EXCEPT !.mode = "quoted", !.name = key,
                        !.quote = Head(value), !.text = Tail(value)].name = key
      /\ [parser EXCEPT !.mode = "quoted", !.name = key,
                        !.quote = Head(value), !.text = Tail(value)].values = parser.values
  BY DEF Parsers
<1>9. /\ Set(parser, key, Content(value)).name # <<name>>
      /\ Set(parser, key, Content(value)).values[name] = parser.values[name]
  BY <1>4, <1>5, ContentTyped, SetAway
<1> QED
  BY <1>5, <1>6, <1>7, <1>8, <1>9

\* A line inside the quoted value of one name leaves every other name alone.
LEMMA ContinueAway ==
  ASSUME NEW parser \in Parsers, NEW name \in Names, parser.name # <<name>>, NEW line \in Texts
  PROVE  /\ Continue(parser, line).name # <<name>>
         /\ Continue(parser, line).values[name] = parser.values[name]
<1> DEFINE trimmed == Trim(line)
    kept == IF line # <<>> /\ Last(line) = "cr" THEN Front(line) ELSE line
    whole == Unquoted(parser.quote, parser.text \o <<"nl">> \o Front(trimmed))
<1>1. CASE trimmed # <<>> /\ Last(trimmed) = parser.quote
  <2>1. Continue(parser, line) = Set(parser, parser.name, whole)
    BY <1>1 DEF Continue
  <2>2. Set(parser, parser.name, whole).name = parser.name
    BY DEF Set, Parsers
  <2>3. Set(parser, parser.name, whole).values[name] = parser.values[name]
    BY DEF Set, Parsers
  <2> QED
    BY <2>1, <2>2, <2>3
<1>2. CASE ~ (trimmed # <<>> /\ Last(trimmed) = parser.quote)
  <2>1. Continue(parser, line) = [parser EXCEPT !.text = parser.text \o <<"nl">> \o kept]
    BY <1>2 DEF Continue, Parsers
  <2> QED
    BY <2>1 DEF Parsers
<1> QED
  BY <1>1, <1>2

\* The end of a line that does not have the name, or of one inside quotes
LEMMA EndLineAway ==
  ASSUME NEW parser \in Parsers, NEW name \in Names, parser.name # <<name>>,
         parser.mode = "plain" => Avoids(parser.line, name)
  PROVE  Away(EndLine(parser), name, parser.values[name])
<1> DEFINE next == CASE parser.mode = "plain" -> Assign(parser, Trim(parser.line))
                     [] parser.mode = "quoted" -> Continue(parser, parser.line)
                     [] OTHER -> parser
<1>1. parser.line \in Texts /\ Trim(parser.line) \in Texts
  BY TrimShape DEF Parsers
<1>2. next.name # <<name>> /\ next.values[name] = parser.values[name] /\ next \in Parsers
  <2>1. CASE parser.mode = "plain"
    <3>1. Avoids(Trim(parser.line), name)
      BY <1>1, <2>1, TrimAvoids
    <3>2. next = Assign(parser, Trim(parser.line))
      BY <2>1
    <3> QED
      BY <1>1, <3>1, <3>2, AssignAway, AssignTyped
  <2>2. CASE parser.mode = "quoted"
    <3>1. next = Continue(parser, parser.line)
      BY <2>2
    <3> QED
      BY <1>1, <3>1, ContinueAway, ContinueTyped
  <2>3. CASE parser.mode \notin {"plain", "quoted"}
    BY <2>3
  <2> QED
    BY <2>1, <2>2, <2>3
<1>3. EndLine(parser) = [next EXCEPT !.line = <<>>]
  BY DEF EndLine
<1> HIDE DEF next
<1>4. EndLine(parser).name = next.name /\ EndLine(parser).values = next.values
  BY <1>2, <1>3 DEF Parsers
<1>5. EndLine(parser).line = <<>>
  BY EndLineTyped
<1>6. Avoids(<<>>, name)
  BY EmptyIsText DEF Avoids
<1> QED
  BY <1>2, <1>4, <1>5, <1>6 DEF Away

\* A token that is not the name
LEMMA ConsumeAway ==
  ASSUME NEW parser \in Parsers, NEW name \in Names, NEW value, Away(parser, name, value),
         NEW token \in Tokens, token # name
  PROVE  Away(Consume(parser, token), name, value)
<1>1. CASE token = "nl"
  BY <1>1, EndLineAway DEF Consume, Away
<1>2. CASE token # "nl"
  <2>1. Consume(parser, token) = [parser EXCEPT !.line = Append(parser.line, token)]
    BY <1>2 DEF Consume, Parsers
  <2>2. parser.line \in Texts /\ Len(parser.line) \in Nat
    BY TextFacts DEF Parsers
  <2> DEFINE line == Append(parser.line, token)
  <2>3. /\ Len(line) = Len(parser.line) + 1
        /\ \A i \in 1..Len(parser.line) : line[i] = parser.line[i]
        /\ line[Len(parser.line) + 1] = token
    BY <2>2, AppendProperties DEF Texts
  <2> HIDE DEF line
  <2>4. Avoids(line, name)
    BY <2>2, <2>3 DEF Avoids, Away
  <2>5. /\ Consume(parser, token).line = line /\ Consume(parser, token).name = parser.name
        /\ Consume(parser, token).values = parser.values
    BY <2>1 DEF Parsers, line
  <2> QED
    BY <2>4, <2>5 DEF Away
<1> QED
  BY <1>1, <1>2

\* A text that does not have the name
LEMMA ReadAway ==
  ASSUME NEW text \in Texts, NEW more \in Texts, NEW name \in Names, Avoids(more, name),
         NEW value, Away(Read(text), name, value)
  PROVE  Away(Read(text \o more), name, value)
<1> DEFINE N == Len(more)
    part(n) == SubSeq(more, 1, n)
    S == {n \in Nat : n <= N => Away(Read(text \o part(n)), name, value)}
<1>1. N \in Nat /\ \A i \in 1..N : more[i] \in Tokens
  BY TextFacts
<1>2. \A n \in 0..N : part(n) \in Texts
  BY <1>1, PartIs
<1>3. 0 \in S
  <2>1. part(0) = <<>>
    BY SubSeqEmpty
  <2>2. text \o <<>> = text
    BY ConcatEmptySeq DEF Texts
  <2> QED
    BY <2>1, <2>2
<1>4. ASSUME NEW n \in Nat, n \in S PROVE n + 1 \in S
  <2> SUFFICES ASSUME n + 1 <= N PROVE Away(Read(text \o part(n + 1)), name, value)
    OBVIOUS
  <2> DEFINE p == part(n)
      x == more[n + 1]
  <2>1. n + 1 \in 1..N /\ n \in 0..N /\ (n + 1) - 1 = n
    BY <1>1
  <2>2. p \in Texts /\ x \in Tokens /\ x # name
    BY <1>1, <1>2, <2>1 DEF Avoids
  <2>3. part(n + 1) = p \o <<x>>
    <3>1. 1 \in 1..Len(more) /\ n + 1 \in 1..Len(more)
      BY <1>1, <2>1
    <3>2. SubSeq(more, 1, n + 1) = SubSeq(more, 1, (n + 1) - 1) \o <<more[n + 1]>>
      BY <3>1, SubSeqRecursiveSecond DEF Texts
    <3> QED
      BY <2>1, <3>2
  <2>4. <<x>> \in Texts
    BY <2>2, WordIsText
  <2>5. Away(Read(text \o p), name, value)
    BY <1>4, <2>1
  <2> HIDE DEF p, x
  <2>6. text \o p \in Texts
    BY <2>2, JoinIs
  <2>7. text \o (p \o <<x>>) = Append(text \o p, x)
    <3>1. Append(text \o p, x) = (text \o p) \o <<x>>
      BY <2>2, <2>6, AppendIsConcat DEF Texts
    <3> QED
      BY <2>2, <2>4, <3>1, JoinAssociates
  <2>8. Read(Append(text \o p, x)) = Consume(Read(text \o p), x)
    BY <2>2, <2>6, ReadAppend
  <2>9. Away(Consume(Read(text \o p), x), name, value)
    BY <2>2, <2>5, <2>6, ReadTyped, ConsumeAway
  <2> QED
    BY <2>3, <2>7, <2>8, <2>9
<1>5. N \in S
  BY <1>1, <1>3, <1>4, SetInduction
<1>6. part(N) = more
  BY SubSeqFull DEF Texts
<1>7. N <= N
  BY <1>1
<1> HIDE DEF N, part
<1>8. Away(Read(text \o part(N)), name, value)
  BY <1>5, <1>7
<1> QED
  BY <1>6, <1>8

\* What parseDotEnv returns of it
LEMMA ParseAway ==
  ASSUME NEW text \in Texts, NEW name \in Names, NEW value, Away(Read(text), name, value),
         Parse(text) \in Values
  PROVE  Parse(text)[name] = value
<1>1. Read(text) \in Parsers
  BY ReadTyped
<1>2. Away(EndLine(Read(text)), name, value)
  BY <1>1, EndLineAway DEF Away
<1>3. Parse(text) = EndLine(Read(text)).values
  BY FileAssumption DEF Parse
<1> QED
  BY <1>2, <1>3 DEF Away

\* A file that does not have the name
LEMMA NeverGiven ==
  ASSUME NEW text \in Texts, NEW name \in Names, Avoids(text, name)
  PROVE  Away(Read(text), name, <<>>)
<1>1. Away(Start, name, <<>>)
  <2>1. /\ Start.line = <<>> /\ Start.name = <<>> /\ Start.values = NoValues
        /\ NoValues[name] = <<>>
    BY DEF Start, NoValues
  <2>2. Avoids(<<>>, name)
    BY EmptyIsText DEF Avoids
  <2> QED
    BY <2>1, <2>2 DEF Away
<1>2. <<>> \in Texts /\ <<>> \o text = text
  BY EmptyIsText, ConcatEmptySeq DEF Texts
<1>3. Away(Read(<<>> \o text), name, <<>>)
  BY <1>1, <1>2, ReadEmpty, ReadAway
<1> QED
  BY <1>2, <1>3

\* A text is its beginning and the rest.
LEMMA SplitAt ==
  ASSUME NEW text \in Texts, NEW n \in 0..Len(text)
  PROVE  /\ SubSeq(text, 1, n) \in Texts /\ SubSeq(text, n + 1, Len(text)) \in Texts
         /\ text = SubSeq(text, 1, n) \o SubSeq(text, n + 1, Len(text))
<1> DEFINE s == SubSeq(text, 1, n)
    t == SubSeq(text, n + 1, Len(text))
    N == Len(text)
<1>1. N \in Nat
  BY TextFacts
<1>2. /\ 1 \in Nat /\ 1 >= 1 /\ n \in Int /\ n <= N
      /\ n + 1 \in Nat /\ n + 1 >= 1 /\ N \in Int /\ N <= N
  BY <1>1
<1>3. /\ s \in Texts /\ Len(s) = IF 1 <= n THEN n - 1 + 1 ELSE 0
      /\ \A i \in 1..n - 1 + 1 : s[i] = text[1 + i - 1]
  BY <1>2, PartIs
<1>4. /\ t \in Texts /\ Len(t) = IF n + 1 <= N THEN N - (n + 1) + 1 ELSE 0
      /\ \A i \in 1..N - (n + 1) + 1 : t[i] = text[n + 1 + i - 1]
  BY <1>2, PartIs
<1> HIDE DEF s, t
<1>5. /\ s \o t \in Texts /\ Len(s \o t) = Len(s) + Len(t)
      /\ \A i \in 1..Len(s) + Len(t) : (s \o t)[i] = IF i <= Len(s) THEN s[i] ELSE t[i - Len(s)]
  BY <1>3, <1>4, JoinIs
<1> DEFINE u == s \o t
<1> HIDE DEF u
<1>6. Len(s) = n /\ Len(t) = N - n /\ u \in Texts /\ Len(u) = N
  <2>1. u \in Texts /\ Len(u) = Len(s) + Len(t) /\ n \in 0..N
    BY <1>5 DEF u
  <2> HIDE DEF N
  <2>2. Len(s) = n
    BY <1>1, <1>3, <2>1
  <2>3. Len(t) = N - n
    BY <1>1, <1>4, <2>1
  <2> QED
    BY <1>1, <2>1, <2>2, <2>3
<1>7. ASSUME NEW i \in 1..N PROVE u[i] = text[i]
  <2>1. u[i] = IF i <= n THEN s[i] ELSE t[i - n]
    BY <1>1, <1>5, <1>6 DEF u
  <2>2. CASE i <= n
    <3>1. i \in 1..n - 1 + 1 /\ 1 + i - 1 = i
      BY <1>1, <2>2
    <3> QED
      BY <1>3, <2>1, <2>2, <3>1
  <2>3. CASE ~ (i <= n)
    <3>1. i - n \in 1..N - (n + 1) + 1 /\ n + 1 + (i - n) - 1 = i
      BY <1>1, <2>3
    <3>2. t[i - n] = text[n + 1 + (i - n) - 1]
      BY <1>4, <3>1
    <3> QED
      BY <2>1, <2>3, <3>1, <3>2
  <2> QED
    BY <2>2, <2>3
<1>8. text = u
  BY <1>6, <1>7, SameText
<1> QED
  BY <1>3, <1>4, <1>8 DEF s, t, u

\* After a line feed the line is over.
LEMMA LineOver ==
  ASSUME NEW text \in Texts, text = <<>> \/ text[Len(text)] = "nl"
  PROVE  Read(text).line = <<>>
<1>1. CASE text = <<>>
  BY <1>1, ReadEmpty DEF Start
<1>2. CASE text # <<>>
  <2> DEFINE N == Len(text)
      p == SubSeq(text, 1, N - 1)
  <2>1. N \in Nat /\ N >= 1 /\ N \in 1..N /\ 1 \in 1..N
    BY <1>2, TextFacts
  <2>2. p \in Texts
    <3>1. 1 \in Nat /\ 1 >= 1 /\ N - 1 \in Int /\ N - 1 <= Len(text)
      BY <2>1
    <3> QED
      BY <3>1, PartIs
  <2>3. text = p \o <<text[N]>>
    <3>1. SubSeq(text, 1, N) = SubSeq(text, 1, N - 1) \o <<text[N]>>
      BY <2>1, SubSeqRecursiveSecond DEF Texts
    <3>2. SubSeq(text, 1, N) = text
      BY SubSeqFull DEF Texts
    <3> QED
      BY <3>1, <3>2
  <2>4. text[N] = "nl" /\ "nl" \in Tokens
    BY <1>2, MarksAreTokens
  <2> HIDE DEF p
  <2>5. text = Append(p, "nl")
    BY <2>2, <2>3, <2>4, AppendIsConcat DEF Texts
  <2>6. Read(text) = EndLine(Read(p))
    BY <2>2, <2>4, <2>5, ReadAppend DEF Consume
  <2> QED
    BY <2>2, <2>6, ReadTyped, EndLineTyped
<1> QED
  BY <1>1, <1>2

\* The end of the line name=v outside quotes
LEMMA EndLineGiven ==
  ASSUME NEW parser \in Parsers, NEW name \in Names, NEW v \in Texts, parser.mode = "plain",
         parser.line = <<name, "=">> \o v, ~ Opens(Trim(v)), parser.name # <<name>>
  PROVE  Away(EndLine(parser), name, Content(Trim(v)))
<1> DEFINE line == Trim(parser.line)
    value == Content(Trim(v))
    next == Set(parser, <<name>>, value)
<1>1. Assign(parser, line) = next
  BY LineAssigned
<1>2. value \in Texts
  BY TrimShape, ContentTyped
<1> HIDE DEF value
<1>3. /\ next \in Parsers /\ next.values[name] = value /\ next.name = parser.name
  <2>1. next.name = parser.name
    BY DEF Set, Parsers
  <2> QED
    BY <1>2, <2>1, SetTyped
<1>4. EndLine(parser) = [next EXCEPT !.line = <<>>]
  BY <1>1 DEF EndLine
<1> HIDE DEF next
<1>5. /\ EndLine(parser).name = next.name /\ EndLine(parser).values = next.values
      /\ EndLine(parser).line = <<>>
  BY <1>3, <1>4 DEF Parsers
<1>6. Avoids(<<>>, name)
  BY EmptyIsText DEF Avoids
<1> QED
  BY <1>3, <1>5, <1>6 DEF Away, value

\* A file whose only line with a name is name=v: either it is inside quotes, and
\* nothing is read of it, or what it says is read.
LEMMA GivenOnce ==
  ASSUME NEW before \in Texts, NEW name \in Names, NEW v \in Texts, NEW rest \in Texts,
         Avoids(before, name), Avoids(rest, name), \A i \in 1..Len(v) : v[i] # "nl",
         before = <<>> \/ before[Len(before)] = "nl", rest = <<>> \/ rest[1] = "nl",
         ~ Opens(Trim(v)), NEW text, text = (before \o (<<name, "=">> \o v)) \o rest,
         Parse(text) \in Values
  PROVE  Parse(text)[name] \in {<<>>, Content(Trim(v))}
<1> DEFINE line == <<name, "=">> \o v
    parser == Read(before)
    there == Read(before \o line)
    ended == EndLine(there)
<1>1. /\ line \in Texts /\ \A i \in 1..Len(line) : line[i] # "nl"
  BY NamePartIs
<1>2. parser \in Parsers /\ parser.line = <<>> /\ Away(parser, name, <<>>)
  BY ReadTyped, LineOver, NeverGiven
<1>3. there = [parser EXCEPT !.line = parser.line \o line]
  BY <1>1, ReadMore
<1>4. parser.line \o line = line
  BY <1>1, <1>2, ConcatEmptySeq DEF Texts
<1>5. before \o line \in Texts
  BY <1>1, JoinIs
<1> HIDE DEF parser
<1>6. /\ there \in Parsers /\ there.line = line /\ there.name # <<name>>
      /\ there.values[name] = <<>>
  <2>1. there = [parser EXCEPT !.line = line]
    BY <1>3, <1>4
  <2> HIDE DEF there, line
  <2> QED
    BY <1>1, <1>2, <2>1 DEF Parsers, Away
<1>7. PICK value \in {<<>>, Content(Trim(v))} : Away(ended, name, value)
  <2> HIDE DEF there
  <2>1. CASE there.mode = "plain"
    BY <1>6, <2>1, EndLineGiven
  <2>2. CASE there.mode # "plain"
    BY <1>6, <2>2, EndLineAway
  <2> QED
    BY <2>1, <2>2
<1>8. CASE rest = <<>>
  <2>1. text = before \o line
    BY <1>5, <1>8, ConcatEmptySeq DEF Texts
  <2>2. Parse(text) = ended.values
    BY <2>1, FileAssumption DEF Parse
  <2> QED
    BY <1>7, <2>2 DEF Away
<1>9. CASE rest # <<>>
  <2> DEFINE first == SubSeq(rest, 1, 1)
      others == SubSeq(rest, 2, Len(rest))
      upTo == Append(before \o line, "nl")
  <2>1. Len(rest) \in Nat /\ Len(rest) >= 1 /\ 1 \in 0..Len(rest) /\ "nl" \in Tokens
    BY <1>9, TextFacts, MarksAreTokens
  <2>2. first \in Texts /\ others \in Texts /\ rest = first \o others
    <3>1. 1 + 1 = 2
      OBVIOUS
    <3> QED
      BY <2>1, <3>1, SplitAt
  <2>3. first = <<"nl">>
    <3>1. Len(first) = 1 /\ first[1] = rest[1]
      <4>1. 1 \in Nat /\ 1 >= 1 /\ 1 \in Int /\ 1 <= Len(rest) /\ 1 \in 1..1 - 1 + 1 /\ 1 + 1 - 1 = 1
        BY <2>1
      <4> QED
        BY <4>1, PartIs
    <3>2. <<"nl">> \in Texts /\ Len(<<"nl">>) = 1 /\ <<"nl">>[1] = "nl"
      BY <2>1, WordIsText
    <3> HIDE DEF first
    <3> QED
      BY <1>9, <2>2, <3>1, <3>2, SameText
  <2>4. Avoids(others, name)
    <3>1. 2 \in Nat /\ 2 >= 1 /\ Len(rest) \in Int /\ Len(rest) <= Len(rest)
      BY <2>1
    <3> QED
      BY <3>1, PartAvoids
  <2> HIDE DEF first, others, line
  <2>5. upTo \in Texts /\ upTo = (before \o line) \o <<"nl">>
    BY <1>5, <2>1, AppendProperties, AppendIsConcat DEF Texts
  <2>6. text = upTo \o others
    <3>1. text = (before \o line) \o (<<"nl">> \o others)
      BY <2>2, <2>3 DEF line
    <3> DEFINE s == before \o line
        t == <<"nl">>
    <3>2. s \in Texts /\ t \in Texts /\ upTo = s \o t /\ text = s \o (t \o others)
      BY <1>5, <2>2, <2>3, <2>5, <3>1
    <3> HIDE DEF s, t, upTo
    <3>3. Joined(s, t, others)
      BY <2>2, <3>2, JoinedAlways
    <3> QED
      BY <3>2, <3>3 DEF Joined
  <2>7. Read(upTo) = ended
    BY <1>5, <2>1, ReadAppend DEF Consume
  <2> HIDE DEF upTo, ended
  <2>8. Away(Read(text), name, value)
    BY <1>7, <2>2, <2>4, <2>5, <2>6, <2>7, ReadAway
  <2>9. text \in Texts
    BY <2>2, <2>5, <2>6, JoinIs
  <2> QED
    BY <1>7, <2>8, <2>9, ParseAway
<1> QED
  BY <1>8, <1>9
=============================================================================
