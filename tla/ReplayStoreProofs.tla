-------------------------- MODULE ReplayStoreProofs --------------------------
(***************************************************************************)
(* What ReplayStore promises, for any callers, names and seconds: its      *)
(* types, the agreement of the map with the grants, at most one grant per  *)
(* command within its window, and that it implements ReplayGuard.          *)
(***************************************************************************)
EXTENDS ReplayStore, TLAPS

StoreInv == TypeOK /\ EntriesMatchGrants /\ AtMostOnce

(***************************************************************************)
(* A key of one claim is a key of another exactly when they clash: the     *)
(* prefixes keep an id and a nonce apart (store.go, commandKey, nonceKey). *)
(***************************************************************************)
LEMMA KeysMeetOnClash ==
  ASSUME NEW c, NEW d
  PROVE  KeysOf(c) \cap KeysOf(d) # {} <=> Guard!Clash(c, d)
<1>1. CommandKey(c.id) # NonceKey(d.nonce) /\ CommandKey(d.id) # NonceKey(c.nonce)
  BY DEF CommandKey, NonceKey
<1>2. CommandKey(c.id) = CommandKey(d.id) <=> c.id = d.id
  BY DEF CommandKey
<1>3. NonceKey(c.nonce) = NonceKey(d.nonce) <=> c.nonce = d.nonce
  BY DEF NonceKey
<1> QED
  BY <1>1, <1>2, <1>3 DEF KeysOf, Guard!Clash

\* The keys of a claim are keys of the map (store.go, Claim).
LEMMA KeysOfTyped == \A c \in Guard!Claims : KeysOf(c) \subseteq Keys
  BY DEF Guard!Claims, KeysOf, Keys, CommandKey, NonceKey

(***************************************************************************)
(* A claim that finds neither of its keys after the purge clashes only     *)
(* with grants past their end (store.go, Claim).                           *)
(***************************************************************************)
LEMMA FreeKeysMeanExpired ==
  ASSUME TypeOK, EntriesMatchGrants,
         NEW c \in Guard!Claims, NEW n \in Seconds,
         KeysOf(c) \cap Live(n) = {},
         NEW g \in grants, Guard!Clash(g, c)
  PROVE  g.until <= Guard!Later(horizon, n)
<1>1. g.until \in Int /\ horizon \in Int /\ n \in Int
  <2>1. g \in Guard!Claims
    BY DEF TypeOK
  <2>2. g.until \in Untils
    BY <2>1 DEF Guard!Claims
  <2>3. horizon \in Int
    BY SecondsAssumption DEF TypeOK
  <2> QED
    BY <2>2, <2>3, SecondsAssumption
<1>2. CASE g.until <= horizon
  BY <1>1, <1>2 DEF Guard!Later
<1>3. CASE g.until > horizon
  <2>1. PICK k \in KeysOf(g) \cap KeysOf(c) : TRUE
    BY KeysMeetOnClash
  <2>2. k \in DOMAIN entries /\ entries[k] = g.until
    BY <1>3, <2>1 DEF EntriesMatchGrants, GrantsRemembered
  <2>3. ~(entries[k] > n)
    BY <2>1, <2>2 DEF Live
  <2> QED
    BY <1>1, <2>2, <2>3 DEF Guard!Later
<1> QED
  BY <1>1, <1>2, <1>3

(***************************************************************************)
(* A claim that finds one of its keys after the purge clashes with a grant *)
(* still in force at the caller's own second (store.go, Claim).            *)
(***************************************************************************)
LEMMA LiveKeyMeansClash ==
  ASSUME EntriesMatchGrants,
         NEW c \in Guard!Claims, NEW n \in Seconds,
         KeysOf(c) \cap Live(n) # {}
  PROVE  \E g \in grants : Guard!Clash(g, c) /\ n < g.until
<1>1. PICK k \in KeysOf(c) : k \in DOMAIN entries /\ entries[k] > n
  BY DEF Live
<1>2. PICK g \in grants : k \in KeysOf(g) /\ entries[k] = g.until
  BY <1>1 DEF EntriesMatchGrants, EntriesFromGrants
<1>3. Guard!Clash(g, c)
  BY <1>1, <1>2, KeysMeetOnClash
<1>4. n < g.until
  BY <1>1, <1>2
<1> QED
  BY <1>3, <1>4

\* The invariant holds of a new store (store.go, NewStore).
LEMMA NewStoreInv == Init => StoreInv
  BY DEF Init, StoreInv, TypeOK, EntriesMatchGrants, EntriesFromGrants,
         GrantsRemembered, AtMostOnce, Guard!AtMostOnce

\* A granted claim preserves the invariant (store.go, Claim returning nil).
LEMMA GrantKeepsInv ==
  ASSUME StoreInv, NEW c \in Guard!Claims, NEW n \in Seconds, Grant(c, n)
  PROVE  StoreInv'
<1> USE DEF StoreInv
<1>1. horizon \in Int /\ n \in Int /\ horizon' \in Int /\ horizon <= horizon'
      /\ horizon' \in {0} \cup Seconds /\ n <= horizon'
  BY SecondsAssumption DEF TypeOK, Grant, Guard!Later
<1>2. \A g \in grants' : g \in Guard!Claims /\ g.until \in Int /\ g.until \in Untils
  BY SecondsAssumption DEF TypeOK, Grant, Guard!Claims
<1>3. \A k \in DOMAIN entries' :
        IF k \in KeysOf(c) THEN entries'[k] = c.until
        ELSE k \in DOMAIN entries /\ entries[k] > n /\ entries'[k] = entries[k]
  BY DEF Grant, Live
<1>4. DOMAIN entries' = Live(n) \cup KeysOf(c) /\ c \in grants' /\ grants' = grants \cup {c}
  BY DEF Grant
<1>5. TypeOK'
  BY <1>1, <1>2, <1>3, <1>4, KeysOfTyped DEF TypeOK, Live
<1>6. EntriesFromGrants'
  BY <1>3, <1>4 DEF EntriesMatchGrants, EntriesFromGrants
<1>7. \A g \in grants : Guard!Clash(g, c) => g.until <= horizon'
  BY FreeKeysMeanExpired DEF Grant
<1>8. GrantsRemembered'
  <2> SUFFICES ASSUME NEW g \in grants', g.until > horizon', NEW k \in KeysOf(g)
               PROVE  k \in DOMAIN entries' /\ entries'[k] = g.until
    BY DEF GrantsRemembered
  <2>1. CASE g = c
    BY <2>1, <1>3, <1>4
  <2>2. CASE g # c
    <3>1. g \in grants /\ g.until > horizon /\ g.until > n
      BY <2>2, <1>1, <1>2, <1>4
    <3>2. k \in Live(n) /\ entries[k] = g.until
      BY <3>1 DEF EntriesMatchGrants, GrantsRemembered, Live
    <3>3. k \notin KeysOf(c)
      <4>1. ~ Guard!Clash(g, c)
        BY <3>1, <1>1, <1>2, <1>7
      <4> QED
        BY <4>1, KeysMeetOnClash
    <3> QED
      BY <1>3, <1>4, <3>2, <3>3
  <2> QED
    BY <2>1, <2>2
<1>9. AtMostOnce'
  <2> SUFFICES ASSUME NEW g \in grants', NEW h \in grants', g # h, Guard!Clash(g, h)
               PROVE  g.until <= horizon' \/ h.until <= horizon'
    BY DEF AtMostOnce, Guard!AtMostOnce
  <2>1. CASE g \in grants /\ h \in grants
    <3>1. g.until <= horizon \/ h.until <= horizon
      BY <2>1 DEF AtMostOnce, Guard!AtMostOnce
    <3> QED
      BY <3>1, <1>1, <1>2
  <2>2. CASE h = c
    BY <2>2, <1>4, <1>7
  <2>3. CASE g = c
    <3>1. Guard!Clash(h, c)
      BY <2>3 DEF Guard!Clash
    <3> QED
      BY <2>3, <3>1, <1>4, <1>7
  <2> QED
    BY <2>1, <2>2, <2>3, <1>4
<1> QED
  BY <1>5, <1>6, <1>8, <1>9 DEF EntriesMatchGrants

\* A refused claim, which still purges, preserves it (store.go, Claim).
LEMMA RefuseKeepsInv ==
  ASSUME StoreInv, NEW c \in Guard!Claims, NEW n \in Seconds, Refuse(c, n)
  PROVE  StoreInv'
<1> USE DEF StoreInv
<1>1. horizon \in Int /\ n \in Int /\ horizon' \in Int /\ horizon <= horizon'
      /\ horizon' \in {0} \cup Seconds /\ n <= horizon'
  BY SecondsAssumption DEF TypeOK, Refuse, Guard!Later
<1>2. grants' = grants /\ \A g \in grants : g.until \in Int
  BY SecondsAssumption DEF TypeOK, Refuse, Guard!Claims
<1>3. DOMAIN entries' = Live(n) /\ \A k \in Live(n) : entries'[k] = entries[k]
  BY DEF Refuse
<1>4. TypeOK'
  BY <1>1, <1>2, <1>3 DEF TypeOK, Live
<1>5. EntriesFromGrants'
  BY <1>2, <1>3 DEF EntriesMatchGrants, EntriesFromGrants, Live
<1>6. GrantsRemembered'
  BY <1>1, <1>2, <1>3 DEF EntriesMatchGrants, GrantsRemembered, Live
<1>7. AtMostOnce'
  BY <1>1, <1>2 DEF AtMostOnce, Guard!AtMostOnce
<1> QED
  BY <1>4, <1>5, <1>6, <1>7 DEF EntriesMatchGrants

\* Every step of the store preserves the invariant (store.go, Claim, NewStore).
LEMMA StepKeepsInv == StoreInv /\ [Next]_vars => StoreInv'
<1> SUFFICES ASSUME StoreInv, [Next]_vars PROVE StoreInv'
  OBVIOUS
<1>1. ASSUME NEW c \in Guard!Claims, NEW n \in Seconds, Grant(c, n) PROVE StoreInv'
  BY <1>1, GrantKeepsInv
<1>2. ASSUME NEW c \in Guard!Claims, NEW n \in Seconds, Refuse(c, n) PROVE StoreInv'
  BY <1>2, RefuseKeepsInv
<1>3. CASE NewStore
  BY <1>3 DEF NewStore, StoreInv, TypeOK, EntriesMatchGrants, EntriesFromGrants,
              GrantsRemembered, AtMostOnce, Guard!AtMostOnce
<1>4. CASE UNCHANGED vars
  BY <1>4 DEF vars, StoreInv, TypeOK, EntriesMatchGrants, EntriesFromGrants,
              GrantsRemembered, AtMostOnce, Guard!AtMostOnce, KeysOf
<1> QED
  BY <1>1, <1>2, <1>3, <1>4 DEF Next

-----------------------------------------------------------------------------
\* The whole invariant holds in every reachable state (store.go).
THEOREM StoreInvHolds == Spec => []StoreInv
  BY NewStoreInv, StepKeepsInv, PTL DEF Spec

\* The map and the history keep their types (store.go).
THEOREM StoreTyped == Spec => []TypeOK
  BY StoreInvHolds, PTL DEF StoreInv

\* Out-of-order clocks never lose an entry still needed (store.go, Claim).
THEOREM StoreRemembers == Spec => []EntriesMatchGrants
  BY StoreInvHolds, PTL DEF StoreInv

\* A command is granted at most once before its end (store.go, Claim).
THEOREM StoreGrantsOnce == Spec => []AtMostOnce
  BY StoreInvHolds, PTL DEF StoreInv

(***************************************************************************)
(* The store implements the guard: every Claim is a grant or a refusal the *)
(* guard allows (store.go, Claim and NewStore).                            *)
(***************************************************************************)
THEOREM StoreImplementsGuard == Spec => GuardSpec
<1>1. Init => Guard!Init
  BY DEF Init, Guard!Init
<1>2. StoreInv /\ [Next]_vars => [Guard!Next]_(Guard!vars)
  <2> SUFFICES ASSUME StoreInv, [Next]_vars PROVE [Guard!Next]_(Guard!vars)
    OBVIOUS
  <2>1. ASSUME NEW c \in Guard!Claims, NEW n \in Seconds, Grant(c, n)
        PROVE  Guard!Grant(c, n)
    BY <2>1, FreeKeysMeanExpired DEF Grant, Guard!Grant, StoreInv
  <2>2. ASSUME NEW c \in Guard!Claims, NEW n \in Seconds, Refuse(c, n)
        PROVE  Guard!Refuse(c, n)
    BY <2>2, LiveKeyMeansClash DEF Refuse, Guard!Refuse, StoreInv
  <2>3. CASE NewStore
    BY <2>3 DEF NewStore, Guard!Renew, Guard!Next
  <2>4. CASE UNCHANGED vars
    BY <2>4 DEF vars, Guard!vars
  <2> QED
    BY <2>1, <2>2, <2>3, <2>4 DEF Next, Guard!Next
<1> QED
  BY <1>1, <1>2, StoreInvHolds, PTL DEF Spec, GuardSpec, Guard!Spec
=============================================================================
