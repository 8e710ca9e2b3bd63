----------------------------- MODULE ReplayStore -----------------------------
(***************************************************************************)
(* Sentinel's replay store (sentinel/src/replay/store.go): a mutex and one *)
(* in-memory map from a prefixed command id or nonce to the second at      *)
(* which the entry may be forgotten.  Claim holds the mutex from its purge *)
(* to its last insertion, so a call is one atomic step; the calls of       *)
(* concurrent handlers arrive in any order, each with the `now' its caller *)
(* read earlier, which may be older than one already seen.                 *)
(*                                                                         *)
(* entries is the program's map; grants and horizon are history variables  *)
(* used to say what the store promises (module ReplayGuard).               *)
(***************************************************************************)
EXTENDS Integers

CONSTANTS Callers, Ids, Nonces, Untils, Seconds

\* Ends and clock readings are Unix seconds (time.Time.Unix).
ASSUME SecondsAssumption == Untils \subseteq Int /\ Seconds \subseteq Int

VARIABLES entries, grants, horizon

vars == <<entries, grants, horizon>>

Guard == INSTANCE ReplayGuard

\* Mutant of CommandKey: the prefix is missing.
CommandKeyUnprefixed(id) == id

CommandKey(id) == <<"command", id>>
NonceKey(nonce) == <<"nonce", nonce>>

Keys == ({"command"} \X Ids) \cup ({"nonce"} \X Nonces)

\* Mutant of KeysOf: the nonce is not remembered.
KeysOfCommandOnly(c) == {CommandKey(c.id)}

KeysOf(c) == {CommandKey(c.id), NonceKey(c.nonce)}

\* Mutant of Live: the purge runs a second late.
LiveLong(n) == {k \in DOMAIN entries : entries[k] >= n}

\* The keys the purging loop keeps: it deletes those with expiry <= nowUnix.
Live(n) == {k \in DOMAIN entries : entries[k] > n}

-----------------------------------------------------------------------------
Init ==
  /\ entries = [k \in {} |-> 0]
  /\ grants = {}
  /\ horizon = 0

\* Claim returns nil: neither key survived the purge, both are inserted.
Grant(c, n) ==
  /\ \A g \in grants : g.caller # c.caller
  /\ KeysOf(c) \cap Live(n) = {}
  /\ entries' = [k \in Live(n) \cup KeysOf(c) |->
                   IF k \in KeysOf(c) THEN c.until ELSE entries[k]]
  /\ grants' = grants \cup {c}
  /\ horizon' = Guard!Later(horizon, n)

\* Mutant of Refuse: each key is inserted as soon as it is found free, so that
\* a claim refused for its nonce leaves its command id behind.
RefuseKeyByKey(c, n) ==
  /\ KeysOf(c) \cap Live(n) # {}
  /\ LET kept == Live(n) \cup {CommandKey(c.id)}
     IN entries' = [k \in kept |-> IF k \in Live(n) THEN entries[k] ELSE c.until]
  /\ horizon' = Guard!Later(horizon, n)
  /\ UNCHANGED grants

\* Claim returns ErrAlreadyProcessed; the purge has still taken place.
Refuse(c, n) ==
  /\ KeysOf(c) \cap Live(n) # {}
  /\ entries' = [k \in Live(n) |-> entries[k]]
  /\ horizon' = Guard!Later(horizon, n)
  /\ UNCHANGED grants

\* NewStore, when Sentinel's process starts: nothing was persisted.
NewStore ==
  /\ entries' = [k \in {} |-> 0]
  /\ grants' = {}
  /\ horizon' = 0

Next ==
  \/ \E c \in Guard!Claims, n \in Seconds : Grant(c, n) \/ Refuse(c, n)
  \/ NewStore

Spec == Init /\ [][Next]_vars

-----------------------------------------------------------------------------
\* The types of the map and of the history.
TypeOK ==
  /\ DOMAIN entries \subseteq Keys
  /\ \A k \in DOMAIN entries : entries[k] \in Untils
  /\ grants \subseteq Guard!Claims
  /\ horizon \in {0} \cup Seconds

\* Every entry was put there by a grant, with that grant's end.
EntriesFromGrants ==
  \A k \in DOMAIN entries : \E g \in grants : k \in KeysOf(g) /\ entries[k] = g.until

\* A grant whose end the horizon has not reached is still known to the map,
\* by its id and by its nonce, until exactly its own end.
GrantsRemembered ==
  \A g \in grants :
    g.until > horizon =>
      \A k \in KeysOf(g) : k \in DOMAIN entries /\ entries[k] = g.until

(***************************************************************************)
(* The map and the history agree: an entry exists only because of a grant, *)
(* and purges driven by out-of-date or out-of-order clocks never lose an   *)
(* entry that is still needed.  This is the inductive invariant behind the *)
(* refinement below (store.go, Claim).                                     *)
(***************************************************************************)
EntriesMatchGrants == EntriesFromGrants /\ GrantsRemembered

(***************************************************************************)
(* The store implements the guard: whatever the order of the calls, a      *)
(* claim is granted only after the end of every clashing grant, and        *)
(* refused only because of one in force (store.go, Claim and NewStore).    *)
(***************************************************************************)
GuardSpec == Guard!Spec

\* Of two grants sharing an id or a nonce one is past its end (store.go, Claim).
AtMostOnce == Guard!AtMostOnce
=============================================================================
