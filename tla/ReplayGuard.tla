----------------------------- MODULE ReplayGuard -----------------------------
(***************************************************************************)
(* What Sentinel's replay protection promises, without saying how it       *)
(* stores anything: the port command.ReplayProtector                       *)
(* (sentinel/src/command/service.go).  A claim names a command id, a nonce *)
(* and the second until which they must not be granted again.  The guard   *)
(* remembers the claims it granted and the latest second any caller        *)
(* claimed at, the horizon.                                                *)
(***************************************************************************)
EXTENDS Integers

CONSTANTS
  Callers,   \* whoever calls Claim; one claim each
  Ids,       \* command identifiers
  Nonces,    \* nonces
  Untils,    \* the seconds a claim may ask to be remembered until
  Seconds    \* the seconds at which claims may be made

VARIABLES
  grants,    \* the claims granted since the guard was created
  horizon    \* the latest second at which a claim was made

vars == <<grants, horizon>>

Claims == [caller : Callers, id : Ids, nonce : Nonces, until : Untils]

\* Two claims that must not both be granted while either is remembered.
Clash(c, d) == c.id = d.id \/ c.nonce = d.nonce

Later(m, n) == IF m < n THEN n ELSE m

-----------------------------------------------------------------------------
Init ==
  /\ grants = {}
  /\ horizon = 0

\* A claim is granted only if the horizon has reached the end of every grant
\* it clashes with.
Grant(c, n) ==
  /\ horizon' = Later(horizon, n)
  /\ \A g \in grants : g.caller # c.caller
  /\ \A g \in grants : Clash(g, c) => g.until <= horizon'
  /\ grants' = grants \cup {c}

\* A claim is refused only because of a grant the caller's own clock still
\* finds in force.
Refuse(c, n) ==
  /\ horizon' = Later(horizon, n)
  /\ \E g \in grants : Clash(g, c) /\ n < g.until
  /\ UNCHANGED grants

\* A new guard, created when the process starts, remembers nothing.
Renew ==
  /\ grants' = {}
  /\ horizon' = 0

Next ==
  \/ \E c \in Claims, n \in Seconds : Grant(c, n) \/ Refuse(c, n)
  \/ Renew

Spec == Init /\ [][Next]_vars

-----------------------------------------------------------------------------
(***************************************************************************)
(* Of two grants that share the command id or the nonce, one is already    *)
(* past its end: as long as no claim has been made at or after a command's *)
(* last second, that command has been granted at most once.                *)
(***************************************************************************)
AtMostOnce ==
  \A g, h \in grants :
    g # h /\ Clash(g, h) => g.until <= horizon \/ h.until <= horizon
=============================================================================
