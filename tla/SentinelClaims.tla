--------------------------- MODULE SentinelClaims ---------------------------
(***************************************************************************)
(* What the repository says of Sentinel and the code does not do: each of  *)
(* these is violated by a behaviour of module Sentinel.                    *)
(***************************************************************************)
EXTENDS Sentinel

(***************************************************************************)
(* "ReplayUntil keeps a replay entry through the clock-skew allowance"     *)
(* (policy.go): while the policy would still approve a command accepted    *)
(* since the process started, a claim made now finds its id and its nonce. *)
(* Validate admits the very instant expiresAt + skew, at which Claim       *)
(* already purges the entries (expiry <= nowUnix).                         *)
(***************************************************************************)
EntryKeptThroughAllowance ==
  \A r \in accepted :
    ClaimOf(r) \in grants /\ Validate(cmd[r], clock) = "ok"
      => Store!KeysOf(ClaimOf(r)) \subseteq Store!Live(Unix(clock))

(***************************************************************************)
(* A repeated command is refused, and processed ids and nonces are kept    *)
(* for the whole window (docs/PLAN_HIBERNACION_SIRI.md): of two accepted   *)
(* requests that share one, the handler of at least one read its clock at  *)
(* or after the last second of its window.  A handler that read its clock  *)
(* before another's purge claims after it.                                 *)
(***************************************************************************)
RepeatRefused ==
  \A r, s \in accepted :
    r # s /\ Store!Guard!Clash(ClaimOf(r), ClaimOf(s))
      => \/ Unix(now[r]) >= ReplayUntil(cmd[r])
         \/ Unix(now[s]) >= ReplayUntil(cmd[s])
=============================================================================
