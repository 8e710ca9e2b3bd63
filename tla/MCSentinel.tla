----------------------------- MODULE MCSentinel -----------------------------
(***************************************************************************)
(* A small instance of Sentinel: two ticks to the second, a skew of one    *)
(* second, and commands whose windows end one second apart, so that claims *)
(* can be made before, at and after the instant a window closes.           *)
(***************************************************************************)
EXTENDS SentinelClaims, TLC

CONSTANTS r1, r2, r3, key, here, elsewhere, i1, i2, n1, n2

Body(device, id, nonce, issued, expires) ==
  [version |-> ProtocolVersion, commandId |-> id, deviceId |-> device,
   action |-> ActionHibernate, issuedAt |-> issued, expiresAt |-> expires,
   nonce |-> nonce, signature |-> 0]

Signed(c, k) == [c EXCEPT !.signature = Sign(k, Canonical(c))]

First == Signed(Body(here, i1, n1, 0, 1), key)
Second == Signed(Body(here, i2, n2, 1, 2), key)
SecondReusingNonce == Signed(Body(here, i2, n1, 1, 2), key)
Foreign == Signed(Body(elsewhere, i1, n1, 0, 1), key)
Altered == [First EXCEPT !.expiresAt = 2]

TwoRequests == {r1, r2}
ThreeRequests == {r1, r2, r3}
Valid == {First, Second}
Mixed == {First, SecondReusingNonce, Foreign, Altered}
One == {First}

RequestSymmetry == Permutations(Requests)
=============================================================================
