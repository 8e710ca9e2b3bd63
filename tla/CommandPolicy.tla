---------------------------- MODULE CommandPolicy ----------------------------
(***************************************************************************)
(* The functional core both programs share: the signed command of protocol *)
(* v1 and Sentinel's decision about it (sentinel/src/command/policy.go).   *)
(*                                                                         *)
(* A clock reading (time.Time) is a number of ticks since the epoch, with  *)
(* TicksPerSecond ticks in a second; commands carry whole seconds.  The    *)
(* strings of a command are opaque values, of which Absent is the empty    *)
(* one.                                                                    *)
(***************************************************************************)
EXTENDS Integers

CONSTANTS
  TicksPerSecond,   \* the resolution of the clock
  ClockSkew,        \* CLOCK_SKEW_SECONDS
  MaxValidity,      \* the longest window accepted, in seconds
  DeviceID,         \* DEVICE_ID of this Sentinel
  PublicKey,        \* the Relay's key
  Absent            \* an empty commandId or nonce

\* ValidateConfiguration; NewService refuses any other policy.
ASSUME PolicyAssumption ==
  /\ TicksPerSecond \in Nat \ {0}
  /\ ClockSkew \in Nat
  /\ MaxValidity \in Nat \ {0}

ProtocolVersion == 1
ActionHibernate == "hibernate"

\* time.Unix(s, 0) and t.Unix().
Instant(second) == second * TicksPerSecond
Unix(instant) == instant \div TicksPerSecond

\* The text Relay signs: every field but the signature, in a fixed order.
Canonical(c) ==
  <<c.version, c.commandId, c.deviceId, c.action, c.issuedAt, c.expiresAt, c.nonce>>

\* RSA-PSS: a signature is accepted under the key, and for the text, it was
\* made with and for; text that is not base64 is no signature of anything.
Sign(key, text) == [key |-> key, text |-> text]
VerifyPSS(key, text, signature) == signature = Sign(key, text)

-----------------------------------------------------------------------------
WellFormed(c) ==
  c.version = ProtocolVersion /\ c.commandId # Absent /\ c.nonce # Absent

WindowValid(c) ==
  /\ c.expiresAt > c.issuedAt
  /\ c.expiresAt - c.issuedAt <= MaxValidity

\* Both ends of the window, widened by the skew, belong to it.
Timely(c, now) ==
  /\ now >= Instant(c.issuedAt - ClockSkew)
  /\ now <= Instant(c.expiresAt + ClockSkew)

\* Policy.Validate: the first check that fails names the error.
Validate(c, now) ==
  IF ~ WellFormed(c) THEN "ErrInvalidCommand"
  ELSE IF c.deviceId # DeviceID THEN "ErrWrongDevice"
  ELSE IF c.action # ActionHibernate THEN "ErrUnsupportedAction"
  ELSE IF ~ WindowValid(c) THEN "ErrInvalidCommand"
  ELSE IF ~ Timely(c, now) THEN "ErrExpiredCommand"
  ELSE IF ~ VerifyPSS(PublicKey, Canonical(c), c.signature) THEN "ErrInvalidSignature"
  ELSE "ok"

\* Mutant of ReplayUntil: the skew is left out.
ReplayUntilExpiry(c) == c.expiresAt

\* The second until which the replay store must remember the command.
ReplayUntil(c) == c.expiresAt + ClockSkew
=============================================================================
