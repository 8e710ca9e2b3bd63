CONSTANTS
  c1 = c1
  c2 = c2
  c3 = c3
  x = x
  y = y
  Callers <- MCCallers
  Ids <- MCNames
  Nonces <- MCNames
  Untils <- MCUntils
  Seconds <- MCSeconds

SPECIFICATION Spec

INVARIANT TypeOK
INVARIANT EntriesMatchGrants
INVARIANT AtMostOnce
PROPERTY GuardSpec
