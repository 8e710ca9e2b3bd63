CONSTANTS
  r1 = r1
  r2 = r2
  r3 = r3
  key = key
  here = here
  elsewhere = elsewhere
  i1 = i1
  i2 = i2
  n1 = n1
  n2 = n2
  Absent = Absent
  NoCommand = NoCommand
  PublicKey = key
  DeviceID = here
  TicksPerSecond = 1
  ClockSkew = 1
  MaxValidity = 1
  Requests <- TwoRequests
  Commands <- Mixed
  MaxClock = 3
  MaxStarts = 2
  ClockSteps = TRUE

SPECIFICATION FairSpec

CHECK_DEADLOCK FALSE

INVARIANT TypeOK
INVARIANT AnswersTellTheTruth
PROPERTY AcknowledgedRuns
