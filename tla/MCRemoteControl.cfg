CONSTANTS
  r1 = r1
  key = key
  here = here
  Absent = Absent
  NoCommand = NoCommand
  NoBody = NoBody
  PublicKey = key
  PrivateKey = key
  DeviceID = here
  TicksPerSecond = 2
  ClockSkew = 1
  MaxValidity = 2
  Validity = 2
  Requests <- OneOrder
  Bodies <- SomeBodies
  Commands <- BuiltCommands
  Offsets <- Apart
  MaxClock = 8
  MaxStarts = 2
  ClockSteps = FALSE

SPECIFICATION FairPathSpec

CHECK_DEADLOCK FALSE

INVARIANT PathTypeOK
INVARIANT AcceptedAnswerIsTrue
PROPERTY OrderSpec
PROPERTY RejectedOnlyIfLate
PROPERTY EveryOrderAnswered
