CONSTANTS
  r1 = r1
  r2 = r2
  r3 = r3
  key = key
  here = here
  elsewhere = elsewhere
  i1 = i1
  i2 = i2
  n1 = n1
  n2 = n2
  Absent = Absent
  NoCommand = NoCommand
  PublicKey = key
  DeviceID = here
  TicksPerSecond = 2
  ClockSkew = 1
  MaxValidity = 1
  Requests <- ThreeRequests
  Commands <- Valid
  MaxClock = 5
  MaxStarts = 1
  ClockSteps = FALSE

SPECIFICATION Spec

CHECK_DEADLOCK FALSE

SYMMETRY RequestSymmetry

PROPERTY RepeatRefusedWhileOpen
