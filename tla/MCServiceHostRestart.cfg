CONSTANTS
  p1 = p1
  p2 = p2
  Ports <- TwoPorts
  EnvFiles <- TwoEnvFiles
  Broken = Broken

SPECIFICATION HostSpec

PROPERTY FailureRestarts
