CONSTANTS
  p1 = p1
  p2 = p2
  t1 = t1
  Ports <- TwoPorts
  EnvFiles <- SomeEnvFiles
  Broken = Broken
  Tools <- OneTool
  Forms <- GoodForms
  NoPort = NoPort
  DefaultPort = p1
  NoForm = NoForm

SPECIFICATION InstallerSpec

PROPERTY StartedWithThePort
