CONSTANTS
  p1 = p1
  p2 = p2
  t1 = t1
  Ports <- OnePort
  EnvFiles <- SomeEnvFiles
  Broken = Broken
  Tools <- OneTool
  Forms <- SomeForms
  NoPort = NoPort
  DefaultPort = p1
  NoForm = NoForm

SPECIFICATION InstallerSpec

INVARIANT InstallerTypeOK
PROPERTY InstallStartsSavedFile
