CONSTANTS
  Tokens <- AllTokens
  NoFile = NoFile
  Broken = Broken
  NoKey = NoKey
  NoConfig = NoConfig
  Panics = Panics
  NoBox = NoBox
  Ports <- PortWords
  Sizes <- SizeWords
  Skews <- SkewWords
  Validities <- ValidityWords
  PublicKeys <- PublicBodies
  PrivateKeys <- PrivateBodies
  Hostname <- Host
  HandFiles <- Hand
  KeysFiles <- KeysTxt
  PortTexts <- PortsTyped
  DeviceTexts <- DevicesTyped
  SkewTexts <- SkewsTyped
  KeyTexts <- KeySources
  Deployments <- Deployed
  MaxEdits = 2

SPECIFICATION Spec

INVARIANT SetupTypeOK
INVARIANT SavedIsRead
INVARIANT TornSaveFailsClosed
INVARIANT OpenDeviceIsRefused
INVARIANT SidesAgree
PROPERTY SavedIsShown
PROPERTY UntouchedSaveKeeps
