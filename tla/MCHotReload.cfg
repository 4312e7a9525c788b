SPECIFICATION Spec
CONSTANTS
  Configs <- MixedConfigs
  Bad = Bad
  None = None
  MaxEdits = 2
  MaxConns = 1
  Platform = "windows"
  Faults = TRUE
INVARIANTS
  ComponentsMatchConfig
  CaptureHasTargets
  QuietIsConsistent
  GenerationsAscend
  StoppedIsDrained
  ConfigFollowsFile
PROPERTIES
  OnlyForward
  Converges
  ShutdownCompletes
