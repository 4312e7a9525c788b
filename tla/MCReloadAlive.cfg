SPECIFICATION Spec
CONSTANTS
  Configs <- PortConfigs
  Bad = Bad
  None = None
  MaxEdits = 1
  MaxConns = 1
  Platform = "unix"
  Faults = FALSE
INVARIANT
  ProcessStaysAlive
