SPECIFICATION Spec
CONSTANTS
  Configs <- KindConfigs
  Bad = Bad
  None = None
  MaxEdits = 1
  MaxConns = 1
  Platform = "windows"
  Faults = FALSE
INVARIANT
  ReportedFakeDnsRuns
