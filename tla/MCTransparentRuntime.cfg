SPECIFICATION Spec
CONSTANTS
  None = None
  Torn = Torn
  Clients = {1, 2}
  Streams = {1, 2}
  Names <- MCNames
  Captures <- MCCaptures
  CoreTasks <- MCCoreTasks
  Hellos <- MCHellos
  MaxStarts = 2
  MaxProcesses = 2
  MaxEvents = 3
INVARIANTS
  ChainsVerify
  RegistryTellsWhatRuns
  StoppedLeavesNothing
PROPERTY
  ProcessEnds
CHECK_DEADLOCK FALSE
