CONSTANTS
  Asking <- MCAsking
  Execution <- MCExecution
  KickCommands <- MCKicks
  DiveCommands = {"left"}
  Scenes <- MCScenes
  InFlight = 2
  MaxMail <- MCMail
  MaxUpdates = 2
SPECIFICATION Spec
INVARIANTS
  ExecutionBacked
  FallenIsAnsweredInTurn
PROPERTIES
  GetsUp
CHECK_DEADLOCK FALSE
