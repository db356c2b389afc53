CONSTANTS
  Scenes <- RacingScenes
  Asking <- MCAsking
  Execution <- MCExecution
  KickCommands <- MCKicks
  DiveCommands = {"left"}
  InFlight = 2
  MaxMail <- MCMail
  MaxUpdates = 3
SPECIFICATION Spec
INVARIANTS
  FallenIsAnswered
CHECK_DEADLOCK FALSE
