CONSTANTS
  TicksPerStep = 2
  Letter <- MCLetter
  MaxMail = 1
  MaxUpdates = 2
  Samples = 2
  Segments = 2
  Duration = 1
  MaxElapsed = 3
  Threshold = 2
  Sessions <- MCSessions
SPECIFICATION Spec
INVARIANTS
  TypeOK
  FeetTogether
  OwnParameters
  FullWalk
PROPERTIES
  TrialsEnd
  StandsStill
  WalksOn
