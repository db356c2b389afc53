CONSTANTS
  Devices = {1, 111, 200}
  Servos = {1}
  Values = {0, 1}
  MaxGlitches = 1
  Broken = {"ok", "none", "garbled", "partial"}
  Joints = 4
  Rolling = {0, 1, 2}
  Lower = {0, 1}
  Positions <- MCPositions
  Gains = {1, 2}
  DefaultGain = 1
  Word = 7
  MaxFrames = 2
  MaxTargets = 2
  Files = {"walk", "script"}
  Dirs = {"scripts"}
  DirOf <- MCDirOf
  Base = "config"
  Types = {"WalkEngine", "ScriptEngine", "Replacing"}
  PathOf <- MCPathOf
  Inserting = {"ScriptEngine"}
  MaxVersion = 2
  MaxEvents = 2
  Missions <- MCMissions
  MaxBreaks = 2
  BallCloseDistance = 5
  BallLastSeenMaxTime = 1
  GoalLastSeenMaxTime = 1
  BallActiveTimeout = 2
  ZoneReturnTimeout = 3
  GameModes = {"NORMAL", "PENALTY_SHOOTOUT"}
  Scenes <- MCScenes
  MaxInFlight = 1
  Parts = {"servos", "bus", "editing", "gains", "config", "mission", "link", "strategy"}
SPECIFICATION Spec
INVARIANTS
  MachinesTypeOK
  ReportsAreHonest
  TargetsReachServos
  CursorsExist
  TargetsUnique
  StaleOnlyIfSkipped
  MissionOnTrack
  EntryHolds
PROPERTIES
  EnteredGainsApply
  SoundDevicesAreRead
  LinkReturns
  StopsForTheReferee
  PlaysOn
  HeadFollows
