CONSTANTS
  Walk = Walk
  Script = Script
  Point = Point
  Ankle = Ankle
  Elbow = Elbow
  Nobody = Nobody
  Request <- QueueRequest
  Item <- QueueItem
  Limb <- QueueLimb
  LimbSet <- QueueLimbSet
  Servo <- QueueServo
  LimbForServo <- QueueLimbForServo
  Priority = {0, 1}
  InitialLease <- QueueRequest
  Batches <- QueueBatches
  MaxTime = 2
  MaxQueue = 3
SPECIFICATION Spec
INVARIANTS
  OnlySelectedDrive
