CONSTANTS
  Walk = Walk
  Script = Script
  Point = Point
  Ankle = Ankle
  Elbow = Elbow
  Nobody = Nobody
  Request <- SelectRequest
  Item <- SelectItem
  Limb <- SelectLimb
  LimbSet <- SelectLimbSet
  Servo = {}
  LimbForServo <- NoServos
  Priority = {0, 1, 2}
  InitialLease = {Nobody}
  Batches = {}
  MaxTime = 0
  MaxQueue = 0
SPECIFICATION Spec
INVARIANTS
  ShortCircuitSound
