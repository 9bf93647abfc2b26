SPECIFICATION SysSpec
CONSTANTS
  a = a
  b = b
  Vehicles = {a, b}
  Configs <- MCConfigs
  QueueSize = 1
  Grace = 1
  Gap = 0
  MinCount = 2
  EvidenceTimeout = 1
  CacheTimeout = 1
  SlowDuration = 2
  SlowStartup = 1
  HoldTime = 1
  ValidPoses = 1
  SlowPoses = 2
  LowWindow = 1
  BrakeWindow = 2
  FrontDistance = 2
  WaitDistance = 0
  BrakeDistance = 1
  Margin = 0
  Road = 4
  Depth = 1
  MaxStep = 1
  Bounds <- MCBounds
INVARIANTS OldSceneFades RemembersThisScene
PROPERTIES OncePerScene SlowIsContinuous RedIsTrue
CHECK_DEADLOCK FALSE
