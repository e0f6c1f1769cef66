SPECIFICATION FairSpec
CONSTANTS
  ClockWrap = 31
  IterationWrap = 16
  GyroRate = 2000
  GyroInterval = 2
  ActuatorInterval = 7
  LoopSync = 3
  MixerSync = 2
  Gaps <- MCGaps
PROPERTIES
  ActuatorOnTime
  InputServed
