SPECIFICATION FairSpec
CONSTANTS
  ClockWrap = 15
  IterationWrap = 16
  GyroRate = 2000
  GyroInterval = 2
  ActuatorInterval = 7
  LoopSync = 2
  MixerSync = 2
  Gaps <- OneGap
PROPERTY InputServed
