SPECIFICATION MultiFairSpec
CONSTANTS
  ClockWrap = 9
  IterationWrap = 4
  GyroRate = 1000
  GyroInterval = 2
  ActuatorInterval = 5
  LoopSync = 2
  QueueSize = 3
PROPERTIES
  MixerSpaced
  ControllerServed
