SPECIFICATION FairSpec
CONSTANTS
  Aux = {"AUX1"}
  Conditions <- ArmSwitch
  FailsafeValue <- DefaultFailsafe
  Hold = Hold
  FailsafeDelay = 2
  ClockWrap = 4
  GarbageFrames = 1
  RescueFrames = 0
  RescueEnabled = TRUE
  Faults = {"CALIBRATING"}
  RadioDies = TRUE
  Frames <- NoisyFrames
  Configurator = {"CLI", "MSP"}
INVARIANTS
  NoArmBeforeFrames
PROPERTIES
  DisarmReasonTruthful
  KeepsContract
  RescueOpens
  DeadLinkDisarms
