SPECIFICATION Spec
CONSTANTS
  Aux = {"AUX1"}
  Conditions <- FlightSwitch
  FailsafeValue <- DefaultFailsafe
  Hold = Hold
  FailsafeDelay = 2
  ClockWrap = 4
  GarbageFrames = 1
  RescueFrames = 0
  RescueEnabled = FALSE
  Faults = {"CALIBRATING", "NO_FIX"}
  RadioDies = FALSE
  Frames <- FlightFrames
  Configurator = {}
INVARIANTS
  FailedLinkDisarms
  FlownIsLatched
PROPERTIES
  ArmsOnlyWhenSafe
