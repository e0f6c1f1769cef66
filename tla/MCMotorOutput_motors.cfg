SPECIFICATION Spec
CONSTANTS
  Configs <- Boards
  TestPulses = {1100}
  Channels = 4
  WaitEdge = 140
  MinTicks = 150
  DeltaMin = 5
INVARIANTS
  PulseIsAsked
  HighIsWatched
  AirModeKeepsControl
PROPERTIES
  MotorsStop
