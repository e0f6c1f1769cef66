SPECIFICATION FairSpec
CONSTANTS
  GyroRates = {2000, 3332}
  SpiGyro = FALSE
  Protocols = {"PWM", "BRUSHED"}
  Syncs = {0, 4}
  PwmRates = {4000}
  Throttles = {1900, 2000}
  Samples = 1
  Commands = 3
  Restarts = 1
INVARIANTS
  NoCalibrationInFlight
  StoredBiasIsFinished
  PulsesFit
PROPERTIES
  CalibrationEnds
