SPECIFICATION FairDriverSpec
CONSTANTS
  Bauds <- TwoBauds
  Targets = {115200, 57600}
  Timeout = 2
  DetectTimeout = 2
  NmeaOff <- TwoNmea
  PvtOn <- Pvt
  LegacyOn <- Legacy
  Kinds = {"M6", "M8", "M10"}
  Faults = 2
  Restarts = 1
INVARIANTS ConfigIsComplete
PROPERTIES Settles WorkingModuleIsReceived
