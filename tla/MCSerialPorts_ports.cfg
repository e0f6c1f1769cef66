SPECIFICATION EitherSpec
CONSTANTS
  Requests <- MixedRequests
  FirstLen = 1
  NextLen = 2
  BufSize = 4
  SeqMod = 4
  Repeats = TRUE
  MaxGap = 3
  Protocols = {"SBUS", "IBUS", "CRSF", "MSP", "PPM"}
  Contents = {"plain", "sync"}
  Damages = 3
  Sizes = {0, 2, 9, 12}
  SizeMax = 9
  Sticks = 2
  Pages = {"mode ranges", "features", "battery", "voltage meters", "current meters",
    "acc trim", "mixer", "sensors", "alignment", "ports", "common ports", "blackbox",
    "beeper", "board", "rx map", "rssi", "motors", "arming", "deadband", "rx", "failsafe",
    "rx fail", "rc tuning", "advanced", "filters", "pid", "pid advanced", "servos", "vtx",
    "gps"}
  Conditions = 2
  Channels = 9
  Outputs = 2
  PidItems = 3
  GyroRate = 1000
  Ports <- BoardPorts
  SoftSerial = 30
  Boards <- EscPairs
  HighBytes = 8
  Data <- PieceData
  Highs = {0, 7}
  Messages = {0, 1, 2, 3, 4, 5}
  Rounds = 4
INVARIANTS
  PayloadIsWhole
  DamageIsBounded
  PageIsKept
PROPERTIES
  DamageIsConfined
  AnswerIsTrue
