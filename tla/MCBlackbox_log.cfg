SPECIFICATION EitherSpec
CONSTANTS
  Cells = 8
  Items = 2
  Chunk = 2
  Sector = 4
  Stride = 4
  Erased = "erased"
  Mixed = "mixed"
  Ones = {"X"}
  HeaderLengths = {1, 2}
  HeaderDelay = 1
  StopDelay = 1
  ShutdownDelay = 1
  IInterval = 2
  PInterval = 1
  Modes = {"NORMAL", "ALWAYS_ON", "MOTOR_TEST"}
  EraseStates = {"STOPPED"}
INVARIANTS
  LogsDecodable
  LogReadsBack
PROPERTIES
  IsLogStore
  LogCloses
