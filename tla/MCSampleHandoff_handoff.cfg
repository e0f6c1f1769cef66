SPECIFICATION EitherSpec
CONSTANTS
  Word = {"x", "y"}
  Stores = 3
  Size = 2
  InputChannels = 3
  OutputCount = 3
  Scalers = 1
  Modes = 2
  MixRules = 2
  SerialNames <- BoardPorts
  Backups <- SamplePairs
  Notes = {"none", "above", "beside"}
  EventLines = {0, 100, 200}
INVARIANTS
  FetchIsSound
  DumpRestores
PROPERTIES
  IsChannel
  EventsArrive
