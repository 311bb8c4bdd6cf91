SPECIFICATION MCSpec
CONSTANTS
  Items = {0, 1, 2}
  max_size_ = 4
  Default = 0
  Base = 4
  TsBytes = 3
  MAX_EDGES = 2
  Stamps = {0, 1, 27, 63}
  Sessions = {0, 6, 15}
  MaxEdges = 3
  TextAlphabet = {97, 69, 32, 43, 45, 126, 9, 200}
  MaxLength = 5
  Speeds = {2, 24, 28}
  LongMax = 2147483647
  IntMax = 2097151
  UIntMax = 4194303
  ChunkSize = 4
  StringAlphabet <- MCStringAlphabet
  MaxString = 3
  MaxPoints = 3
INVARIANTS
  WireRoundTrip
  ConversionCorrect
  YamlReadBack
  SettingsRead
PROPERTIES
  ImplementsQueue
CHECK_DEADLOCK FALSE
