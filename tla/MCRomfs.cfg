SPECIFICATION Spec
CONSTANTS
  Hosts <- MCHosts
  Volume <- MCVolume
  Align = 4
  Patterns <- MCPatterns
  Excludes <- MCExcludes
  Unit = 2
  Block = 32
  Paths <- MCPaths
  Junk <- MCJunk
  NameMax = 3
  StorageSize = 1000
  NUL = NUL
  Chars = {"a", "b", "@", ".", "v"}
INVARIANTS
  TypeOK
  WrittenWhereScanned
  DataAligned
  ImageIsHost
  InodeTellsTruth
  
  
PROPERTIES
  LookupEnds
CHECK_DEADLOCK FALSE
