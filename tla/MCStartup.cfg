SPECIFICATION Spec
CONSTANTS
  Swapper = Swapper
  Programs = {App}
  Scenarios <- MCScenarios
  Typed <- MCTyped
  MaxTyped = 2
  Hint <- MCHint
  Size = 8
  Bits = 5
  Chars <- MCChars
  NUL = NUL
  None = None
  PageBytes = 3
  Radix = 2
  Memory <- MCMemory
  Junk = Junk
  LoaderLen = 4
  KernelLen = 7
  KernelFlash = 5
  LoaderBase = 7
INVARIANTS
  TypeOK
  NumberRight
  PrintedRight
  ScreenRight
  NandExact
  ImagesWhole
  AllMapped
  InterruptSafe
  DiskThere
  CachesReady
PROPERTIES
  ComesToPrompt
CHECK_DEADLOCK FALSE
