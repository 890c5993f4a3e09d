SPECIFICATION Spec
CONSTANTS
  NPages = 4
  MaxOrder = 2
  NULL = NULL
  Size <- MCSize
  OutsideDescs <- QuietMemory
INVARIANT
  MaxBlockAvailable
