SPECIFICATION Spec
CONSTANTS
  NPages = 2
  MaxOrder = 1
  NULL = NULL
  Size <- MCSize
  OutsideDescs <- ZeroMemory
INVARIANT
  BlockInHandExists
