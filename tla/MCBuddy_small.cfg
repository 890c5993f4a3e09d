SPECIFICATION Spec
CONSTANTS
  NPages = 6
  MaxOrder = 2
  NULL = NULL
  Size <- MCSize
  OutsideDescs <- QuietMemory
INVARIANTS
  TypeOK
  EveryPageInABlock
  BlocksDisjoint
  MetadataAgrees
  NoDuplicates
  DirtyIsHeld
PROPERTIES
  ImplementsPageAllocator
  AlignedUntilMerged
