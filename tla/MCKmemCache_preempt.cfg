SPECIFICATION Spec
CONSTANTS
  Caches = 2
  Unit = 4
  SlabBytes = 10
  PageBytes = 5
  Slabs = {s1, s2, s3}
  Sizes = {0, 4, 5, 9}
  Callers = {c1, c2}
  InSwi = {c2}
  NULL = NULL
  Junk = Junk
INVARIANT
  GivenOnce
