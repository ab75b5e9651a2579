CONSTANTS
  i1 = i1  i2 = i2  i3 = i3
  A = A  B = B
  t1 = t1  t2 = t2
  JobIds <- MCJobIds
  Parents <- MCParents
  Slices <- MCSlices
  None = None
  Base = 0
  SliceTries = 1
  MaxNonce = 0
  Threshold = 2
  MaxStale = 1
SPECIFICATION FairSpec
INVARIANT TypeOK
PROPERTIES HandsOverOwnWork Heals
