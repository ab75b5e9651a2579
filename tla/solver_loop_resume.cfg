CONSTANTS
  i1 = i1  i2 = i2  i3 = i3
  A = A  B = B
  JobIds <- MCJobIds
  Parents <- MCParents
  None = None
  Base = 1
  SliceTries = 2
  MaxNonce = 4
SPECIFICATION Spec
PROPERTY ResumesWhereStopped
