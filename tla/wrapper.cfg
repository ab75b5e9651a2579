CONSTANTS
  p1 = p1  p2 = p2
  j1 = j1  j2 = j2  j3 = j3
  main = main  other = other
  Slots <- MCSlots
  None = None
  NoJob = NoJob
  Jobs <- MCJobs
  Shapes <- MCShapes
  ShapeOf <- MCShapeOf
  MaxStale = 1
  Prompt = TRUE
SPECIFICATION FairSpec
INVARIANTS TypeOK SolvesItsShape PreemptHitsItsSlice NoOrphan ShutdownForgetsItsOwn
PROPERTIES ImplementsSliceService OnlyADropLeavesBehind StraysOnlyByBounce SliceEnds
