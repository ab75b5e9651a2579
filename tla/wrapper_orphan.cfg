CONSTANTS
  p1 = p1  p2 = p2
  j1 = j1  j2 = j2  j3 = j3
  main = main  other = other
  Slots <- MCSlots
  None = None
  NoJob = NoJob
  Jobs <- TwoJobs
  Shapes <- MCShapes
  ShapeOf <- OneNetwork
  MaxStale = 1
  Prompt = FALSE
SPECIFICATION Spec
INVARIANT SafeWhileInFlight
