CONSTANTS
  None = None
  Stall = 3
  Grace = 4
  Cooldown = 11
  Escalations = 2
  Threshold = 2
  ReadTimeout = 2
  ReadyTimeout = 1
SPECIFICATION FairSpec
INVARIANTS TypeOK EverySliceIsOver
PROPERTIES ChancePerBounce WedgeIsHealed
