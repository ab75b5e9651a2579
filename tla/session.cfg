CONSTANTS
  m1 = m1  m2 = m2  m3 = m3
  Ids <- MCIds
  None = None
  MaxBackoff = 1
  Threshold = 2
  MaxStreak = 3
SPECIFICATION FairSpec
INVARIANTS TypeOK AnswerFindsCaller NoAnswerAcrossSessions
PROPERTIES EverySubmitEnds Recovers
