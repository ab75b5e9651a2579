CONSTANTS
  m1 = m1  m2 = m2
  g1 = g1  g2 = g2  g3 = g3
  Miners <- MCMiners
  Gpus <- MCGpus
SPECIFICATION FairSpec
INVARIANTS TypeOK WholeUnlessDisturbed
PROPERTIES NamesStay Relearns
