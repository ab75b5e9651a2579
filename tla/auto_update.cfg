CONSTANTS
  Versions = {1, 2, 3, 4}
  Broken = {3}
  Builds = {1, 2, 3}
  Torn = Torn
  None = None
  Manifests <- MCManifests
SPECIFICATION FairSpec
INVARIANT TypeOK
PROPERTIES InstallsWhatWasNamed NeverDowngraded UpgradesOnceAtStart OnlyBrokenLoops GetsPastUpdaters Converges
CHECK_DEADLOCK FALSE
