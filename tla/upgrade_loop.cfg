CONSTANTS
  Versions = {1, 2, 3, 4}
  Broken = {3}
  Builds = {1, 2, 3}
  Torn = Torn
  None = None
  Manifests <- MCManifests
SPECIFICATION Spec
PROPERTY NoUpgradeLoop
CHECK_DEADLOCK FALSE
