SPECIFICATION BoundedSpec
CONSTANTS
  Keys = {k1}
  MaxLen = 2
  MaxGen = 2
  MaxDeaths = 1
INVARIANTS
  ManifestAfterBytes
  SettledManifest
PROPERTIES
  CommitReachesManifest
CHECK_DEADLOCK FALSE
