SPECIFICATION Spec
CONSTANTS
  first = first
  second = second
  a = a
  b = b
  Library = {a, b}
  Run = {first, second}
  Arguments <- Mixed
  After <- InTurn
  Faulty = {first, second}
  MaxVersions = 2
INVARIANTS
  PinnedManifestIsExact
  ManifestIsInstalled
  TornOnlyForward
PROPERTIES
  InstalledStaysInstalled
  EveryRunEnds
CHECK_DEADLOCK FALSE
