SPECIFICATION Spec
CONSTANTS
  first = first
  second = second
  a = a
  b = b
  Library = {a}
  Run = {first}
  Arguments <- JustLatest
  After <- InTurn
  Faulty = {}
  MaxVersions = 2
INVARIANTS
  SnapshotIsOneVersion
CHECK_DEADLOCK FALSE
