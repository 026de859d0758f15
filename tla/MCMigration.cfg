SPECIFICATION Spec
CONSTANTS
  first = first
  second = second
  third = third
  fourth = fourth
  alice = alice
  bob = bob
  n1 = n1
  n2 = n2
  Name = {n1, n2}
  SourceAccount = {alice}
  TargetAccount = {alice, bob}
  NoOwner = nobody
  Run = {first, second, third, fourth}
  Kind <- ReExport
  After <- InTurn
  Faulty = {first}
  BatchSize <- Batches
  MaxVersions <- Versions
  Contested = {n1}
INVARIANTS
  SnapshotIsHistory
  NothingIsMissed
  TargetIsExact
  DoneMeansMigrated

  
CHECK_DEADLOCK FALSE
