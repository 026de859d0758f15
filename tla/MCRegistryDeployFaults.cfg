SPECIFICATION Spec
CONSTANTS
  first = first
  second = second
  third = third
  Run = {first, second, third}
  Bootstrap = {second, third}
  Build <- OwnBuild
  After <- ThenThird
  Faulty = {first, second}
INVARIANTS
  BornWithItsImplementation
  DoneMeansDeployed
PROPERTIES
  RegistryIsNeverReplaced
  RerunSucceeds
CHECK_DEADLOCK FALSE
