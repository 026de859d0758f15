SPECIFICATION CommandSpec
CONSTANTS
  first = first
  second = second
  third = third
  fourth = fourth
  alice = alice
  bob = bob
  a = a
  b = b
  c = c
  Session = {fourth}
  Account = {alice, bob}
  NoOwner = nobody
  Deployer <- Accounts
  Code <- SameCode
  After <- Order
  Faulty = {}
  Package = {a, b, c}
  Layers <- SomeLayers
  DependsOn <- Dependency
  FailsLate = {b}
  Weight <- Weights
  Budget <- OneBudget
INVARIANTS
  MetadataStoredFirst
CHECK_DEADLOCK FALSE
