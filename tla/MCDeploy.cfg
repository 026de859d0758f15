SPECIFICATION PairSpec
CONSTANTS
  first = first
  second = second
  third = third
  fourth = fourth
  alice = alice
  bob = bob
  a = a
  b = b
  c = c
  Session = {first, second, third, fourth}
  Account = {alice, bob}
  NoOwner = nobody
  Deployer <- Accounts
  Code <- SameCode
  After <- Order
  Faulty = {first, third}
  Package = {a, b, c}
  Layers <- SomeLayers
  DependsOn <- Dependency
  FailsLate = {b}
  Weight <- Weights
  Budget <- OneBudget
INVARIANTS
  DependenciesFirst
  ReportedIsRegistered
  DoneMeansInstallable
  SuccessIsShown
  NothingSpinsAtTheEnd
  NeverStuck
  EverythingGetsPublished
PROPERTIES
  RunsMoveForward
  EveryRunEnds
  RerunCompletes
CHECK_DEADLOCK FALSE
