SPECIFICATION FrontendSpec
CONSTANTS
  devnet = devnet
  paseo = paseo
  a = a
  b = b
  Network = {devnet, paseo}
  DefaultNetwork = devnet
  Package = {a, b}
  InitialChain <- Both
  PageSize = 1
  Pending = pending
  Failed = failed
  MaxSwitches = 2
  MaxVisits = 1
INVARIANTS
  ListIsRecent
  PageShowsItsPackage
PROPERTIES
  SearchEnds
  SpinnersStop
  PageSettles
CHECK_DEADLOCK FALSE
