SPECIFICATION Spec
CONSTANTS
  alice = alice
  bob = bob
  c1 = c1
  c2 = c2
  u1 = u1
  i1 = i1
  i2 = i2
  proxy = proxy
  n1 = n1
  n2 = n2
  bad = bad
  Account = {alice, bob}
  ContractAddress = {c1, c2}
  Build = {i1, i2}
  OtherContract = {proxy}
  ZeroAddress = zero
  ContractName = {n1, n2, bad}
  ValidName = {n1, n2}
  MetadataUri = {u1}
  EmptyUri = empty
  ImportPayload <- MCImportPayload
  MaxU32 = 2
  MaxPageLimit = 1
SYMMETRY BuildSymmetry
INVARIANTS
  TypeOK
  IndexIsExact
  PagesHaveNoHoles
PROPERTIES
  FrozenExceptForTheAdmin
  ImplementsLog
