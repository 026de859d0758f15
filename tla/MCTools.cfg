SPECIFICATION ToolsSpec
CONSTANTS
  p1 = p1
  p2 = p2
  p3 = p3
  helper = helper
  disputes = disputes
  mock_disputes = mock_disputes
  contract_registry = contract_registry
  owner = owner
  other = other
  Target = {1, 2, 3}
  Helper = {helper}
  Package = {p1, p2, p3}
  NoPackage = none
  Circular = circular
  Tree <- Trees
  BytecodePath <- OwnPath
  MaxRuns = 2
  Param <- Params
  Part <- Parts
  StructName <- PascalCase
  Context = {"Arg", "PairField3"}
  None = none
  HelperName = {"ILib", "Lib"}
  ReservedIdentifier = {"if"}
  MaxParams = 3
  Signer = {owner, other}
  Renamed <- Renames
  Canonical <- Names
  RegistryPackage = contract_registry
  RegistryEntry <- RegistryItself
  ReferenceOwner = owner
  Entries <- Two
  MaxRun = 2
  MaxVersion = 2
INVARIANTS
  LayersAreALayering
  ImportsAreOfThisRun
  ManifestIsBuilt
  StructsMeanTheirTuples
  ConvergesOnce
CHECK_DEADLOCK FALSE
