------------------------------ MODULE Registry ------------------------------
(***************************************************************************)
(* The ContractRegistry contract as its callers reach it: through the      *)
(* EIP-1967 proxy that delegates every call to the current implementation, *)
(* against the proxy's own storage.                                        *)
(*                                                                         *)
(* One action is one transaction.  A call whose handler returns an error   *)
(* is reverted by the host, so it changes nothing but the receipt tx.      *)
(* Storage mappings are total functions: a key never written reads as the  *)
(* zero value of its type, exactly as in contract storage.                 *)
(*                                                                         *)
(* A definition named D_Fault is a faulty variant of D that no             *)
(* specification uses: put in the place of D, it shows which property      *)
(* would notice the fault.                                                 *)
(***************************************************************************)
EXTENDS Integers, Sequences, FiniteSets

CONSTANTS
  Account,          \* the accounts that send transactions
  ContractAddress,  \* the addresses callers publish
  Build,            \* the addresses implementation builds are deployed at
  OtherContract,    \* contracts that answer no registry call, the proxy itself included
  ZeroAddress,      \* the zero value of an address
  ContractName,     \* the strings callers pass as a contract name
  ValidName,        \* those that validate_contract_name accepts
  MetadataUri,      \* the strings callers pass as a metadata URI
  EmptyUri,         \* the zero value of a string
  ImportPayload,    \* the arguments the admin passes to adminImportContracts
  MaxU32,           \* the largest u32
  MaxPageLimit      \* MAX_PAGE_LIMIT

Address == Account \cup ContractAddress \cup Build \cup {ZeroAddress}
Uri     == MetadataUri \cup {EmptyUri}
Version == 0..MaxU32

ImportVersion  == [address : Address, metadataUri : Uri]
ImportContract == [contractName : ContractName, owner : Address, versions : Seq(ImportVersion)]

ASSUME MaxU32Assumption      == MaxU32 \in Nat \ {0}
ASSUME PageLimitAssumption   == MaxPageLimit \in 1..MaxU32
ASSUME NamesAssumption       == ValidName \subseteq ContractName
ASSUME ZeroAddressAssumption == ZeroAddress \notin Account
ASSUME BuildAssumption       == Build \cap OtherContract = {}
ASSUME ImportsAssumption     == ImportPayload \subseteq Seq(ImportContract)

VARIABLES
  names,           \* registered names in registration order
  info,            \* name -> owner and number of published versions
  addressOf,       \* name -> version -> published address
  metadataUriOf,   \* name -> version -> metadata URI
  implementation,  \* EIP-1967 slot: the contract the proxy delegates to
  admin,           \* EIP-1967 slot
  frozen,          \* fixed slot
  code,            \* the addresses of builds and other contracts that have code
  tx               \* receipt of the last transaction

registry == <<names, info, addressOf, metadataUriOf>>
slots    == <<implementation, admin, frozen>>
vars     == <<names, info, addressOf, metadataUriOf, implementation, admin, frozen, code, tx>>

Error == { "UnauthorizedAdmin", "BadImplementation", "ContractFrozen", "ContractNameInvalid",
           "Unauthorized", "VersionOverflow", "ImportVersionsEmpty", "ImportContractExists",
           "NoHandler" }

-----------------------------------------------------------------------------
(* Guards and helpers of the handlers. *)

Registered(n) == info[n].versionCount # 0

\* The proxy's fallback runs whatever code its target has: a handler of the
\* registry if that is a build of the registry.
Delegates == implementation \in Build \cap code

RequireAdmin(caller)    == caller = admin
RequireUnfrozen_Ignored(caller) == TRUE
RequireUnfrozen(caller) == frozen => caller = admin

Succeeds(caller)        == tx' = [caller |-> caller, result |-> "Ok"]
Reverts(caller, error)  ==
  /\ tx' = [caller |-> caller, result |-> error]
  /\ UNCHANGED <<registry, slots, code>>

-----------------------------------------------------------------------------
(* Administration. *)

SetAdmin(caller, newAdmin) ==
  /\ RequireAdmin(caller)
  /\ admin' = newAdmin
  /\ Succeeds(caller)
  /\ UNCHANGED <<registry, implementation, frozen, code>>

\* All that is asked of the new implementation is to have code.
SetCode(caller, newImplementation) ==
  /\ RequireAdmin(caller)
  /\ newImplementation \in code
  /\ implementation' = newImplementation
  /\ Succeeds(caller)
  /\ UNCHANGED <<registry, admin, frozen, code>>

SetCodeReverts(caller, newImplementation) ==
  /\ RequireAdmin(caller)
  /\ newImplementation \notin code
  /\ Reverts(caller, "BadImplementation")

Freeze(caller) ==
  /\ RequireAdmin(caller)
  /\ frozen' = TRUE
  /\ Succeeds(caller)
  /\ UNCHANGED <<registry, implementation, admin, code>>

Unfreeze(caller) ==
  /\ RequireAdmin(caller)
  /\ frozen' = FALSE
  /\ Succeeds(caller)
  /\ UNCHANGED <<registry, implementation, admin, code>>

\* setAdmin, setCode, freeze, unfreeze and adminImportContracts by anyone else.
AdminCallReverts(caller) ==
  /\ ~RequireAdmin(caller)
  /\ Reverts(caller, "UnauthorizedAdmin")

-----------------------------------------------------------------------------
(* Importing: all the contracts of the payload, or none of them. *)

\* What import_contract answers for contracts[i] once those before it are in.
ImportResult(contracts, i) ==
  LET c == contracts[i] IN
  IF c.contractName \notin ValidName THEN "ContractNameInvalid"
  ELSE IF c.versions = <<>> THEN "ImportVersionsEmpty"
  ELSE IF \/ Registered(c.contractName)
          \/ \E j \in 1..(i - 1) : contracts[j].contractName = c.contractName
         THEN "ImportContractExists"
  ELSE IF Len(c.versions) > MaxU32 THEN "VersionOverflow"
  ELSE "Ok"

Refused(contracts) == { i \in DOMAIN contracts : ImportResult(contracts, i) # "Ok" }

Imports(contracts, n) == \E i \in DOMAIN contracts : contracts[i].contractName = n
ImportOf(contracts, n) ==
  contracts[CHOOSE i \in DOMAIN contracts : contracts[i].contractName = n]

ContractNames_NoIndex(contracts) == <<>>
ContractNames(contracts) == [i \in DOMAIN contracts |-> contracts[i].contractName]

AdminImportContracts(caller, contracts) ==
  /\ RequireAdmin(caller)
  /\ Refused(contracts) = {}
  /\ names' = names \o ContractNames(contracts)
  /\ info' = [n \in ContractName |->
       IF Imports(contracts, n)
         THEN [owner |-> ImportOf(contracts, n).owner,
               versionCount |-> Len(ImportOf(contracts, n).versions)]
         ELSE info[n]]
  /\ addressOf' = [n \in ContractName |-> [v \in Version |->
       IF Imports(contracts, n) /\ v < Len(ImportOf(contracts, n).versions)
         THEN ImportOf(contracts, n).versions[v + 1].address
         ELSE addressOf[n][v]]]
  /\ metadataUriOf' = [n \in ContractName |-> [v \in Version |->
       IF Imports(contracts, n) /\ v < Len(ImportOf(contracts, n).versions)
         THEN ImportOf(contracts, n).versions[v + 1].metadataUri
         ELSE metadataUriOf[n][v]]]
  /\ Succeeds(caller)
  /\ UNCHANGED <<slots, code>>

AdminImportContractsReverts(caller, contracts) ==
  /\ RequireAdmin(caller)
  /\ \E i \in Refused(contracts) :
       /\ \A j \in Refused(contracts) : i <= j
       /\ Reverts(caller, ImportResult(contracts, i))

-----------------------------------------------------------------------------
(* Publishing. *)

PublishResult_Unbounded(caller, n) ==
  IF ~RequireUnfrozen(caller) THEN "ContractFrozen"
  ELSE IF n \notin ValidName THEN "ContractNameInvalid"
  ELSE IF Registered(n) /\ info[n].owner # caller THEN "Unauthorized"
  ELSE "Ok"

\* The first check of publish_latest that fails, or "Ok".
PublishResult(caller, n) ==
  IF ~RequireUnfrozen(caller) THEN "ContractFrozen"
  ELSE IF n \notin ValidName THEN "ContractNameInvalid"
  ELSE IF Registered(n) /\ info[n].owner # caller THEN "Unauthorized"
  ELSE IF info[n].versionCount = MaxU32 THEN "VersionOverflow"
  ELSE "Ok"

\* The version publish_latest writes, and the index it leaves behind.
NextVersion(n)             == info[n].versionCount
IndexWith_EveryPublish(n)  == Append(names, n)
IndexWith(n)               == IF Registered(n) THEN names ELSE Append(names, n)

PublishLatest(caller, n, address, metadataUri) ==
  /\ PublishResult(caller, n) = "Ok"
  /\ names' = IndexWith(n)
  /\ info' = [info EXCEPT ![n] =
       [owner |-> IF Registered(n) THEN info[n].owner ELSE caller,
        versionCount |-> info[n].versionCount + 1]]
  /\ addressOf' = [addressOf EXCEPT ![n][NextVersion(n)] = address]
  /\ metadataUriOf' = [metadataUriOf EXCEPT ![n][NextVersion(n)] = metadataUri]
  /\ Succeeds(caller)
  /\ UNCHANGED <<slots, code>>

PublishLatestReverts(caller, n) ==
  /\ PublishResult(caller, n) # "Ok"
  /\ Reverts(caller, PublishResult(caller, n))

\* Behind a contract that is no registry every call of the registry reverts,
\* setCode too: there is no way back.
NoHandlerReverts(caller) ==
  /\ ~Delegates
  /\ Reverts(caller, "NoHandler")

-----------------------------------------------------------------------------
(* Queries. *)

LatestVersion(n)    == info[n].versionCount - 1
VersionExists(n, v) == v < info[n].versionCount

LatestEntry(n) ==
  [name |-> n, version |-> LatestVersion(n), address |-> addressOf[n][LatestVersion(n)],
   metadataUri |-> metadataUriOf[n][LatestVersion(n)], owner |-> info[n].owner]

Smaller(a, b) == IF a < b THEN a ELSE b

GetContracts_MissesLast(start, count) ==
  LET end == Smaller(start + Smaller(count, MaxPageLimit), Len(names) - 1)
      listed == SubSeq(names, start + 1, end)
  IN  [total |-> Len(names), entries |-> [i \in DOMAIN listed |-> LatestEntry(listed[i])]]

\* The smallest number of a set, the next one, and so on.
Nth(positions, k) ==
  CHOOSE i \in positions : Cardinality({j \in positions : j <= i}) = k

\* start..end-1 of get_contracts, as positions of the sequence names.  A name
\* without a version would be left out of the page.
GetContracts(start, count) ==
  LET total == Len(names) % (MaxU32 + 1)
      end   == Smaller(Smaller(start + Smaller(count, MaxPageLimit), MaxU32), total)
      listed == {i \in (start + 1)..end : Registered(names[i])}
  IN  [total |-> total,
       entries |-> [k \in 1..Cardinality(listed) |-> LatestEntry(names[Nth(listed, k)])]]

-----------------------------------------------------------------------------
(* An implementation build gets code; nothing in the system destroys one. *)
DeployBuild(build) ==
  /\ build \notin code
  /\ code' = code \cup {build}
  /\ UNCHANGED <<registry, slots, tx>>

\* The proxy is deployed after its first implementation, with an explicit admin.
Init ==
  /\ names = <<>>
  /\ info = [n \in ContractName |-> [owner |-> ZeroAddress, versionCount |-> 0]]
  /\ addressOf = [n \in ContractName |-> [v \in Version |-> ZeroAddress]]
  /\ metadataUriOf = [n \in ContractName |-> [v \in Version |-> EmptyUri]]
  /\ implementation \in Build
  /\ code = OtherContract \cup {implementation}
  /\ admin \in Account
  /\ frozen = FALSE
  /\ tx = [caller |-> admin, result |-> "Ok"]

AdminCall(caller) ==
  \/ \E newAdmin \in Account \cup {ZeroAddress} : SetAdmin(caller, newAdmin)
  \/ \E target \in Build \cup OtherContract : SetCode(caller, target)
  \/ \E target \in Build \cup OtherContract : SetCodeReverts(caller, target)
  \/ Freeze(caller)
  \/ Unfreeze(caller)
  \/ \E contracts \in ImportPayload : AdminImportContracts(caller, contracts)
  \/ \E contracts \in ImportPayload : AdminImportContractsReverts(caller, contracts)
  \/ AdminCallReverts(caller)

PublishCall(caller) ==
  \E n \in ContractName :
    \/ \E address \in ContractAddress, uri \in MetadataUri : PublishLatest(caller, n, address, uri)
    \/ PublishLatestReverts(caller, n)

Next ==
  \/ Delegates /\ \E caller \in Account : AdminCall(caller) \/ PublishCall(caller)
  \/ \E caller \in Account : NoHandlerReverts(caller)
  \/ \E build \in Build : DeployBuild(build)

Spec == Init /\ [][Next]_vars

-----------------------------------------------------------------------------
(* Properties. *)

\* Type invariant.
TypeOK ==
  /\ names \in Seq(ContractName)
  /\ info \in [ContractName -> [owner : Address, versionCount : Version]]
  /\ addressOf \in [ContractName -> [Version -> Address]]
  /\ metadataUriOf \in [ContractName -> [Version -> Uri]]
  /\ implementation \in Build \cup OtherContract
  /\ admin \in Account \cup {ZeroAddress}
  /\ frozen \in BOOLEAN
  /\ code \subseteq Build \cup OtherContract
  /\ tx \in [caller : Account, result : Error \cup {"Ok"}]

\* The paging index and the version counts agree: the index lists every name
\* that has a version, no other name, and none twice ("every registered name
\* has at least one version", types.rs).  publish_latest and import_contract
\* maintain the two separately.
IndexIsExact ==
  /\ \A i, j \in DOMAIN names : names[i] = names[j] => i = j
  /\ \A n \in ContractName : Registered(n) <=> \E i \in DOMAIN names : names[i] = n

\* No address or URI is stored at a version the count does not cover, so
\* getAddressAtVersion and the mappings never disagree about what exists.
NothingBeyondTheCount ==
  \A n \in ContractName, v \in Version :
    ~VersionExists(n, v) => addressOf[n][v] = ZeroAddress /\ metadataUriOf[n][v] = EmptyUri

\* A page of getContracts lists every index of its range, up to the page
\* limit, in registration order: a client that advances by the entries it
\* received sees every contract.
PagesHaveNoHoles ==
  \A start, count \in Version :
    LET page == GetContracts(start, count)
        size == Smaller(Smaller(count, MaxPageLimit), Len(names) - start)
    IN  /\ page.total = Len(names)
        /\ start <= Len(names) => Len(page.entries) = size
        /\ \A i \in DOMAIN page.entries : page.entries[i].name = names[start + i]

\* Nothing anyone does - the owner, the admin, an import, an upgrade - changes
\* the address or the URI of a version once it is published, or removes it.
PublishedVersionsNeverChange ==
  [][\A n \in ContractName, v \in Version : VersionExists(n, v) =>
       /\ VersionExists(n, v)'
       /\ addressOf'[n][v] = addressOf[n][v]
       /\ metadataUriOf'[n][v] = metadataUriOf[n][v]]_vars

\* A registered name keeps its owner and its registration index for ever.
RegistrationsAreForever ==
  [][/\ \A n \in ContractName : Registered(n) => info'[n].owner = info[n].owner
     /\ Len(names') >= Len(names)
     /\ \A i \in DOMAIN names : names'[i] = names[i]]_vars

\* While the registry is frozen, whatever changes in it - data, admin,
\* implementation or the freeze itself - is done by the admin.
FrozenExceptForTheAdmin ==
  [][frozen /\ tx'.caller # admin => UNCHANGED <<registry, slots>>]_vars

\* A registered name gains versions one at a time, each in a transaction of
\* its owner; the admin's imports never touch it.
OnlyTheOwnerPublishes ==
  [][\A n \in ContractName :
       Registered(n) /\ info'[n] # info[n] =>
         /\ info'[n].versionCount = info[n].versionCount + 1
         /\ tx'.caller = info[n].owner]_vars

-----------------------------------------------------------------------------
(* The registry implements the abstract log of published entries. *)

History(n) ==
  [i \in 1..info[n].versionCount |->
     [address |-> addressOf[n][i - 1], metadataUri |-> metadataUriOf[n][i - 1]]]

Log == INSTANCE RegistryLog WITH
  Name    <- ContractName,
  order   <- names,
  owner   <- [n \in ContractName |-> info[n].owner],
  log     <- [n \in ContractName |-> History(n)],
  actor   <- tx.caller,
  curator <- admin

\* Every behaviour of the contract is, through this mapping, a behaviour of
\* the append-only log: one owner per name, histories only extended.
ImplementsLog == Log!Spec
=============================================================================
