--------------------------- MODULE RegistryProofs ---------------------------
(***************************************************************************)
(* Proofs about Registry, for every set of accounts, names and payloads    *)
(* and every width of the version counter.                                 *)
(*                                                                         *)
(* Two kinds of step change the data: a publish and an import.  The lemmas *)
(* of the first section say what an accepted import payload looks like;    *)
(* everything else follows action by action from the inductive invariant   *)
(* IInv, the conjunction of the type, the exact index, the valid names and *)
(* the rule that nothing is stored beyond a count.                         *)
(***************************************************************************)
EXTENDS Registry, FiniteSetTheorems, SequenceTheorems, TLAPS

USE MaxU32Assumption, NamesAssumption, ImportsAssumption

-----------------------------------------------------------------------------
(* What an accepted payload looks like. *)

\* Every contract of a payload is well typed.
LEMMA PayloadType ==
  ASSUME NEW contracts \in ImportPayload
  PROVE  /\ contracts \in Seq(ImportContract)
         /\ DOMAIN contracts = 1..Len(contracts)
         /\ Len(contracts) \in Nat
         /\ \A i \in DOMAIN contracts :
              /\ contracts[i] \in ImportContract
              /\ contracts[i].contractName \in ContractName
              /\ contracts[i].owner \in Address
              /\ contracts[i].versions \in Seq(ImportVersion)
              /\ Len(contracts[i].versions) \in Nat
              /\ DOMAIN contracts[i].versions = 1..Len(contracts[i].versions)
              /\ \A v \in 1..Len(contracts[i].versions) :
                   contracts[i].versions[v] \in ImportVersion
<1>1. contracts \in Seq(ImportContract)
  OBVIOUS
<1>2. ASSUME NEW i \in DOMAIN contracts
      PROVE  contracts[i] \in ImportContract
  BY <1>1
<1>3. ASSUME NEW c \in ImportContract
      PROVE  /\ c.contractName \in ContractName
             /\ c.owner \in Address
             /\ c.versions \in Seq(ImportVersion)
  BY DEF ImportContract
<1>4. ASSUME NEW s \in Seq(ImportVersion)
      PROVE  /\ Len(s) \in Nat
             /\ DOMAIN s = 1..Len(s)
             /\ \A v \in 1..Len(s) : s[v] \in ImportVersion
  OBVIOUS
<1>5. QED
  BY <1>1, <1>2, <1>3, <1>4

\* If no contract of the payload is refused, each one names a valid name that
\* is not registered yet, no two the same, with 1 to MaxU32 versions.
LEMMA AcceptedPayload ==
  ASSUME TypeOK, NEW contracts \in ImportPayload, Refused(contracts) = {}
  PROVE  /\ \A i \in DOMAIN contracts :
              /\ contracts[i].contractName \in ValidName
              /\ ~Registered(contracts[i].contractName)
              /\ Len(contracts[i].versions) \in 1..MaxU32
         /\ \A i, j \in DOMAIN contracts :
              contracts[i].contractName = contracts[j].contractName => i = j
<1>1. ASSUME NEW i \in DOMAIN contracts
      PROVE  /\ contracts[i].contractName \in ValidName
             /\ contracts[i].versions # <<>>
             /\ ~Registered(contracts[i].contractName)
             /\ ~ \E j \in 1..(i - 1) : contracts[j].contractName = contracts[i].contractName
             /\ ~(Len(contracts[i].versions) > MaxU32)
  <2>1. ImportResult(contracts, i) = "Ok"
    BY DEF Refused
  <2>2. QED
    BY <2>1, Zenon DEF ImportResult
<1>2. ASSUME NEW i \in DOMAIN contracts
      PROVE  Len(contracts[i].versions) \in 1..MaxU32
  BY <1>1, PayloadType
<1>3. ASSUME NEW i \in DOMAIN contracts, NEW j \in DOMAIN contracts,
             contracts[i].contractName = contracts[j].contractName
      PROVE  i = j
  <2>1. i \in Nat /\ j \in Nat /\ 1 <= i /\ 1 <= j
    BY PayloadType
  <2>2. ~(j < i)
    BY <1>1, <1>3, <2>1
  <2>3. ~(i < j)
    BY <1>1, <1>3, <2>1
  <2>4. QED
    BY <2>1, <2>2, <2>3
<1>4. QED
  BY <1>1, <1>2, <1>3

\* A name of an accepted payload is unregistered, valid, and has exactly one
\* contract in it; ImportOf finds that contract.
LEMMA ImportedName ==
  ASSUME TypeOK, NEW contracts \in ImportPayload, Refused(contracts) = {},
         NEW n \in ContractName, Imports(contracts, n)
  PROVE  /\ n \in ValidName
         /\ ~Registered(n)
         /\ ImportOf(contracts, n).owner \in Address
         /\ ImportOf(contracts, n).versions \in Seq(ImportVersion)
         /\ Len(ImportOf(contracts, n).versions) \in 1..MaxU32
         /\ \A v \in 1..Len(ImportOf(contracts, n).versions) :
              ImportOf(contracts, n).versions[v] \in ImportVersion
<1>1. PICK i \in DOMAIN contracts : ImportOf(contracts, n) = contracts[i] /\ contracts[i].contractName = n
  BY DEF Imports, ImportOf
<1>2. QED
  BY <1>1, PayloadType, AcceptedPayload

-----------------------------------------------------------------------------
(* The inductive invariant. *)

\* Only names that pass validate_contract_name are ever registered, by either
\* way in.
OnlyValidNames == \A n \in ContractName : Registered(n) => n \in ValidName

IInv ==
  /\ TypeOK
  /\ IndexIsExact
  /\ OnlyValidNames
  /\ NothingBeyondTheCount

LEMMA InitIInv == Init => IInv
<1> SUFFICES ASSUME Init PROVE IInv
  OBVIOUS
<1>1. TypeOK
  <2>1. names \in Seq(ContractName)
    BY DEF Init
  <2>2. info \in [ContractName -> [owner : Address, versionCount : Version]]
    BY DEF Init, Address, Version
  <2>3. /\ addressOf \in [ContractName -> [Version -> Address]]
        /\ metadataUriOf \in [ContractName -> [Version -> Uri]]
    BY DEF Init, Address, Uri
  <2>4. QED
    BY <2>1, <2>2, <2>3 DEF Init, TypeOK
<1>2. IndexIsExact
  BY DEF Init, IndexIsExact, Registered
<1>3. OnlyValidNames
  BY DEF Init, OnlyValidNames, Registered
<1>4. NothingBeyondTheCount
  BY DEF Init, NothingBeyondTheCount
<1>5. QED
  BY <1>1, <1>2, <1>3, <1>4 DEF IInv

\* A publish preserves the invariant.
LEMMA PublishIInv ==
  ASSUME IInv, NEW caller \in Account, NEW n \in ContractName,
         NEW address \in ContractAddress, NEW uri \in MetadataUri,
         PublishLatest(caller, n, address, uri)
  PROVE  IInv'
<1> DEFINE version == info[n].versionCount
<1>1. /\ version \in Version
      /\ version < MaxU32
      /\ version + 1 \in Version
      /\ version \in Nat
      /\ n \in ValidName
  BY DEF PublishLatest, NextVersion, IndexWith, PublishResult, IInv, TypeOK, Version
<1>2. /\ info'[n].versionCount = version + 1
      /\ info'[n].owner \in Address
      /\ \A m \in ContractName \ {n} : info'[m] = info[m]
      /\ info' \in [ContractName -> [owner : Address, versionCount : Version]]
  BY <1>1 DEF PublishLatest, NextVersion, IndexWith, IInv, TypeOK, Address
<1>3. /\ addressOf' \in [ContractName -> [Version -> Address]]
      /\ metadataUriOf' \in [ContractName -> [Version -> Uri]]
  BY <1>1 DEF PublishLatest, NextVersion, IndexWith, IInv, TypeOK, Address, Uri
<1>4. /\ names' \in Seq(ContractName)
      /\ names' = IF Registered(n) THEN names ELSE Append(names, n)
  BY DEF PublishLatest, NextVersion, IndexWith, IInv, TypeOK
<1>5. TypeOK'
  BY <1>2, <1>3, <1>4 DEF PublishLatest, NextVersion, IndexWith, IInv, TypeOK, Succeeds, slots
<1>6. \A m \in ContractName : Registered(m)' <=> (Registered(m) \/ m = n)
  BY <1>1, <1>2 DEF Registered
<1>7. IndexIsExact'
  <2>1. CASE Registered(n)
    BY <2>1, <1>4, <1>6 DEF IInv, IndexIsExact
  <2>2. CASE ~Registered(n)
    <3>1. /\ Len(names) \in Nat
          /\ Len(names') = Len(names) + 1
          /\ \A i \in 1..Len(names) : names'[i] = names[i]
          /\ names'[Len(names) + 1] = n
          /\ DOMAIN names = 1..Len(names)
          /\ DOMAIN names' = 1..(Len(names) + 1)
      BY <2>2, <1>4 DEF IInv, TypeOK
    <3>2. \A i \in 1..Len(names) : names[i] # n
      BY <2>2, <3>1 DEF IInv, IndexIsExact
    <3>3. \A i, j \in DOMAIN names' : names'[i] = names'[j] => i = j
      BY <3>1, <3>2 DEF IInv, IndexIsExact
    <3>4. \A m \in ContractName : Registered(m)' <=> \E i \in DOMAIN names' : names'[i] = m
      <4> SUFFICES ASSUME NEW m \in ContractName
                   PROVE  Registered(m)' <=> \E i \in DOMAIN names' : names'[i] = m
        OBVIOUS
      <4>1. Registered(m) <=> \E i \in 1..Len(names) : names[i] = m
        BY <3>1 DEF IInv, IndexIsExact
      <4>2. (\E i \in DOMAIN names' : names'[i] = m)
              <=> (\E i \in 1..Len(names) : names[i] = m) \/ m = n
        BY <3>1
      <4>3. QED
        BY <4>1, <4>2, <1>6
    <3>5. QED
      BY <3>3, <3>4 DEF IndexIsExact
  <2>3. QED
    BY <2>1, <2>2
<1>8. OnlyValidNames'
  BY <1>1, <1>6 DEF IInv, OnlyValidNames
<1>9. NothingBeyondTheCount'
  <2> SUFFICES ASSUME NEW m \in ContractName, NEW v \in Version, ~VersionExists(m, v)'
               PROVE  /\ addressOf'[m][v] = ZeroAddress
                      /\ metadataUriOf'[m][v] = EmptyUri
    BY DEF NothingBeyondTheCount
  <2>1. ~VersionExists(m, v) /\ ~(m = n /\ v = version)
    BY <1>1, <1>2 DEF VersionExists, Version
  <2>2. addressOf'[m][v] = addressOf[m][v] /\ metadataUriOf'[m][v] = metadataUriOf[m][v]
    BY <2>1, <1>1 DEF PublishLatest, NextVersion, IndexWith, IInv, TypeOK
  <2>3. QED
    BY <2>1, <2>2 DEF IInv, NothingBeyondTheCount
<1>10. QED
  BY <1>5, <1>7, <1>8, <1>9 DEF IInv

\* What an import does to one name.
LEMMA ImportEffect ==
  ASSUME TypeOK, NEW caller \in Account, NEW contracts \in ImportPayload,
         AdminImportContracts(caller, contracts), NEW n \in ContractName
  PROVE  /\ Imports(contracts, n) =>
              /\ info'[n].versionCount = Len(ImportOf(contracts, n).versions)
              /\ info'[n].owner = ImportOf(contracts, n).owner
         /\ ~Imports(contracts, n) =>
              /\ info'[n] = info[n]
              /\ addressOf'[n] = addressOf[n]
              /\ metadataUriOf'[n] = metadataUriOf[n]
<1>1. Imports(contracts, n) =>
        /\ info'[n].versionCount = Len(ImportOf(contracts, n).versions)
        /\ info'[n].owner = ImportOf(contracts, n).owner
  BY DEF AdminImportContracts, ContractNames
<1>2. ASSUME ~Imports(contracts, n)
      PROVE  info'[n] = info[n]
  BY <1>2 DEF AdminImportContracts, ContractNames
<1>3. ASSUME ~Imports(contracts, n)
      PROVE  addressOf'[n] = addressOf[n] /\ metadataUriOf'[n] = metadataUriOf[n]
  <2>1. addressOf'[n] = [v \in Version |-> addressOf[n][v]]
    BY <1>3, Zenon DEF AdminImportContracts, ContractNames
  <2>2. metadataUriOf'[n] = [v \in Version |-> metadataUriOf[n][v]]
    BY <1>3, Zenon DEF AdminImportContracts, ContractNames
  <2>3. QED
    BY <2>1, <2>2 DEF TypeOK
<1>4. QED
  BY <1>1, <1>2, <1>3

\* An import appends its names to the index, in payload order.
LEMMA ImportedNames ==
  ASSUME TypeOK, NEW caller \in Account, NEW contracts \in ImportPayload,
         AdminImportContracts(caller, contracts)
  PROVE  /\ names' \in Seq(ContractName)
         /\ Len(names) \in Nat
         /\ Len(contracts) \in Nat
         /\ Len(names') = Len(names) + Len(contracts)
         /\ DOMAIN names = 1..Len(names)
         /\ DOMAIN names' = 1..(Len(names) + Len(contracts))
         /\ \A i \in 1..Len(names) : names'[i] = names[i]
         /\ \A i \in 1..Len(contracts) : names'[Len(names) + i] = contracts[i].contractName
<1> DEFINE added == [i \in DOMAIN contracts |-> contracts[i].contractName]
<1>1. /\ added \in Seq(ContractName)
      /\ Len(added) = Len(contracts)
      /\ \A i \in 1..Len(contracts) : added[i] = contracts[i].contractName
      /\ names' = names \o added
  <2>1. added \in [1..Len(contracts) -> ContractName] /\ Len(contracts) \in Nat
    BY PayloadType
  <2>2. names' = names \o added
    BY DEF AdminImportContracts, ContractNames
  <2>3. \A i \in 1..Len(contracts) : added[i] = contracts[i].contractName
    BY PayloadType
  <2> HIDE DEF added
  <2>4. added \in Seq(ContractName) /\ Len(added) = Len(contracts)
    BY <2>1
  <2>5. QED
    BY <2>2, <2>3, <2>4
<1> HIDE DEF added
<1>2. names \in Seq(ContractName)
  BY DEF TypeOK
<1>3. /\ names' \in Seq(ContractName)
      /\ Len(names') = Len(names) + Len(added)
      /\ \A i \in 1..(Len(names) + Len(added)) :
           names'[i] = IF i <= Len(names) THEN names[i] ELSE added[i - Len(names)]
  BY <1>1, <1>2, ConcatProperties
<1>4. Len(names) \in Nat /\ Len(contracts) \in Nat
  BY <1>2, PayloadType
<1>5. \A i \in 1..Len(contracts) : names'[Len(names) + i] = contracts[i].contractName
  <2> SUFFICES ASSUME NEW i \in 1..Len(contracts)
               PROVE  names'[Len(names) + i] = contracts[i].contractName
    OBVIOUS
  <2>1. /\ Len(names) + i \in 1..(Len(names) + Len(added))
        /\ ~(Len(names) + i <= Len(names))
        /\ (Len(names) + i) - Len(names) = i
    BY <1>1, <1>4
  <2>2. QED
    BY <1>1, <1>3, <2>1
<1>6. \A i \in 1..Len(names) : names'[i] = names[i]
  BY <1>1, <1>3, <1>4
<1>7. DOMAIN names = 1..Len(names) /\ DOMAIN names' = 1..Len(names')
  BY <1>2, <1>3
<1>8. QED
  BY <1>1, <1>3, <1>4, <1>5, <1>6, <1>7

\* An import preserves the invariant.
LEMMA ImportIInv ==
  ASSUME IInv, NEW caller \in Account, NEW contracts \in ImportPayload,
         AdminImportContracts(caller, contracts)
  PROVE  IInv'
<1>1. Refused(contracts) = {} /\ TypeOK
  BY DEF AdminImportContracts, ContractNames, IInv
<1>2. info' \in [ContractName -> [owner : Address, versionCount : Version]]
  <2> SUFFICES ASSUME NEW n \in ContractName
               PROVE  (IF Imports(contracts, n)
                         THEN [owner |-> ImportOf(contracts, n).owner,
                               versionCount |-> Len(ImportOf(contracts, n).versions)]
                         ELSE info[n]) \in [owner : Address, versionCount : Version]
    BY DEF AdminImportContracts, ContractNames
  <2>1. CASE Imports(contracts, n)
    BY <1>1, <2>1, ImportedName DEF Version
  <2>2. CASE ~Imports(contracts, n)
    BY <1>1, <2>2 DEF TypeOK
  <2>3. QED
    BY <2>1, <2>2
<1>3. ASSUME NEW n \in ContractName, NEW v \in Version
      PROVE  /\ (IF Imports(contracts, n) /\ v < Len(ImportOf(contracts, n).versions)
                   THEN ImportOf(contracts, n).versions[v + 1].address
                   ELSE addressOf[n][v]) \in Address
             /\ (IF Imports(contracts, n) /\ v < Len(ImportOf(contracts, n).versions)
                   THEN ImportOf(contracts, n).versions[v + 1].metadataUri
                   ELSE metadataUriOf[n][v]) \in Uri
  <2>1. CASE Imports(contracts, n) /\ v < Len(ImportOf(contracts, n).versions)
    <3>1. v + 1 \in 1..Len(ImportOf(contracts, n).versions)
      BY <1>1, <2>1, ImportedName DEF Version
    <3>2. ImportOf(contracts, n).versions[v + 1] \in ImportVersion
      BY <1>1, <2>1, <3>1, ImportedName
    <3>3. QED
      BY <2>1, <3>2 DEF ImportVersion
  <2>2. CASE ~(Imports(contracts, n) /\ v < Len(ImportOf(contracts, n).versions))
    BY <1>1, <2>2 DEF TypeOK
  <2>3. QED
    BY <2>1, <2>2
<1>4. /\ addressOf' \in [ContractName -> [Version -> Address]]
      /\ metadataUriOf' \in [ContractName -> [Version -> Uri]]
  BY <1>3 DEF AdminImportContracts, ContractNames
<1>6. /\ names' \in Seq(ContractName)
      /\ Len(names) \in Nat
      /\ Len(contracts) \in Nat
      /\ Len(names') = Len(names) + Len(contracts)
      /\ DOMAIN names = 1..Len(names)
      /\ DOMAIN names' = 1..(Len(names) + Len(contracts))
      /\ \A i \in 1..Len(names) : names'[i] = names[i]
      /\ \A i \in 1..Len(contracts) : names'[Len(names) + i] = contracts[i].contractName
  BY <1>1, ImportedNames
<1>7. TypeOK'
  BY <1>2, <1>4, <1>6 DEF AdminImportContracts, ContractNames, IInv, TypeOK, Succeeds, slots
<1>8. \A n \in ContractName : Registered(n)' <=> (Registered(n) \/ Imports(contracts, n))
  <2> SUFFICES ASSUME NEW n \in ContractName
               PROVE  Registered(n)' <=> (Registered(n) \/ Imports(contracts, n))
    OBVIOUS
  <2>1. CASE Imports(contracts, n)
    BY <1>1, <2>1, ImportEffect, ImportedName DEF Registered
  <2>2. CASE ~Imports(contracts, n)
    BY <1>1, <2>2, ImportEffect DEF Registered
  <2>3. QED
    BY <2>1, <2>2
<1>9. \A i \in 1..Len(contracts) :
        /\ contracts[i].contractName \in ContractName
        /\ Imports(contracts, contracts[i].contractName)
        /\ ~Registered(contracts[i].contractName)
        /\ \A j \in 1..Len(contracts) :
             contracts[i].contractName = contracts[j].contractName => i = j
  BY <1>1, PayloadType, AcceptedPayload DEF Imports
<1>10. \A i, j \in DOMAIN names' : names'[i] = names'[j] => i = j
  <2>1. \A i, j \in 1..Len(names) : names[i] = names[j] => i = j
    BY <1>6 DEF IInv, IndexIsExact
  <2>2. \A i \in 1..Len(names) : Registered(names[i])
    <3> SUFFICES ASSUME NEW i \in 1..Len(names)
                 PROVE  Registered(names[i])
      OBVIOUS
    <3>1. names[i] \in ContractName /\ i \in DOMAIN names
      BY <1>1, <1>6 DEF TypeOK
    <3>2. QED
      BY <3>1 DEF IInv, IndexIsExact
  <2>3. \A i \in DOMAIN names' :
          \/ i \in 1..Len(names)
          \/ \E k \in 1..Len(contracts) : i = Len(names) + k
    <3> SUFFICES ASSUME NEW i \in DOMAIN names', i \notin 1..Len(names)
                 PROVE  \E k \in 1..Len(contracts) : i = Len(names) + k
      OBVIOUS
    <3>1. i - Len(names) \in 1..Len(contracts) /\ i = Len(names) + (i - Len(names))
      BY <1>6
    <3>2. QED
      BY <3>1
  <2>4. \A i \in 1..Len(names), k \in 1..Len(contracts) : names[i] # contracts[k].contractName
    BY <2>2, <1>9
  <2>5. SUFFICES ASSUME NEW i \in DOMAIN names', NEW j \in DOMAIN names', names'[i] = names'[j]
                 PROVE  i = j
    OBVIOUS
  <2>6. CASE i \in 1..Len(names) /\ j \in 1..Len(names)
    BY <2>1, <2>5, <2>6, <1>6
  <2>7. ASSUME NEW k \in 1..Len(contracts), i = Len(names) + k, j \in 1..Len(names)
        PROVE  FALSE
    BY <2>4, <2>5, <2>7, <1>6
  <2>8. ASSUME NEW k \in 1..Len(contracts), j = Len(names) + k, i \in 1..Len(names)
        PROVE  FALSE
    BY <2>4, <2>5, <2>8, <1>6
  <2>9. ASSUME NEW k \in 1..Len(contracts), i = Len(names) + k,
               NEW l \in 1..Len(contracts), j = Len(names) + l
        PROVE  i = j
    <3>1. contracts[k].contractName = contracts[l].contractName
      BY <2>5, <2>9, <1>6
    <3>2. QED
      BY <2>9, <3>1, <1>9
  <2>10. QED
    BY <2>3, <2>6, <2>7, <2>8, <2>9
<1>11. \A n \in ContractName : Registered(n)' <=> \E i \in DOMAIN names' : names'[i] = n
  <2> SUFFICES ASSUME NEW n \in ContractName
               PROVE  Registered(n)' <=> \E i \in DOMAIN names' : names'[i] = n
    OBVIOUS
  <2>1. Registered(n) <=> \E i \in 1..Len(names) : names[i] = n
    BY <1>6 DEF IInv, IndexIsExact
  <2>2. Imports(contracts, n) <=> \E k \in 1..Len(contracts) : contracts[k].contractName = n
    BY PayloadType DEF Imports
  <2>3. (\E i \in DOMAIN names' : names'[i] = n)
          <=> \/ \E i \in 1..Len(names) : names[i] = n
              \/ \E k \in 1..Len(contracts) : contracts[k].contractName = n
    <3>1. ASSUME NEW i \in DOMAIN names', names'[i] = n
          PROVE  \/ \E j \in 1..Len(names) : names[j] = n
                 \/ \E k \in 1..Len(contracts) : contracts[k].contractName = n
      <4>1. CASE i \in 1..Len(names)
        BY <3>1, <4>1, <1>6
      <4>2. CASE i \notin 1..Len(names)
        <5>1. i - Len(names) \in 1..Len(contracts) /\ i = Len(names) + (i - Len(names))
          BY <4>2, <1>6
        <5>2. QED
          BY <3>1, <5>1, <1>6
      <4>3. QED
        BY <4>1, <4>2
    <3>2. ASSUME NEW j \in 1..Len(names), names[j] = n
          PROVE  \E i \in DOMAIN names' : names'[i] = n
      BY <3>2, <1>6
    <3>3. ASSUME NEW k \in 1..Len(contracts), contracts[k].contractName = n
          PROVE  \E i \in DOMAIN names' : names'[i] = n
      <4>1. Len(names) + k \in DOMAIN names' /\ names'[Len(names) + k] = n
        BY <3>3, <1>6
      <4>2. QED
        BY <4>1
    <3>4. QED
      BY <3>1, <3>2, <3>3
  <2>4. QED
    BY <2>1, <2>2, <2>3, <1>8
<1>12. IndexIsExact'
  BY <1>10, <1>11 DEF IndexIsExact
<1>13. OnlyValidNames'
  BY <1>1, <1>8, ImportedName DEF IInv, OnlyValidNames
<1>14. NothingBeyondTheCount'
  <2> SUFFICES ASSUME NEW n \in ContractName, NEW v \in Version, ~VersionExists(n, v)'
               PROVE  /\ addressOf'[n][v] = ZeroAddress
                      /\ metadataUriOf'[n][v] = EmptyUri
    BY DEF NothingBeyondTheCount
  <2>1. CASE Imports(contracts, n)
    <3>1. ~(v < Len(ImportOf(contracts, n).versions))
      BY <1>1, <2>1, ImportEffect DEF VersionExists
    <3>2. addressOf'[n][v] = addressOf[n][v] /\ metadataUriOf'[n][v] = metadataUriOf[n][v]
      BY <3>1 DEF AdminImportContracts, ContractNames
    <3>3. ~VersionExists(n, v)
      BY <1>1, <2>1, ImportedName DEF VersionExists, Registered, Version
    <3>4. QED
      BY <3>2, <3>3 DEF IInv, NothingBeyondTheCount
  <2>2. CASE ~Imports(contracts, n)
    BY <1>1, <2>2, ImportEffect DEF VersionExists, IInv, NothingBeyondTheCount
  <2>3. QED
    BY <2>1, <2>2
<1>15. QED
  BY <1>7, <1>12, <1>13, <1>14 DEF IInv

\* Steps that leave the data alone preserve the parts that are about it.
LEMMA SameDataIInv ==
  ASSUME IInv, UNCHANGED registry
  PROVE  /\ IndexIsExact' /\ OnlyValidNames' /\ NothingBeyondTheCount'
         /\ names' \in Seq(ContractName)
         /\ info' \in [ContractName -> [owner : Address, versionCount : Version]]
         /\ addressOf' \in [ContractName -> [Version -> Address]]
         /\ metadataUriOf' \in [ContractName -> [Version -> Uri]]
BY DEF IInv, TypeOK, registry, IndexIsExact, OnlyValidNames, NothingBeyondTheCount,
       Registered, VersionExists

LEMMA AdminCallIInv ==
  ASSUME IInv, NEW caller \in Account, AdminCall(caller)
  PROVE  IInv'
<1>1. ASSUME NEW newAdmin \in Account \cup {ZeroAddress}, SetAdmin(caller, newAdmin)
      PROVE  IInv'
  BY <1>1, SameDataIInv DEF SetAdmin, IInv, TypeOK, Succeeds
<1>2. ASSUME NEW target \in Build \cup OtherContract, SetCode(caller, target)
      PROVE  IInv'
  BY <1>2, SameDataIInv DEF SetCode, IInv, TypeOK, Succeeds
<1>3. ASSUME NEW error \in Error, Reverts(caller, error)
      PROVE  IInv'
  BY <1>3, SameDataIInv DEF Reverts, IInv, TypeOK, slots
<1>4. ASSUME NEW target \in Build \cup OtherContract, SetCodeReverts(caller, target)
      PROVE  IInv'
  BY <1>3, <1>4 DEF SetCodeReverts, Error
<1>5. CASE Freeze(caller) \/ Unfreeze(caller)
  <2>1. CASE Freeze(caller)
    BY <2>1, SameDataIInv DEF Freeze, IInv, TypeOK, Succeeds
  <2>2. CASE Unfreeze(caller)
    BY <2>2, SameDataIInv DEF Unfreeze, IInv, TypeOK, Succeeds
  <2>3. QED
    BY <1>5, <2>1, <2>2
<1>6. ASSUME NEW contracts \in ImportPayload, AdminImportContracts(caller, contracts)
      PROVE  IInv'
  BY <1>6, ImportIInv
<1>7. ASSUME NEW contracts \in ImportPayload, AdminImportContractsReverts(caller, contracts)
      PROVE  IInv'
  <2>1. PICK i \in Refused(contracts) : Reverts(caller, ImportResult(contracts, i))
    BY <1>7 DEF AdminImportContractsReverts
  <2>2. ImportResult(contracts, i) \in Error
    BY DEF Refused, ImportResult, Error
  <2>3. QED
    BY <1>3, <2>1, <2>2
<1>8. CASE AdminCallReverts(caller)
  BY <1>3, <1>8 DEF AdminCallReverts, Error
<1>9. QED
  BY <1>1, <1>2, <1>4, <1>5, <1>6, <1>7, <1>8 DEF AdminCall

LEMMA NextIInv == IInv /\ [Next]_vars => IInv'
<1> SUFFICES ASSUME IInv, [Next]_vars
             PROVE  IInv'
  OBVIOUS
<1>1. ASSUME NEW caller \in Account, AdminCall(caller)
      PROVE  IInv'
  BY <1>1, AdminCallIInv
<1>2. ASSUME NEW caller \in Account, PublishCall(caller)
      PROVE  IInv'
  <2>1. ASSUME NEW n \in ContractName, PublishLatestReverts(caller, n)
        PROVE  IInv'
    <3>1. PublishResult(caller, n) \in Error
      BY <2>1 DEF PublishLatestReverts, PublishResult, Error
    <3>2. QED
      BY <2>1, <3>1, SameDataIInv
      DEF PublishLatestReverts, Reverts, IInv, TypeOK, slots
  <2>2. QED
    BY <1>2, <2>1, PublishIInv DEF PublishCall
<1>3. ASSUME NEW build \in Build, DeployBuild(build)
      PROVE  IInv'
  BY <1>3, SameDataIInv DEF DeployBuild, IInv, TypeOK, slots
<1>4. CASE UNCHANGED vars
  BY <1>4, SameDataIInv DEF vars, registry, IInv, TypeOK
<1>5. ASSUME NEW caller \in Account, NoHandlerReverts(caller)
      PROVE  IInv'
  BY <1>5, SameDataIInv DEF NoHandlerReverts, Reverts, Error, IInv, TypeOK, slots
<1>6. QED
  BY <1>1, <1>2, <1>3, <1>4, <1>5 DEF Next

\* IInv holds in every reachable state.
THEOREM Invariance == Spec => []IInv
<1>1. QED
  BY InitIInv, NextIInv, PTL DEF Spec

\* Type correctness.
THEOREM TypeCorrect == Spec => []TypeOK
BY Invariance, PTL DEF IInv

\* The index of getContracts lists exactly the names that have a version.
THEOREM IndexAlwaysExact == Spec => []IndexIsExact
BY Invariance, PTL DEF IInv

\* Nothing is registered under a name validate_contract_name rejects.
THEOREM RegisteredNamesAreValid == Spec => []OnlyValidNames
BY Invariance, PTL DEF IInv

\* No entry is stored beyond the version count.
THEOREM NothingStoredBeyondTheCount == Spec => []NothingBeyondTheCount
BY Invariance, PTL DEF IInv

-----------------------------------------------------------------------------
(* Pages of the index. *)

\* Of the numbers from a to b, the k-th is a + k - 1.
LEMMA NthOfInterval ==
  ASSUME NEW a \in Int, NEW b \in Int, NEW k \in 1..(b - a + 1)
  PROVE  Nth(a..b, k) = a + k - 1
<1>1. ASSUME NEW i \in a..b PROVE Cardinality({j \in a..b : j <= i}) = i - a + 1
  <2>1. {j \in a..b : j <= i} = a..i OBVIOUS
  <2>2. i \in Int /\ ~(a > i) OBVIOUS
  <2>3. Cardinality(a..i) = i - a + 1 BY <2>2, FS_Interval
  <2> QED BY <2>1, <2>3
<1>2. PICK i \in a..b : i = a + k - 1 OBVIOUS
<1>3. \A j \in a..b : Cardinality({l \in a..b : l <= j}) = k <=> j = i
  <2> TAKE j \in a..b
  <2>1. Cardinality({l \in a..b : l <= j}) = j - a + 1 BY <1>1
  <2> QED BY <1>2, <2>1
<1> QED BY <1>2, <1>3 DEF Nth

\* A page of an index whose names are all registered.
LEMMA PageOfAnExactIndex ==
  ASSUME MaxU32 \in Nat, MaxPageLimit \in 1..MaxU32, names \in Seq(ContractName),
         \A i \in DOMAIN names : Registered(names[i]),
         Len(names) <= MaxU32, NEW start \in Version, NEW count \in Version
  PROVE  LET page == GetContracts(start, count)
             size == Smaller(Smaller(count, MaxPageLimit), Len(names) - start)
         IN  /\ page.total = Len(names)
             /\ start <= Len(names) => Len(page.entries) = size
             /\ \A i \in DOMAIN page.entries : page.entries[i].name = names[start + i]
<1>1. PICK total \in Nat : total = Len(names) /\ DOMAIN names = 1..total OBVIOUS
<1>2. Len(names) % (MaxU32 + 1) = total BY <1>1
<1>3. start \in Nat /\ count \in Nat BY DEF Version
<1>4. PICK end : end = Smaller(Smaller(start + Smaller(count, MaxPageLimit), MaxU32), total)
  OBVIOUS
<1>5. PICK wanted \in Nat : wanted = Smaller(count, MaxPageLimit) BY <1>3 DEF Smaller
<1>6. /\ end \in Nat /\ end <= total /\ end <= start + wanted
      /\ end = total \/ end = start + wanted
  BY <1>1, <1>3, <1>4, <1>5 DEF Smaller
<1>7. PICK listed : listed = {i \in (start + 1)..end : Registered(names[i])} OBVIOUS
<1>8. listed = (start + 1)..end BY <1>1, <1>3, <1>6, <1>7
<1>9. PICK size \in Nat : size = Cardinality(listed) /\ size = IF start > end THEN 0 ELSE end - start
  <2>1. start + 1 \in Int /\ end \in Int BY <1>3, <1>6
  <2>2. Cardinality((start + 1)..end) = IF start + 1 > end THEN 0 ELSE end - (start + 1) + 1
    BY <2>1, FS_Interval
  <2> QED BY <1>3, <1>6, <1>8, <2>2
<1>10. PICK page : page = GetContracts(start, count) OBVIOUS
<1>11. /\ page.total = total
       /\ page.entries = [k \in 1..size |-> LatestEntry(names[Nth(listed, k)])]
  BY <1>1, <1>2, <1>4, <1>7, <1>9, <1>10 DEF GetContracts
<1>12. ASSUME NEW i \in DOMAIN page.entries
       PROVE  page.entries[i].name = names[start + i]
  <2>1. i \in 1..size /\ start + 1 \in Int /\ end \in Int /\ i \in 1..(end - (start + 1) + 1)
    BY <1>3, <1>6, <1>9, <1>11
  <2>2. Nth((start + 1)..end, i) = start + 1 + i - 1 BY <2>1, NthOfInterval
  <2>3. Nth(listed, i) = start + i BY <1>3, <1>8, <2>1, <2>2
  <2> QED BY <1>11, <2>1, <2>3 DEF LatestEntry
<1>13. Len(page.entries) = size
  <2>1. PICK S : S = {LatestEntry(names[Nth(listed, k)]) : k \in 1..size} OBVIOUS
  <2>2. page.entries \in [1..size -> S] BY <1>11, <2>1
  <2>3. page.entries \in Seq(S) BY <1>9, <2>2
  <2>4. DOMAIN page.entries = 1..Len(page.entries) /\ Len(page.entries) \in Nat BY <2>3
  <2>5. DOMAIN page.entries = 1..size BY <1>11
  <2> QED BY <1>9, <2>4, <2>5
<1>14. start <= total => size = Smaller(Smaller(count, MaxPageLimit), Len(names) - start)
  BY <1>1, <1>3, <1>5, <1>6, <1>9 DEF Smaller
<1> QED BY <1>1, <1>10, <1>11, <1>12, <1>13, <1>14

\* Before the count of names leaves a u32, get_contracts lists every index of
\* its range in order, so a client that pages sees every contract.
THEOREM PagesAreWhole == Spec => [](Len(names) <= MaxU32 => PagesHaveNoHoles)
<1>1. IInv => (Len(names) <= MaxU32 => PagesHaveNoHoles)
  <2> SUFFICES ASSUME IInv, Len(names) <= MaxU32, NEW start \in Version, NEW count \in Version
               PROVE  LET page == GetContracts(start, count)
                          size == Smaller(Smaller(count, MaxPageLimit), Len(names) - start)
                      IN  /\ page.total = Len(names)
                          /\ start <= Len(names) => Len(page.entries) = size
                          /\ \A i \in DOMAIN page.entries : page.entries[i].name = names[start + i]
    BY DEF PagesHaveNoHoles
  <2>1. names \in Seq(ContractName) BY DEF IInv, TypeOK
  <2>2. \A i \in DOMAIN names : names[i] \in ContractName BY <2>1
  <2>3. \A i \in DOMAIN names : Registered(names[i]) BY <2>2 DEF IInv, IndexIsExact
  <2>4. MaxU32 \in Nat /\ MaxPageLimit \in 1..MaxU32 BY PageLimitAssumption
  <2> QED BY <2>1, <2>3, <2>4, PageOfAnExactIndex
<1> QED BY <1>1, Invariance, PTL

-----------------------------------------------------------------------------
(* What a step may do to the data. *)

\* Only a publish and an import change the data.
LEMMA DataSteps ==
  ASSUME [Next]_vars
  PROVE  \/ UNCHANGED registry
         \/ \E caller \in Account, n \in ContractName,
               address \in ContractAddress, uri \in MetadataUri :
              PublishLatest(caller, n, address, uri)
         \/ \E caller \in Account, contracts \in ImportPayload :
              AdminImportContracts(caller, contracts)
BY DEF Next, vars, registry, AdminCall, PublishCall, SetAdmin, SetCode, SetCodeReverts, Freeze,
       Unfreeze, AdminCallReverts, AdminImportContractsReverts, PublishLatestReverts, NoHandlerReverts,
       Reverts, DeployBuild

\* A publish touches one name: it appends one version and keeps the owner of
\* a registered name, who sent the transaction.
LEMMA PublishEffect ==
  ASSUME IInv, NEW caller \in Account, NEW n \in ContractName,
         NEW address \in ContractAddress, NEW uri \in MetadataUri,
         PublishLatest(caller, n, address, uri)
  PROVE  /\ n \in ValidName
         /\ info[n].versionCount \in Nat
         /\ info[n].versionCount \in Version
         /\ info[n].versionCount < MaxU32
         /\ info'[n].versionCount = info[n].versionCount + 1
         /\ info'[n].owner = caller
         /\ Registered(n) => info[n].owner = caller
         /\ addressOf'[n][info[n].versionCount] = address
         /\ metadataUriOf'[n][info[n].versionCount] = uri
         /\ \A v \in Version \ {info[n].versionCount} :
              addressOf'[n][v] = addressOf[n][v] /\ metadataUriOf'[n][v] = metadataUriOf[n][v]
         /\ \A m \in ContractName \ {n} :
              /\ info'[m] = info[m]
              /\ addressOf'[m] = addressOf[m]
              /\ metadataUriOf'[m] = metadataUriOf[m]
         /\ tx'.caller = caller
<1>1. /\ info[n].versionCount \in Version
      /\ info[n].versionCount \in Nat
      /\ info[n].versionCount < MaxU32
      /\ n \in ValidName
      /\ Registered(n) => info[n].owner = caller
  BY DEF PublishLatest, NextVersion, IndexWith, PublishResult, IInv, TypeOK, Version
<1>2. /\ info'[n].versionCount = info[n].versionCount + 1
      /\ info'[n].owner = caller
      /\ \A m \in ContractName \ {n} : info'[m] = info[m]
  BY <1>1 DEF PublishLatest, NextVersion, IndexWith, IInv, TypeOK
<1>3. /\ addressOf'[n][info[n].versionCount] = address
      /\ \A v \in Version \ {info[n].versionCount} : addressOf'[n][v] = addressOf[n][v]
      /\ \A m \in ContractName \ {n} : addressOf'[m] = addressOf[m]
  BY <1>1 DEF PublishLatest, NextVersion, IndexWith, IInv, TypeOK
<1>4. /\ metadataUriOf'[n][info[n].versionCount] = uri
      /\ \A v \in Version \ {info[n].versionCount} : metadataUriOf'[n][v] = metadataUriOf[n][v]
      /\ \A m \in ContractName \ {n} : metadataUriOf'[m] = metadataUriOf[m]
  BY <1>1 DEF PublishLatest, NextVersion, IndexWith, IInv, TypeOK
<1>5. tx'.caller = caller
  BY DEF PublishLatest, NextVersion, IndexWith, Succeeds
<1>6. QED
  BY <1>1, <1>2, <1>3, <1>4, <1>5

\* A registered name is in no accepted import.
LEMMA RegisteredNotImported ==
  ASSUME IInv, NEW caller \in Account, NEW contracts \in ImportPayload,
         AdminImportContracts(caller, contracts), NEW n \in ContractName, Registered(n)
  PROVE  /\ ~Imports(contracts, n)
         /\ info'[n] = info[n]
         /\ addressOf'[n] = addressOf[n]
         /\ metadataUriOf'[n] = metadataUriOf[n]
<1>1. TypeOK /\ Refused(contracts) = {}
  BY DEF IInv, AdminImportContracts, ContractNames
<1>2. ~Imports(contracts, n)
  BY <1>1, ImportedName
<1>3. QED
  BY <1>1, <1>2, ImportEffect

\* A published version keeps its address and its URI for ever, whoever calls
\* what: the immutability readers of name@version rely on.
THEOREM Immutability == Spec => PublishedVersionsNeverChange
<1>1. ASSUME IInv, [Next]_vars, NEW n \in ContractName, NEW v \in Version, VersionExists(n, v)
      PROVE  /\ VersionExists(n, v)'
             /\ addressOf'[n][v] = addressOf[n][v]
             /\ metadataUriOf'[n][v] = metadataUriOf[n][v]
  <2>1. info[n].versionCount \in Nat /\ v \in Nat /\ Registered(n)
    BY <1>1 DEF IInv, TypeOK, Version, VersionExists, Registered
  <2>2. CASE UNCHANGED registry
    BY <1>1, <2>2 DEF registry, VersionExists
  <2>3. ASSUME NEW caller \in Account, NEW m \in ContractName,
               NEW address \in ContractAddress, NEW uri \in MetadataUri,
               PublishLatest(caller, m, address, uri)
        PROVE  /\ VersionExists(n, v)'
               /\ addressOf'[n][v] = addressOf[n][v]
               /\ metadataUriOf'[n][v] = metadataUriOf[n][v]
    BY <1>1, <2>1, <2>3, PublishEffect DEF VersionExists
  <2>4. ASSUME NEW caller \in Account, NEW contracts \in ImportPayload,
               AdminImportContracts(caller, contracts)
        PROVE  /\ VersionExists(n, v)'
               /\ addressOf'[n][v] = addressOf[n][v]
               /\ metadataUriOf'[n][v] = metadataUriOf[n][v]
    BY <1>1, <2>1, <2>4, RegisteredNotImported DEF VersionExists
  <2>5. QED
    BY <1>1, <2>2, <2>3, <2>4, DataSteps
<1>2. IInv /\ [Next]_vars =>
        [\A n \in ContractName, v \in Version : VersionExists(n, v) =>
           /\ VersionExists(n, v)'
           /\ addressOf'[n][v] = addressOf[n][v]
           /\ metadataUriOf'[n][v] = metadataUriOf[n][v]]_vars
  BY <1>1
<1>3. QED
  BY <1>2, Invariance, PTL DEF Spec, PublishedVersionsNeverChange

\* A registered name keeps its owner, and its place in the paging index.
THEOREM Permanence == Spec => RegistrationsAreForever
<1>1. ASSUME IInv, [Next]_vars, NEW n \in ContractName, Registered(n)
      PROVE  info'[n].owner = info[n].owner
  <2>1. ASSUME NEW caller \in Account, NEW m \in ContractName,
               NEW address \in ContractAddress, NEW uri \in MetadataUri,
               PublishLatest(caller, m, address, uri)
        PROVE  info'[n].owner = info[n].owner
    BY <1>1, <2>1, PublishEffect
  <2>2. ASSUME NEW caller \in Account, NEW contracts \in ImportPayload,
               AdminImportContracts(caller, contracts)
        PROVE  info'[n].owner = info[n].owner
    BY <1>1, <2>2, RegisteredNotImported
  <2>3. QED
    BY <1>1, <2>1, <2>2, DataSteps DEF registry
<1>2. ASSUME IInv, [Next]_vars
      PROVE  /\ Len(names') >= Len(names)
             /\ \A i \in DOMAIN names : names'[i] = names[i]
  <2>1. names \in Seq(ContractName) /\ Len(names) \in Nat
    BY <1>2 DEF IInv, TypeOK
  <2>2. ASSUME NEW caller \in Account, NEW m \in ContractName,
               NEW address \in ContractAddress, NEW uri \in MetadataUri,
               PublishLatest(caller, m, address, uri)
        PROVE  /\ Len(names') >= Len(names)
               /\ \A i \in DOMAIN names : names'[i] = names[i]
    BY <2>1, <2>2 DEF PublishLatest, NextVersion, IndexWith
  <2>3. ASSUME NEW caller \in Account, NEW contracts \in ImportPayload,
               AdminImportContracts(caller, contracts)
        PROVE  /\ Len(names') >= Len(names)
               /\ \A i \in DOMAIN names : names'[i] = names[i]
    <3>1. TypeOK
      BY <1>2 DEF IInv
    <3>2. QED
      BY <2>3, <3>1, ImportedNames
  <2>4. CASE UNCHANGED registry
    BY <2>1, <2>4 DEF registry
  <2>5. QED
    BY <1>2, <2>2, <2>3, <2>4, DataSteps
<1>3. IInv /\ [Next]_vars =>
        [/\ \A n \in ContractName : Registered(n) => info'[n].owner = info[n].owner
         /\ Len(names') >= Len(names)
         /\ \A i \in DOMAIN names : names'[i] = names[i]]_vars
  BY <1>1, <1>2
<1>4. QED
  BY <1>3, Invariance, PTL DEF Spec, RegistrationsAreForever

\* While the registry is frozen, only a transaction of the admin changes the
\* data, the admin, the implementation or the freeze.
THEOREM FreezeHolds == Spec => FrozenExceptForTheAdmin
<1>1. ASSUME [Next]_vars, frozen, tx'.caller # admin
      PROVE  UNCHANGED <<registry, slots>>
  <2>1. ASSUME NEW caller \in Account, AdminCall(caller)
        PROVE  UNCHANGED <<registry, slots>>
    <3>1. ASSUME NEW error, Reverts(caller, error)
          PROVE  UNCHANGED <<registry, slots>>
      BY <3>1 DEF Reverts
    <3>2. ASSUME RequireAdmin(caller), Succeeds(caller)
          PROVE  FALSE
      BY <1>1, <3>2 DEF RequireAdmin, Succeeds
    <3>3. QED
      BY <2>1, <3>1, <3>2
      DEF AdminCall, SetAdmin, SetCode, SetCodeReverts, Freeze, Unfreeze, AdminImportContracts, ContractNames,
          AdminImportContractsReverts, AdminCallReverts
  <2>2. ASSUME NEW caller \in Account, PublishCall(caller)
        PROVE  UNCHANGED <<registry, slots>>
    <3>1. ASSUME NEW error, Reverts(caller, error)
          PROVE  UNCHANGED <<registry, slots>>
      BY <3>1 DEF Reverts
    <3>2. ASSUME NEW n \in ContractName, PublishResult(caller, n) = "Ok", Succeeds(caller)
          PROVE  FALSE
      BY <1>1, <3>2 DEF PublishResult, RequireUnfrozen, Succeeds
    <3>3. QED
      BY <2>2, <3>1, <3>2 DEF PublishCall, PublishLatest, NextVersion, IndexWith, PublishLatestReverts
  <2>3. CASE \/ \E caller \in Account : NoHandlerReverts(caller)
             \/ \E build \in Build : DeployBuild(build)
             \/ UNCHANGED vars
    BY <2>3 DEF NoHandlerReverts, Reverts, DeployBuild, vars, registry, slots
  <2>4. QED
    BY <1>1, <2>1, <2>2, <2>3 DEF Next
<1>2. [Next]_vars => [frozen /\ tx'.caller # admin => UNCHANGED <<registry, slots>>]_vars
  BY <1>1
<1>3. QED
  BY <1>2, PTL DEF Spec, FrozenExceptForTheAdmin

\* A registered name gains its versions one at a time, from its owner only.
THEOREM OwnersOnly == Spec => OnlyTheOwnerPublishes
<1>1. ASSUME IInv, [Next]_vars, NEW n \in ContractName, Registered(n), info'[n] # info[n]
      PROVE  /\ info'[n].versionCount = info[n].versionCount + 1
             /\ tx'.caller = info[n].owner
  <2>1. ASSUME NEW caller \in Account, NEW m \in ContractName,
               NEW address \in ContractAddress, NEW uri \in MetadataUri,
               PublishLatest(caller, m, address, uri)
        PROVE  /\ info'[n].versionCount = info[n].versionCount + 1
               /\ tx'.caller = info[n].owner
    BY <1>1, <2>1, PublishEffect
  <2>2. ASSUME NEW caller \in Account, NEW contracts \in ImportPayload,
               AdminImportContracts(caller, contracts)
        PROVE  FALSE
    BY <1>1, <2>2, RegisteredNotImported
  <2>3. QED
    BY <1>1, <2>1, <2>2, DataSteps DEF registry
<1>2. IInv /\ [Next]_vars =>
        [\A n \in ContractName :
           Registered(n) /\ info'[n] # info[n] =>
             /\ info'[n].versionCount = info[n].versionCount + 1
             /\ tx'.caller = info[n].owner]_vars
  BY <1>1
<1>3. QED
  BY <1>2, Invariance, PTL DEF Spec, OnlyTheOwnerPublishes

-----------------------------------------------------------------------------
(* The registry implements the abstract log. *)

LogEntry == [address : Address, metadataUri : Uri]

\* The history of a name is the sequence of its entries, one per version.
LEMMA HistorySequence ==
  ASSUME NEW k \in Version, NEW a \in [Version -> Address], NEW u \in [Version -> Uri],
         NEW h, h = [i \in 1..k |-> [address |-> a[i - 1], metadataUri |-> u[i - 1]]]
  PROVE  /\ h \in Seq(LogEntry)
         /\ Len(h) = k
         /\ DOMAIN h = 1..k
         /\ \A i \in 1..k : h[i] = [address |-> a[i - 1], metadataUri |-> u[i - 1]]
         /\ h = <<>> <=> k = 0
<1>1. k \in Nat /\ \A i \in 1..k : i - 1 \in Version
  BY DEF Version
<1>2. h \in [1..k -> LogEntry]
  BY <1>1 DEF LogEntry
<1>3. h \in Seq(LogEntry) /\ Len(h) = k
  BY <1>1, <1>2
<1>4. h = <<>> <=> k = 0
  BY <1>1, <1>3, EmptySeq
<1>5. DOMAIN h = 1..k
  BY <1>2
<1>6. QED
  BY <1>3, <1>4, <1>5

\* Adding the entry of one more version extends a history.
LEMMA HistoryExtended ==
  ASSUME NEW g \in Seq(LogEntry), NEW h \in Seq(LogEntry), Len(h) = Len(g) + 1,
         \A i \in 1..Len(g) : h[i] = g[i]
  PROVE  SubSeq(h, 1, Len(g)) = g
<1>1. Len(g) \in Nat /\ Len(g) \in 0..Len(h)
  OBVIOUS
<1>2. /\ SubSeq(h, 1, Len(g)) \in Seq(LogEntry)
      /\ Len(SubSeq(h, 1, Len(g))) = Len(g)
      /\ \A i \in 1..Len(g) : SubSeq(h, 1, Len(g))[i] = h[i]
  BY <1>1, SubSeqProperties
<1>3. QED
  BY <1>2, SeqEqual

\* The history of a name is determined by its info and its entries; it is
\* empty exactly when the name is unregistered.
LEMMA HistoryOf ==
  ASSUME TypeOK, NEW n \in ContractName
  PROVE  /\ History(n) \in Seq(LogEntry)
         /\ Len(History(n)) = info[n].versionCount
         /\ \A i \in 1..info[n].versionCount :
              History(n)[i] = [address |-> addressOf[n][i - 1], metadataUri |-> metadataUriOf[n][i - 1]]
         /\ History(n) # <<>> <=> Registered(n)
<1>1. /\ info[n].versionCount \in Version
      /\ addressOf[n] \in [Version -> Address]
      /\ metadataUriOf[n] \in [Version -> Uri]
  BY DEF TypeOK
<1>2. QED
  BY <1>1, HistorySequence DEF History, Registered

\* The same in the next state.
LEMMA HistoryOfNext ==
  ASSUME TypeOK', NEW n \in ContractName
  PROVE  /\ History(n)' \in Seq(LogEntry)
         /\ Len(History(n)') = info'[n].versionCount
         /\ \A i \in 1..info'[n].versionCount :
              History(n)'[i] = [address |-> addressOf'[n][i - 1], metadataUri |-> metadataUriOf'[n][i - 1]]
         /\ History(n)' # <<>> <=> Registered(n)'
<1>1. /\ info'[n].versionCount \in Version
      /\ addressOf'[n] \in [Version -> Address]
      /\ metadataUriOf'[n] \in [Version -> Uri]
  BY DEF TypeOK
<1>2. QED
  BY <1>1, HistorySequence DEF History, Registered

LEMMA InitRefines == Init => Log!Init
<1> SUFFICES ASSUME Init PROVE Log!Init
  OBVIOUS
<1>1. TypeOK
  BY InitIInv DEF IInv
<1>2. \A n \in ContractName : History(n) = <<>>
  BY <1>1, HistoryOf DEF Init, Registered
<1>3. QED
  BY <1>2 DEF Init, Log!Init

\* A publish of the contract is a publish of the log.
LEMMA PublishRefines ==
  ASSUME IInv, NEW caller \in Account, NEW n \in ContractName,
         NEW address \in ContractAddress, NEW uri \in MetadataUri,
         PublishLatest(caller, n, address, uri)
  PROVE  Log!Publish(n)
<1>1. TypeOK /\ TypeOK'
  BY PublishIInv DEF IInv
<1>2. /\ Len(History(n)') = Len(History(n)) + 1
      /\ \A i \in 1..Len(History(n)) : History(n)'[i] = History(n)[i]
      /\ History(n) \in Seq(LogEntry)
      /\ History(n)' \in Seq(LogEntry)
  <2>1. /\ Len(History(n)) = info[n].versionCount
        /\ Len(History(n)') = info[n].versionCount + 1
    BY <1>1, HistoryOf, HistoryOfNext, PublishEffect
  <2>2. ASSUME NEW i \in 1..info[n].versionCount
        PROVE  History(n)'[i] = History(n)[i]
    <3>1. /\ i - 1 \in Version \ {info[n].versionCount}
          /\ i \in 1..(info[n].versionCount + 1)
      BY PublishEffect DEF Version
    <3>2. /\ addressOf'[n][i - 1] = addressOf[n][i - 1]
          /\ metadataUriOf'[n][i - 1] = metadataUriOf[n][i - 1]
          /\ info'[n].versionCount = info[n].versionCount + 1
      BY <3>1, PublishEffect
    <3>3. History(n)[i] = [address |-> addressOf[n][i - 1], metadataUri |-> metadataUriOf[n][i - 1]]
      BY <1>1, HistoryOf
    <3>4. History(n)'[i] = [address |-> addressOf'[n][i - 1], metadataUri |-> metadataUriOf'[n][i - 1]]
      BY <1>1, <3>1, <3>2, HistoryOfNext
    <3>5. QED
      BY <3>2, <3>3, <3>4
  <2>3. QED
    BY <1>1, <2>1, <2>2, HistoryOf, HistoryOfNext
<1>3. SubSeq(History(n)', 1, Len(History(n))) = History(n)
  BY <1>2, HistoryExtended
<1>4. ASSUME NEW m \in ContractName \ {n}
      PROVE  History(m)' = History(m)
  BY PublishEffect DEF History
<1>5. [m \in ContractName |-> History(m)]'
        = [[m \in ContractName |-> History(m)] EXCEPT ![n] = [m \in ContractName |-> History(m)]'[n]]
  BY <1>4
<1>6. [m \in ContractName |-> info[m].owner]'
        = [[m \in ContractName |-> info[m].owner] EXCEPT ![n] = tx'.caller]
  <2>1. \A m \in ContractName : info'[m].owner = IF m = n THEN tx'.caller ELSE info[m].owner
    BY PublishEffect
  <2>2. QED
    BY <2>1
<1>7. Registered(n) <=> [m \in ContractName |-> History(m)][n] # <<>>
  BY <1>1, HistoryOf
<1>8. Registered(n) => [m \in ContractName |-> info[m].owner][n] = tx'.caller
  BY PublishEffect
<1>9. names' = IF Registered(n) THEN names ELSE Append(names, n)
  BY DEF PublishLatest, NextVersion, IndexWith
<1>10. QED
  BY <1>2, <1>3, <1>5, <1>6, <1>7, <1>8, <1>9 DEF Log!Publish, Log!Registered

\* An accepted import of the contract is an import of the log by its curator.
LEMMA ImportRefines ==
  ASSUME IInv, NEW caller \in Account, NEW contracts \in ImportPayload,
         AdminImportContracts(caller, contracts)
  PROVE  Log!Import
<1>1. TypeOK /\ TypeOK' /\ Refused(contracts) = {}
  BY ImportIInv DEF IInv, AdminImportContracts, ContractNames
<1>2. tx'.caller = admin
  BY DEF AdminImportContracts, ContractNames, RequireAdmin, Succeeds
<1>3. ASSUME NEW n \in ContractName, History(n) # <<>>
      PROVE  History(n)' = History(n) /\ info'[n].owner = info[n].owner
  <2>1. Registered(n)
    BY <1>1, <1>3, HistoryOf
  <2>2. QED
    BY <2>1, RegisteredNotImported DEF History
<1>4. /\ Len(names) \in Nat
      /\ Len(contracts) \in Nat
      /\ Len(names') = Len(names) + Len(contracts)
      /\ \A i \in 1..Len(names) : names'[i] = names[i]
      /\ \A k \in 1..Len(contracts) : names'[Len(names) + k] = contracts[k].contractName
  BY <1>1, ImportedNames
<1>5. ASSUME NEW i \in (Len(names) + 1)..Len(names')
      PROVE  /\ i - Len(names) \in DOMAIN contracts
             /\ names'[i] = contracts[i - Len(names)].contractName
  <2>1. i - Len(names) \in 1..Len(contracts) /\ Len(names) + (i - Len(names)) = i
    BY <1>4
  <2>2. QED
    BY <1>4, <2>1, PayloadType
<1>6. ASSUME NEW i \in (Len(names) + 1)..Len(names'), NEW j \in (Len(names) + 1)..Len(names'),
             names'[i] = names'[j]
      PROVE  i = j
  <2>1. /\ i - Len(names) \in DOMAIN contracts
        /\ j - Len(names) \in DOMAIN contracts
        /\ contracts[i - Len(names)].contractName = contracts[j - Len(names)].contractName
    BY <1>5, <1>6
  <2>2. i - Len(names) = j - Len(names)
    BY <1>1, <2>1, AcceptedPayload
  <2>3. QED
    BY <1>4, <2>2
<1>7. ASSUME NEW n \in ContractName
      PROVE  (History(n) = <<>> /\ History(n)' # <<>>)
               <=> \E i \in (Len(names) + 1)..Len(names') : names'[i] = n
  <2>1. ASSUME NEW i \in (Len(names) + 1)..Len(names'), names'[i] = n
        PROVE  Imports(contracts, n)
    BY <1>5, <2>1 DEF Imports
  <2>2. ASSUME Imports(contracts, n)
        PROVE  \E i \in (Len(names) + 1)..Len(names') : names'[i] = n
    <3>1. PICK k \in 1..Len(contracts) : contracts[k].contractName = n
      BY <2>2, PayloadType DEF Imports
    <3>2. Len(names) + k \in (Len(names) + 1)..Len(names')
      BY <1>4
    <3>3. QED
      BY <1>4, <3>1, <3>2
  <2>3. ASSUME Imports(contracts, n)
        PROVE  ~Registered(n) /\ Registered(n)'
    BY <1>1, <2>3, ImportedName, ImportEffect DEF Registered
  <2>4. ASSUME ~Imports(contracts, n)
        PROVE  Registered(n)' <=> Registered(n)
    BY <1>1, <2>4, ImportEffect DEF Registered
  <2>5. (History(n) # <<>> <=> Registered(n)) /\ (History(n)' # <<>> <=> Registered(n)')
    BY <1>1, HistoryOf, HistoryOfNext
  <2>6. QED
    BY <2>1, <2>2, <2>3, <2>4, <2>5
<1>8. /\ Len(names') >= Len(names)
      /\ \A i \in 1..Len(names) : names'[i] = names[i]
  BY <1>4
<1>9. QED
  BY <1>2, <1>3, <1>6, <1>7, <1>8 DEF Log!Import, Log!Registered

\* Every behaviour of the contract is a behaviour of the append-only log.
THEOREM Refinement == Spec => ImplementsLog
<1>1. ASSUME IInv, [Next]_vars
      PROVE  [Log!Next]_<<names, [n \in ContractName |-> info[n].owner],
                          [n \in ContractName |-> History(n)]>>
  <2>1. CASE UNCHANGED registry
    BY <2>1 DEF registry, History
  <2>2. ASSUME NEW caller \in Account, NEW n \in ContractName,
               NEW address \in ContractAddress, NEW uri \in MetadataUri,
               PublishLatest(caller, n, address, uri)
        PROVE  Log!Next
    BY <1>1, <2>2, PublishRefines DEF Log!Next
  <2>3. ASSUME NEW caller \in Account, NEW contracts \in ImportPayload,
               AdminImportContracts(caller, contracts)
        PROVE  Log!Next
    BY <1>1, <2>3, ImportRefines DEF Log!Next
  <2>4. QED
    BY <1>1, <2>1, <2>2, <2>3, DataSteps
<1>2. IInv /\ [Next]_vars =>
        [Log!Next]_<<names, [n \in ContractName |-> info[n].owner],
                     [n \in ContractName |-> History(n)]>>
  BY <1>1
<1>3. QED
  BY <1>2, InitRefines, Invariance, PTL DEF Spec, ImplementsLog, Log!Spec
=============================================================================
