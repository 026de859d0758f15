----------------------------- MODULE Migration ------------------------------
(***************************************************************************)
(* Moving the contents of one registry, the source, into another, the      *)
(* target: the scripts export.ts and import.ts, and deploy-registry with   *)
(* --migrate-from-registry, which does both.                               *)
(*                                                                         *)
(* An export reads the source by single queries while its owners publish.  *)
(* An import first probes the target for every name of the snapshot and    *)
(* then sends those it did not find, in batches, while anybody may publish *)
(* on the target.  Runs fail, are cut off and are repeated.                *)
(*                                                                         *)
(* Both registries are abstract logs (RegistryLog), which Registry         *)
(* refines; the importing account is the admin of the target.              *)
(*                                                                         *)
(* A definition named D_Fault is a faulty variant of D that no             *)
(* specification uses: put in the place of D, it shows which property      *)
(* would notice the fault.                                                 *)
(***************************************************************************)
EXTENDS Integers, Sequences, FiniteSetsExt, SequencesExt

CONSTANTS
  Name,
  SourceAccount, TargetAccount, \* those that publish on the source, on the target
  NoOwner,      \* the owner of an unregistered name
  Run,          \* invocations of the scripts
  Kind,         \* run -> "export", "import" or "migrate"
  After,        \* run -> the runs that must have ended before it starts
  Faulty,       \* the runs in which any external step may fail
  BatchSize,    \* run -> --batch-size
  Contested,    \* bound: the names anybody publishes on the target
  MaxVersions   \* bound: name -> the most versions anybody publishes of it

Account == SourceAccount \cup TargetAccount

ASSUME RunsAssumption ==
  /\ Kind \in [Run -> {"export", "import", "migrate"}]
  /\ After \in [Run -> SUBSET Run] /\ Faulty \subseteq Run
  /\ BatchSize \in [Run -> Nat \ {0}] /\ MaxVersions \in [Name -> Nat]
  /\ NoOwner \notin Account /\ Contested \subseteq Name

VARIABLES
  order,        \* source: the names in the order of its index
  owner, log,   \* source: name -> its owner, its entries
  ownerAt, logAt, \* target: the same
  file,         \* the snapshot file: absent, torn, or whole with its contracts
  run           \* run -> its local variables

source == <<order, owner, log>>
target == <<ownerAt, logAt>>
vars   == <<order, owner, log, ownerAt, logAt, file, run>>

Absent == [state |-> "absent", contracts |-> <<>>]
Torn   == [state |-> "torn", contracts |-> <<>>]
Whole(contracts) == [state |-> "whole", contracts |-> contracts]

Ended == {"done", "failed", "crashed"}

\* at: the next step; contracts: the snapshot; total, count: the answers of
\* getContractCount and getVersionCount; probed: names probed; remaining: the
\* contracts to import; start: the first one of the next batch, from 0.
\* before: what the source held when the export began (a history variable).
Fresh == [at |-> "idle", contracts |-> <<>>, total |-> 0, count |-> 0, probed |-> 0,
          remaining |-> <<>>, start |-> 0, before |-> [n \in Name |-> 0]]

At(r, where)     == run[r].at = where
Goto(r, where)   == run' = [run EXCEPT ![r].at = where]
Fails(r)         == Goto(r, "failed")

-----------------------------------------------------------------------------
(* The registries.  publishLatest: the first publisher owns the name. *)

Entry(registry, n, v) == [registry |-> registry, name |-> n, version |-> v]
MayPublish(owners, history, n, a) ==
  (history[n] # <<>> => owners[n] = a) /\ Len(history[n]) < MaxVersions[n]

PublishAtSource(n, a) ==
  /\ MayPublish(owner, log, n, a)
  /\ order' = IF log[n] = <<>> THEN Append(order, n) ELSE order
  /\ owner' = [owner EXCEPT ![n] = a]
  /\ log' = [log EXCEPT ![n] = Append(@, Entry("source", n, Len(@)))]
  /\ UNCHANGED <<target, file, run>>

PublishAtTarget(n, a) ==
  /\ MayPublish(ownerAt, logAt, n, a)
  /\ ownerAt' = [ownerAt EXCEPT ![n] = a]
  /\ logAt' = [logAt EXCEPT ![n] = Append(@, Entry("target", n, Len(@)))]
  /\ UNCHANGED <<source, file, run>>

\* adminImportContracts: the whole batch, or nothing (ImportContractExists).
CanImport(batch) == \A i \in DOMAIN batch : logAt[batch[i].name] = <<>>
AdminImportContracts(batch) ==
  LET contract(n) == CHOOSE c \in ToSet(batch) : c.name = n
      imports(n)  == \E c \in ToSet(batch) : c.name = n
  IN  /\ ownerAt' = [n \in Name |-> IF imports(n) THEN contract(n).owner ELSE ownerAt[n]]
      /\ logAt'   = [n \in Name |-> IF imports(n) THEN contract(n).versions ELSE logAt[n]]

-----------------------------------------------------------------------------
(* Exporting. *)

Start(r) ==
  /\ At(r, "idle") /\ \A q \in After[r] : run[q].at \in Ended
  /\ Goto(r, IF Kind[r] = "import" THEN "read" ELSE "total")
  /\ UNCHANGED <<source, target, file>>

QueryContractCount(r) ==
  /\ At(r, "total")
  /\ run' = [run EXCEPT ![r].at = "contract", ![r].total = Len(order),
                        ![r].before = [n \in Name |-> Len(log[n])]]
  /\ UNCHANGED <<source, target, file>>

\* exportContract: the name at the next index, its owner and version count.
\* The owner of a name and its place in the index never change (Registry), so
\* that only the moment of the version count matters.
VersionCount_Latest(n) == Len(log[n]) - 1
VersionCount(n) == Len(log[n])
Contract_TargetOwner(n) == [name |-> n, owner |-> ownerAt[n], versions |-> <<>>]
Contract(n)     == [name |-> n, owner |-> owner[n], versions |-> <<>>]
NextIndex(r)    == Len(run[r].contracts) + 1

ExportContract(r) ==
  /\ At(r, "contract") /\ NextIndex(r) <= run[r].total
  /\ LET n == order[NextIndex(r)] IN
     run' = [run EXCEPT ![r].at = "versions", ![r].count = VersionCount(n),
                        ![r].contracts = Append(@, Contract(n))]
  /\ UNCHANGED <<source, target, file>>

\* exportVersion: the address and the URI of the next version.  The same holds
\* for them.
EntryAt_Latest(n, v) == log[n][Len(log[n])]
EntryAt(n, v) == log[n][v + 1]

ExportVersion(r) ==
  LET current == Len(run[r].contracts)
      c == run[r].contracts[current]
      version == Len(c.versions)
      contract == [c EXCEPT !.versions = Append(@, EntryAt(c.name, version))]
  IN  /\ At(r, "versions")
      /\ IF version < run[r].count
           THEN run' = [run EXCEPT ![r].contracts[current] = contract]
           ELSE Goto(r, "contract")
      /\ UNCHANGED <<source, target, file>>

\* The snapshot is written; an export ends here.
CanWrite(r) == At(r, "contract") /\ Len(run[r].contracts) = run[r].total

WriteSnapshot(r) ==
  /\ CanWrite(r)
  /\ file' = Whole(run[r].contracts)
  /\ Goto(r, IF Kind[r] = "migrate" THEN "probe" ELSE "done")
  /\ UNCHANGED <<source, target>>

-----------------------------------------------------------------------------
(* Importing. *)

ReadSnapshot(r) ==
  /\ At(r, "read")
  /\ IF file.state # "whole" THEN Fails(r)
     ELSE run' = [run EXCEPT ![r].at = "probe", ![r].contracts = file.contracts]
  /\ UNCHANGED <<source, target, file>>

Missing(c) == logAt[c.name] = <<>>

Probe(r) ==
  /\ At(r, "probe") /\ run[r].probed < Len(run[r].contracts)
  /\ LET c == run[r].contracts[run[r].probed + 1] IN
     run' = [run EXCEPT ![r].probed = @ + 1,
                        ![r].remaining = IF Missing(c) THEN Append(@, c) ELSE @]
  /\ UNCHANGED <<source, target, file>>

Probed(r) ==
  /\ At(r, "probe") /\ run[r].probed = Len(run[r].contracts)
  /\ Goto(r, "import")
  /\ UNCHANGED <<source, target, file>>

\* slice(start, start + batchSize), and the next start.
Batch(r) == SubSeq(run[r].remaining, run[r].start + 1,
                   Min({run[r].start + BatchSize[r], Len(run[r].remaining)}))
NextStart_SkipsOne(r) == run[r].start + BatchSize[r] + 1
NextStart(r) == run[r].start + BatchSize[r]

\* A batch lands and is seen to; or it is refused, lost, or lands unseen.
ImportBatch(r) ==
  /\ At(r, "import") /\ run[r].start < Len(run[r].remaining)
  /\ \/ /\ CanImport(Batch(r)) /\ AdminImportContracts(Batch(r))
        /\ run' = [run EXCEPT ![r].start = NextStart(r)]
     \/ ~CanImport(Batch(r)) /\ UNCHANGED target /\ Fails(r)
     \/ r \in Faulty /\ UNCHANGED target /\ Fails(r)
     \/ r \in Faulty /\ CanImport(Batch(r)) /\ AdminImportContracts(Batch(r)) /\ Fails(r)
  /\ UNCHANGED <<source, file>>

Imported(r) ==
  /\ At(r, "import") /\ run[r].start >= Len(run[r].remaining)
  /\ Goto(r, "done")
  /\ UNCHANGED <<source, target, file>>

\* A query fails, or the file cannot be written; or the run is cut off, perhaps
\* while it writes the file.
Interrupted(r, end) ==
  /\ r \in Faulty /\ run[r].at \notin Ended \cup {"idle"}
  /\ Goto(r, end)
  /\ file' \in IF CanWrite(r) THEN {file, Torn} ELSE {file}
  /\ UNCHANGED <<source, target>>

Init ==
  /\ order = <<>>
  /\ owner = [n \in Name |-> NoOwner] /\ log = [n \in Name |-> <<>>]
  /\ ownerAt = owner /\ logAt = log
  /\ file = Absent
  /\ run = [r \in Run |-> Fresh]

Step(r) ==
  \/ Start(r) \/ QueryContractCount(r) \/ ExportContract(r) \/ ExportVersion(r)
  \/ WriteSnapshot(r) \/ ReadSnapshot(r) \/ Probe(r) \/ Probed(r)
  \/ ImportBatch(r) \/ Imported(r) \/ Interrupted(r, "failed")

Next ==
  \/ \E n \in Name, a \in SourceAccount : PublishAtSource(n, a)
  \/ \E n \in Contested, a \in TargetAccount : PublishAtTarget(n, a)
  \/ \E r \in Run : Step(r) \/ Interrupted(r, "crashed")

\* Queries and submissions are answered, with success or an error; nothing
\* obliges anybody to publish.
Fairness == \A r \in Run : WF_vars(Step(r))

Spec == Init /\ [][Next]_vars /\ Fairness
-----------------------------------------------------------------------------
(* Properties. *)

\* Type invariant.
Steps == {"idle", "read", "total", "contract", "versions", "probe", "import"} \cup Ended
EntryType    == [registry : {"source", "target"}, name : Name, version : Nat]
ContractType == [name : Name, owner : Account, versions : Seq(EntryType)]
RunType ==
  [at : Steps, contracts : Seq(ContractType), total : Nat, count : Nat, probed : Nat,
   remaining : Seq(ContractType), start : Nat, before : [Name -> Nat]]
TypeOK ==
  /\ order \in Seq(Name)
  /\ owner \in [Name -> Account \cup {NoOwner}] /\ ownerAt \in [Name -> Account \cup {NoOwner}]
  /\ log \in [Name -> Seq(EntryType)] /\ logAt \in [Name -> Seq(EntryType)]
  /\ file \in [state : {"absent", "torn", "whole"}, contracts : Seq(ContractType)]
  /\ run \in [Run -> RunType]

\* Every contract of a snapshot is the beginning of its history, under its
\* owner, however the source moved while it was read.
SnapshotIsHistory ==
  \A r \in Run : \A c \in ToSet(run[r].contracts) :
    /\ c.owner = owner[c.name]
    /\ IsPrefix(c.versions, log[c.name])

\* A run that has exported the source missed nothing that had been published
\* when it began.
NothingIsMissed ==
  \A r \in Run : run[r].at \in {"probe", "import", "done"} =>
    \A n \in Name : run[r].before[n] > 0 =>
      \E c \in ToSet(run[r].contracts) : c.name = n /\ Len(c.versions) >= run[r].before[n]

\* Whatever was repeated, lost or overtaken: a name of the target has either a
\* history of the target only, or it begins with the versions of the source,
\* without a gap, and belongs to the owner it has there.
TargetIsExact ==
  \A n \in Name : logAt[n] # <<>> =>
    \E k \in 0..Len(logAt[n]) :
      /\ IsPrefix(SubSeq(logAt[n], 1, k), log[n])
      /\ \A i \in (k + 1)..Len(logAt[n]) : logAt[n][i].registry = "target"
      /\ k > 0 => ownerAt[n] = owner[n]

\* An import that reports success leaves no name of its snapshot behind.
DoneMeansMigrated ==
  \A r \in Run : run[r].at = "done" /\ Kind[r] # "export" =>
    \A c \in ToSet(run[r].contracts) : logAt[c.name] # <<>>

=============================================================================
